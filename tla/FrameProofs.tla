----------------------------- MODULE FrameProofs -----------------------------
(***************************************************************************)
(* Proofs about the three readers of a frame stream: the callback of the C *)
(* adapter, the Node iterator and the Python iterator.  First the sums of  *)
(* the bytes in a channel, then an invariant and its steps for each        *)
(* reader, and at the end the theorems about the system that has one.      *)
(***************************************************************************)
EXTENDS MCFrameConsumers, WellFoundedInduction, TLAPS

Pairs == Nat \X Nat

(* A non-empty set of numbers has a least element: what the sums of a      *)
(* channel are is shown by the least position where they would differ.     *)
LEMMA LeastExists ==
  ASSUME NEW S \in SUBSET Nat, S # {}
  PROVE  \E x \in S : \A y \in S : x =< y
  <1> DEFINE R == OpToRel(<, Nat)
  <1>1. IsWellFoundedOn(R, Nat)
    BY NatLessThanWellFounded
  <1>2. \E x \in S : \A y \in S : ~ (<<y, x>> \in R)
    <2> HIDE DEF R
    <2> QED BY <1>1, WFMin
  <1>3. \A x, y \in Nat : ~(<<y, x>> \in R) => x =< y
    BY DEF OpToRel
  <1> HIDE DEF R
  <1> QED BY <1>2, <1>3

(* The equation of Sums, up to the entry k.                                *)
AreSums(f, q, k) ==
  f = [n \in 0 .. k |-> IF n = 0 THEN 0 ELSE f[n - 1] + q[n][2]]

LEMMA SumsExist ==
  ASSUME NEW q, NEW k \in Nat
  PROVE  \E f : AreSums(f, q, k)
  <1> DEFINE S == {n \in Nat : ~ \E f : AreSums(f, q, n)}
  <1> SUFFICES S = {}
    OBVIOUS
  <1> SUFFICES ASSUME S # {}
               PROVE  FALSE
    OBVIOUS
  <1>1. PICK m \in S : \A y \in S : m =< y
    <2>1. S \in SUBSET Nat
      OBVIOUS
    <2> HIDE DEF S
    <2> QED BY <2>1, LeastExists
  <1>2. m # 0
    <2>1. AreSums([n \in 0 .. 0 |-> 0], q, 0)
      BY DEF AreSums
    <2> QED BY <2>1, <1>1
  <1>3. m \in Nat /\ m - 1 \in Nat /\ m - 1 \notin S
    BY <1>1, <1>2
  <1>4. PICK f : AreSums(f, q, m - 1)
    BY <1>3
  <1> DEFINE g == [n \in 0 .. m |-> IF n = m THEN f[m - 1] + q[m][2] ELSE f[n]]
  <1>5. \A n \in 0 .. m : g[n] = IF n = 0 THEN 0 ELSE g[n - 1] + q[n][2]
    <2> TAKE n \in 0 .. m
    <2>1. CASE n = m
      BY <2>1, <1>2, <1>3
    <2>2. CASE n # m
      <3>1. n \in 0 .. m - 1 /\ (n # 0 => n - 1 \in 0 .. m - 1)
        BY <2>2, <1>3
      <3>2. f[n] = IF n = 0 THEN 0 ELSE f[n - 1] + q[n][2]
        <4> DEFINE F == [i \in 0 .. m - 1 |-> IF i = 0 THEN 0 ELSE f[i - 1] + q[i][2]]
        <4>1. f = F
          BY <1>4 DEF AreSums
        <4>2. F[n] = IF n = 0 THEN 0 ELSE f[n - 1] + q[n][2]
          BY <3>1
        <4> HIDE DEF F
        <4> QED BY <4>1, <4>2
      <3>3. g[n] = f[n] /\ (n # 0 => n - 1 \in 0 .. m /\ g[n - 1] = f[n - 1])
        BY <3>1, <2>2, <1>3
      <3> QED BY <3>2, <3>3
    <2> QED BY <2>1, <2>2
  <1>6. AreSums(g, q, m)
    <2>1. g = [n \in 0 .. m |-> g[n]]
      OBVIOUS
    <2> HIDE DEF g
    <2> QED BY <2>1, <1>5 DEF AreSums
  <1> QED BY <1>1, <1>6

LEMMA SumsAre ==
  ASSUME NEW q \in Seq(Pairs)
  PROVE  AreSums(Sums(q), q, Len(q))
  <1>1. Len(q) \in Nat
    OBVIOUS
  <1>2. \E f : AreSums(f, q, Len(q))
    BY <1>1, SumsExist
  <1> QED BY <1>2 DEF AreSums, Sums

LEMMA SumsStep ==
  ASSUME NEW q \in Seq(Pairs)
  PROVE  /\ Sums(q)[0] = 0
         /\ \A n \in 1 .. Len(q) : Sums(q)[n] = Sums(q)[n - 1] + q[n][2]
  <1> DEFINE f == Sums(q)
  <1>1. f = [n \in 0 .. Len(q) |-> IF n = 0 THEN 0 ELSE f[n - 1] + q[n][2]]
    BY SumsAre DEF AreSums
  <1>2. Len(q) \in Nat
    OBVIOUS
  <1> HIDE DEF f
  <1> DEFINE F == [n \in 0 .. Len(q) |-> IF n = 0 THEN 0 ELSE f[n - 1] + q[n][2]]
  <1>3. F[0] = 0 /\ \A n \in 1 .. Len(q) : F[n] = f[n - 1] + q[n][2]
    BY <1>2
  <1>4. f[0] = 0 /\ \A n \in 1 .. Len(q) : f[n] = f[n - 1] + q[n][2]
    <2>1. f = F
      BY <1>1
    <2> HIDE DEF F
    <2> QED BY <1>3, <2>1
  <1> QED BY <1>4 DEF f

LEMMA SumsAreNumbers ==
  ASSUME NEW q \in Seq(Pairs), NEW n \in 0 .. Len(q)
  PROVE  Sums(q)[n] \in Nat
  <1> DEFINE S == {i \in 0 .. Len(q) : Sums(q)[i] \notin Nat}
  <1> SUFFICES ASSUME S # {}
               PROVE  FALSE
    OBVIOUS
  <1>1. PICK m \in S : \A y \in S : m =< y
    <2>1. S \in SUBSET Nat
      OBVIOUS
    <2> HIDE DEF S
    <2> QED BY <2>1, LeastExists
  <1>2. m \in 1 .. Len(q)
    BY <1>1, SumsStep
  <1>3. Sums(q)[m - 1] \in Nat
    BY <1>1, <1>2
  <1>4. q[m] \in Pairs
    BY <1>2
  <1>5. q[m][2] \in Nat
    BY <1>4 DEF Pairs
  <1>6. Sums(q)[m] = Sums(q)[m - 1] + q[m][2]
    BY <1>2, SumsStep
  <1> QED BY <1>1, <1>3, <1>5, <1>6

(* Two running sums that take the same steps stay as far apart.            *)
Parallel(f, g, d, k) ==
  /\ \A n \in 0 .. k : f[n] \in Nat /\ g[n] \in Nat
  /\ f[0] = g[0] + d
  /\ \A n \in 1 .. k : f[n] - f[n - 1] = g[n] - g[n - 1]

LEMMA SameSteps ==
  ASSUME NEW k \in Nat, NEW f, NEW g, NEW d \in Nat, Parallel(f, g, d, k)
  PROVE  f[k] = g[k] + d
  <1> USE DEF Parallel
  <1> DEFINE S == {n \in 0 .. k : f[n] # g[n] + d}
  <1> SUFFICES ASSUME S # {}
               PROVE  FALSE
    OBVIOUS
  <1>1. PICK m \in S : \A y \in S : m =< y
    <2>1. S \in SUBSET Nat
      OBVIOUS
    <2> HIDE DEF S
    <2> QED BY <2>1, LeastExists
  <1>2. m \in 1 .. k /\ m - 1 \in 0 .. k /\ m - 1 \notin S
    BY <1>1
  <1>3. f[m - 1] = g[m - 1] + d /\ f[m] - f[m - 1] = g[m] - g[m - 1]
    BY <1>2
  <1>4. f[m] \in Nat /\ g[m] \in Nat /\ f[m - 1] \in Nat /\ g[m - 1] \in Nat
    BY <1>2
  <1> QED BY <1>1, <1>3, <1>4

LEMMA TotalIsNat ==
  ASSUME NEW q \in Seq(Pairs)
  PROVE  TotalBytes(q) \in Nat
  <1>1. Len(q) \in 0 .. Len(q)
    OBVIOUS
  <1> QED BY <1>1, SumsAreNumbers DEF TotalBytes

LEMMA TotalOfNothing == TotalBytes(<<>>) = 0
  <1>1. <<>> \in Seq(Pairs) /\ Len(<<>>) = 0
    OBVIOUS
  <1> QED BY <1>1, SumsStep DEF TotalBytes

LEMMA TotalOfAppend ==
  ASSUME NEW q \in Seq(Pairs), NEW e \in Pairs
  PROVE  TotalBytes(Append(q, e)) = TotalBytes(q) + e[2]
  <1> DEFINE r == Append(q, e)
  <1>1. /\ r \in Seq(Pairs) /\ Len(r) = Len(q) + 1 /\ r[Len(r)] = e
        /\ \A n \in 1 .. Len(q) : r[n] = q[n]
    OBVIOUS
  <1>2. Len(q) \in Nat
    OBVIOUS
  <1> HIDE DEF r
  <1>3. \A n \in 0 .. Len(q) : Sums(r)[n] \in Nat /\ Sums(q)[n] \in Nat
    BY <1>1, <1>2, SumsAreNumbers
  <1>4. Sums(r)[0] = Sums(q)[0] + 0
    BY <1>1, SumsStep
  <1>5. \A n \in 1 .. Len(q) : Sums(r)[n] - Sums(r)[n - 1] = Sums(q)[n] - Sums(q)[n - 1]
    <2> TAKE n \in 1 .. Len(q)
    <2>1. n \in 1 .. Len(r) /\ n - 1 \in 0 .. Len(q)
      BY <1>1, <1>2
    <2>2. Sums(r)[n] = Sums(r)[n - 1] + q[n][2] /\ Sums(q)[n] = Sums(q)[n - 1] + q[n][2]
      BY <1>1, <2>1, SumsStep
    <2>3. q[n][2] \in Nat
      BY DEF Pairs
    <2> QED BY <1>3, <2>1, <2>2, <2>3
  <1>6. Sums(r)[Len(q)] = Sums(q)[Len(q)] + 0
    <2>1. Parallel(Sums(r), Sums(q), 0, Len(q))
      BY <1>3, <1>4, <1>5 DEF Parallel
    <2> QED BY <1>2, <2>1, SameSteps
  <1>7. Sums(r)[Len(r)] = Sums(r)[Len(q)] + e[2]
    BY <1>1, <1>2, SumsStep
  <1> QED BY <1>2, <1>3, <1>6, <1>7 DEF TotalBytes, r

LEMMA TotalOfTail ==
  ASSUME NEW q \in Seq(Pairs), q # <<>>
  PROVE  /\ TotalBytes(q) = Head(q)[2] + TotalBytes(Tail(q))
         /\ Head(q) \in Pairs /\ Head(q)[2] \in Nat
         /\ Tail(q) \in Seq(Pairs) /\ TotalBytes(Tail(q)) \in Nat
  <1> DEFINE t == Tail(q)
  <1>1. /\ t \in Seq(Pairs) /\ Len(q) = Len(t) + 1 /\ Head(q) = q[1] /\ q[1] \in Pairs
        /\ \A n \in 1 .. Len(t) : t[n] = q[n + 1]
    OBVIOUS
  <1>2. Len(t) \in Nat
    BY <1>1
  <1> HIDE DEF t
  <1> DEFINE f == [n \in 0 .. Len(t) |-> Sums(q)[n + 1]]
  <1> DEFINE g == Sums(t)
  <1>3. \A n \in 0 .. Len(t) : f[n] \in Nat /\ g[n] \in Nat
    BY <1>1, <1>2, SumsAreNumbers
  <1>4. q[1][2] \in Nat
    BY <1>1 DEF Pairs
  <1>5. f[0] = g[0] + q[1][2]
    <2>1. Sums(q)[1] = Sums(q)[0] + q[1][2] /\ Sums(q)[0] = 0 /\ Sums(t)[0] = 0
      BY <1>1, <1>2, SumsStep
    <2> QED BY <1>2, <1>4, <2>1
  <1>6. \A n \in 1 .. Len(t) : f[n] - f[n - 1] = g[n] - g[n - 1]
    <2> TAKE n \in 1 .. Len(t)
    <2>1. n + 1 \in 1 .. Len(q) /\ n - 1 \in 0 .. Len(t) /\ (n + 1) - 1 = n
      BY <1>1, <1>2
    <2>2. Sums(q)[n + 1] = Sums(q)[n] + q[n + 1][2]
      BY <1>1, <2>1, SumsStep
    <2>3. Sums(t)[n] = Sums(t)[n - 1] + q[n + 1][2]
      BY <1>1, SumsStep
    <2>4. f[n] = Sums(q)[n + 1] /\ f[n - 1] = Sums(q)[n]
      BY <1>2, <2>1
    <2>5. q[n + 1] \in Pairs
      BY <2>1
    <2>6. q[n + 1][2] \in Nat
      BY <2>5 DEF Pairs
    <2>7. f[n] \in Nat /\ f[n - 1] \in Nat /\ g[n] \in Nat /\ g[n - 1] \in Nat
      <3> HIDE DEF f, g
      <3> QED BY <1>2, <1>3, <2>1
    <2> HIDE DEF f
    <2> QED BY <2>2, <2>3, <2>4, <2>6, <2>7
  <1>7. f[Len(t)] = Sums(q)[Len(q)]
    BY <1>1, <1>2
  <1>8. f[Len(t)] = g[Len(t)] + q[1][2]
    <2>1. Parallel(f, g, q[1][2], Len(t))
      BY <1>3, <1>5, <1>6 DEF Parallel
    <2> HIDE DEF f, g
    <2> QED BY <1>2, <1>4, <2>1, SameSteps
  <1>9. TotalBytes(t) \in Nat
    BY <1>1, TotalIsNat
  <1> QED BY <1>1, <1>4, <1>7, <1>8, <1>9 DEF TotalBytes, t

-----------------------------------------------------------------------------
(* The readers' inductive invariants.                                      *)

Outcomes == {"Success", "Error", "Cancelled"}
SeenFrames ==
  [type : {"Event", "End", "None"}, seq : Nat, outcome : Outcomes \cup {"None"}]

FrameTypes ==
  events \in {"live", "gone"} /\ signal \in {"quiet", "aborted"} /\ seq \in 0 .. SeqMax

AllEvents(out) == \A i \in 1 .. Len(out) : out[i].type = "Event"

(* The callback: while the call polls it has been given every event.       *)
CInv ==
  /\ FrameTypes /\ delivered \in Seq(SeenFrames) /\ call \in {"polling", "returned"}
  /\ call = "polling" => Len(delivered) = seq /\ AllEvents(delivered)

(* The Node bridge.                                                        *)
NodeTypes ==
  /\ FrameTypes /\ next_seq \in Nat /\ held \in Pairs /\ got \in Pairs
  /\ producer \in {"reserve", "poll", "permit", "send", "sending", "drop", "gone"}
  /\ queue \in Seq(Pairs) /\ free \in Nat /\ receiver \in {"open", "closed"}
  /\ terminal \in SeenFrames /\ closed \in {"no", "yes"}
  /\ reader \in {"idle", "check", "lock", "recv", "got", "hand", "eof", "take"}
  /\ asked \in {"open", "late"}
  /\ closer \in {"idle", "abort", "drain", "done"} /\ yielded \in Seq(SeenFrames)

(* Only a closed iterator has a closed channel.                            *)
ClosedFirst == receiver = "closed" \/ closer # "idle" => closed = "yes"

(* Until it is closed the iterator, next, the channel and produce hold     *)
(* consecutive numbers, and the stored terminal has the one after them.    *)
NodeCounts ==
  /\ next_seq = Len(yielded) + Count(HoldsEntry) + Len(queue)
  /\ AllEvents(yielded)
  /\ HoldsEntry => got[1] = Len(yielded)
  /\ \A i \in 1 .. Len(queue) :
        queue[i][1] = Len(yielded) + Count(HoldsEntry) + i - 1
  /\ HoldsEvent => held[1] = next_seq /\ seq = next_seq + 1
  /\ producer \in {"reserve", "poll"} => seq = next_seq
  /\ producer \in {"drop", "gone"} =>
        /\ terminal.type = "End" /\ terminal.seq = next_seq
        /\ terminal.outcome \in Outcomes
        /\ signal = "quiet" => seq = next_seq
  /\ reader = "eof" => queue = <<>> /\ producer = "gone"

(* What next is about to return is the next frame, close() or not: it was  *)
(* settled while the iterator was open, and nobody else returns one.       *)
HandedIsNext ==
  /\ reader = "hand" => got[1] = Len(yielded) /\ AllEvents(yielded)
  /\ reader = "take" =>
        /\ closed = "yes" /\ producer = "gone" /\ AllEvents(yielded)
        /\ terminal.type = "End" /\ terminal.seq = Len(yielded)
        /\ terminal.outcome \in Outcomes

(* A next that was called after close() goes no further than the flag.     *)
LateIsTurnedAway ==
  /\ reader \notin {"idle", "check"} => asked = "open"
  /\ asked = "late" => closed = "yes"

SlotsAreCounted == Len(queue) + Count(HoldsSlot) <= Items

(* A success is the upstream's own, and has the number after its last.     *)
SuccessesAreLast ==
  /\ terminal.outcome = "Success" => events = "gone" /\ terminal.seq = seq
  /\ SuccessIsComplete

NodeInv ==
  /\ NodeTypes /\ ClosedFirst /\ (closed = "no" => NodeCounts)
  /\ SlotsAreCounted /\ BudgetIsBalanced /\ SuccessesAreLast
  /\ HandedIsNext /\ LateIsTurnedAway

(* The Python bridge.                                                      *)
Holding == pump \in {"permit", "send"}
Leaving == pump \in {"drop", "senderless", "ended", "done"}

PyTypes ==
  /\ FrameTypes
  /\ start \in {"waiting", "open", "refused", "dropped"}
  /\ accepted \in {"none", "ok", "error"} /\ kill \in {"no", "yes"}
  /\ pump \in {"dispatch", "next", "permit", "send", "publish", "drop", "senderless",
               "ended", "done"}
  /\ outcome \in {"None", "Ok", "Error", "Aborted"}
  /\ pyTerminal \in {"None", "Ok", "Error", "Aborted"}
  /\ pyHeld \in Pairs /\ pyGot \in Pairs /\ pyQueue \in Seq(Pairs) /\ pyFree \in Nat
  /\ pyReceiver \in {"open", "closed"} /\ pyCloser \in {"idle", "wait", "drain"}
  /\ pyReader \in {"idle", "check", "recv", "popped", "eof", "slept"}
  /\ pyYielded \in Seq(Nat) /\ discarded \in {"no", "yes"}
  /\ told \in {"None", "Stop", "Error", "Aborted"}

(* What the worker leaves behind when it stops before its terminal.        *)
WorkerInv ==
  /\ pump = "dispatch" => accepted = "none"
  /\ start \in {"open", "dropped"} => accepted = "ok"
  /\ pyReader # "idle" => start = "open"
  /\ kill = "yes" => signal = "aborted"
  /\ accepted = "ok" /\ Leaving /\ pyTerminal = "None" => signal = "aborted"
  /\ pump = "publish" => outcome # "None"
  /\ pyTerminal # "None" => Leaving /\ pyTerminal = outcome
  /\ outcome = "Ok" => events = "gone" /\ (pump = "publish" \/ Leaving)
  /\ pyReceiver = "closed" \/ pyCloser = "drain" => pump = "done"

(* The numbers Python was given, next holds, the channel and the worker    *)
(* hold increase.                                                          *)
Lead == IF Holding THEN seq - 1 ELSE seq
OrderInv ==
  /\ Holding => pyHeld[1] = seq - 1
  /\ \A i, j \in 1 .. Len(pyYielded) : i < j => pyYielded[i] < pyYielded[j]
  /\ \A i, j \in 1 .. Len(pyQueue) : i < j => pyQueue[i][1] < pyQueue[j][1]
  /\ \A i \in 1 .. Len(pyYielded), j \in 1 .. Len(pyQueue) :
        pyYielded[i] < pyQueue[j][1]
  /\ \A i \in 1 .. Len(pyYielded) : pyYielded[i] < Lead
  /\ \A i \in 1 .. Len(pyQueue) : pyQueue[i][1] < Lead
  /\ pyReader = "popped" =>
        /\ pyGot[1] < Lead
        /\ \A i \in 1 .. Len(pyYielded) : pyYielded[i] < pyGot[1]
        /\ \A i \in 1 .. Len(pyQueue) : pyGot[1] < pyQueue[i][1]

(* Unless one was thrown away they are consecutive.                        *)
Taken == Len(pyYielded) + Count(pyReader = "popped")
GaplessInv ==
  /\ \A i \in 1 .. Len(pyYielded) : pyYielded[i] = i - 1
  /\ pyReader = "popped" => pyGot[1] = Len(pyYielded)
  /\ \A i \in 1 .. Len(pyQueue) : pyQueue[i][1] = Taken + i - 1
  /\ Holding => pyHeld[1] = Taken + Len(pyQueue)
  /\ pump \in {"dispatch", "next"} \/ outcome = "Ok" => seq = Taken + Len(pyQueue)

(* A drained channel stays drained, so a stop is the last thing told.      *)
StopInv ==
  /\ pyReader = "eof" => pyQueue = <<>> /\ Py!SenderGone
  /\ told = "Stop" => /\ pyTerminal = "Ok" /\ pyQueue = <<>> /\ Py!SenderGone
                      /\ pyReader # "popped"

PyInv ==
  /\ PyTypes /\ WorkerInv /\ OrderInv /\ (discarded = "no" => GaplessInv) /\ StopInv
  /\ Py!PermitsAreBalanced

ConsumersInv ==
  \/ adapter = "c" /\ CInv /\ NoNode /\ NoPython
  \/ adapter = "node" /\ NodeInv /\ NoC /\ NoPython
  \/ adapter = "python" /\ PyInv /\ NoC /\ NoNode

-----------------------------------------------------------------------------
(* What a poll gives: the next event, or the End with its number.          *)
LEMMA PolledIs ==
  ASSUME FrameTypes, NEW up \in Answers, FramePoll(up)
  PROVE  \/ /\ PolledFrame(up) = EventFrame(seq, up.size)
            /\ signal = "quiet" /\ Passes(up.size) /\ up.size \in Nat
            /\ events = "live" /\ events' = "live" /\ seq' = seq + 1 /\ seq' \in 0 .. SeqMax
         \/ /\ \E o \in Outcomes, z \in Nat : PolledFrame(up) = EndFrame(seq, o, z)
            /\ events = "live" /\ events' = "gone" /\ seq' = seq
  <1>1. up.kind \in {"event", "success", "error", "aborted"} /\ up.size \in Nat
    BY FrameAssumption DEF Answers
  <1>2. \/ PolledFrame(up) = EventFrame(seq, up.size) /\ signal = "quiet" /\ seq < SeqMax
           /\ Passes(up.size)
        \/ \E o \in Outcomes, z \in Nat : PolledFrame(up) = EndFrame(seq, o, z)
    <2>1. CASE signal = "aborted"
      BY <2>1 DEF PolledFrame, Outcomes, Small
    <2>2. CASE signal = "quiet" /\ up.kind # "event"
      <3>1. OutcomeOf(up.kind) \in Outcomes
        BY <1>1, <2>2 DEF OutcomeOf, Outcomes
      <3> QED BY <1>1, <2>2, <3>1 DEF PolledFrame
    <2>3. CASE signal = "quiet" /\ up.kind = "event" /\ seq < SeqMax /\ Passes(up.size)
      BY <2>3 DEF PolledFrame
    <2>4. CASE signal = "quiet" /\ up.kind = "event" /\ ~(seq < SeqMax /\ Passes(up.size))
      BY <2>4 DEF PolledFrame, Outcomes, Small
    <2> QED BY <2>1, <2>2, <2>3, <2>4 DEF FrameTypes
  <1>3. CASE PolledFrame(up) = EventFrame(seq, up.size) /\ signal = "quiet" /\ seq < SeqMax
             /\ Passes(up.size)
    <2>1. PolledFrame(up).type = "Event"
      BY <1>3 DEF EventFrame
    <2>2. seq + 1 \in 0 .. SeqMax /\ (seq + 1) % (SeqMax + 1) = seq + 1
      BY <1>3, FrameAssumption DEF FrameTypes
    <2> QED BY <1>1, <1>3, <2>1, <2>2 DEF FramePoll
  <1>4. ASSUME NEW o \in Outcomes, NEW z \in Nat, PolledFrame(up) = EndFrame(seq, o, z)
        PROVE  events = "live" /\ events' = "gone" /\ seq' = seq
    <2>1. PolledFrame(up).type = "End"
      BY <1>4 DEF EndFrame
    <2> QED BY <2>1 DEF FramePoll
  <1> QED BY <1>2, <1>3, <1>4

LEMMA SeenIs ==
  ASSUME NEW n \in Nat, NEW o \in Outcomes, NEW z
  PROVE  /\ Seen(EventFrame(n, z)) = [type |-> "Event", seq |-> n, outcome |-> "None"]
         /\ Seen(EndFrame(n, o, z)) = [type |-> "End", seq |-> n, outcome |-> o]
         /\ Seen(EventFrame(n, z)) \in SeenFrames /\ Seen(EndFrame(n, o, z)) \in SeenFrames
  BY DEF Seen, EventFrame, EndFrame, SeenFrames, Outcomes

LEMMA MoreEvents ==
  ASSUME NEW out \in Seq(SeenFrames), AllEvents(out), NEW frame \in SeenFrames,
         frame.type = "Event"
  PROVE  AllEvents(Append(out, frame))
  BY DEF AllEvents

-----------------------------------------------------------------------------
(* The C adapter.                                                          *)
LEMMA CKeeps ==
  ASSUME CInv, CNext
  PROVE  CInv' /\ [Callback!ProtocolNext]_delivered
  <1>1. ASSUME NEW up \in Answers, DeliverFrame(up)
        PROVE  CInv' /\ Callback!ProtocolNext
    <2> DEFINE frame == PolledFrame(up)
    <2>1. /\ FrameTypes /\ FramePoll(up) /\ seq \in Nat /\ delivered \in Seq(SeenFrames)
          /\ Len(delivered) = seq /\ AllEvents(delivered)
          /\ delivered' = Append(delivered, Seen(frame)) /\ call' = CallAfter(frame)
          /\ signal' = signal
      BY <1>1 DEF CInv, DeliverFrame, FrameTypes
    <2>2. ~Callback!Over
      BY <2>1 DEF Callback!Over, AllEvents
    <2> HIDE DEF frame
    <2>3. CASE frame = EventFrame(seq, up.size) /\ events' = "live"
               /\ seq' = seq + 1 /\ seq' \in 0 .. SeqMax
      <3>1. Seen(frame) = [type |-> "Event", seq |-> seq, outcome |-> "None"]
            /\ Seen(frame) \in SeenFrames
        BY <2>1, <2>3, SeenIs DEF Outcomes
      <3>2. Callback!Give("Event", "None")
        BY <2>1, <2>2, <3>1 DEF Callback!Give
      <3>3. Len(delivered') = seq' /\ delivered' \in Seq(SeenFrames) /\ AllEvents(delivered')
        BY <2>1, <2>3, <3>1, MoreEvents
      <3>4. CallAfter(frame) = "polling"
        BY <2>3 DEF CallAfter, EventFrame
      <3>5. CInv'
        BY <2>1, <2>3, <3>3, <3>4 DEF CInv, FrameTypes, AllEvents
      <3> QED BY <3>2, <3>5 DEF Callback!ProtocolNext
    <2>4. ASSUME NEW o \in Outcomes, NEW z \in Nat, frame = EndFrame(seq, o, z),
                 events' = "gone", seq' = seq
          PROVE  CInv' /\ Callback!ProtocolNext
      <3>1. Seen(frame) = [type |-> "End", seq |-> seq, outcome |-> o]
            /\ Seen(frame) \in SeenFrames
        BY <2>1, <2>4, SeenIs
      <3>2. Callback!Give("End", o)
        BY <2>1, <2>2, <3>1 DEF Callback!Give
      <3>3. delivered' \in Seq(SeenFrames)
        BY <2>1, <3>1
      <3>4. CallAfter(frame) = "returned"
        BY <2>4 DEF CallAfter, EndFrame
      <3>5. CInv'
        BY <2>1, <2>4, <3>3, <3>4 DEF CInv, FrameTypes
      <3> QED BY <3>2, <3>5 DEF Callback!ProtocolNext, Outcomes
    <2> QED BY <2>1, <2>3, <2>4, PolledIs DEF frame
  <1>2. CASE Abort
    BY <1>2 DEF Abort, CInv, FrameTypes, AllEvents
  <1> QED BY <1>1, <1>2 DEF CNext

-----------------------------------------------------------------------------
(* The Node bridge: produce.                                               *)

USE DEF HoldsEntry, HoldsEvent, HoldsPermit

LEMMA NodeUnpacked ==
  ASSUME NodeInv
  PROVE  /\ NodeTypes /\ ClosedFirst /\ (closed = "no" => NodeCounts)
         /\ SlotsAreCounted /\ BudgetIsBalanced /\ SuccessesAreLast
         /\ HandedIsNext /\ LateIsTurnedAway
         /\ FrameTypes /\ seq \in Nat /\ next_seq \in Nat /\ free \in Nat
         /\ held \in Pairs /\ held[1] \in Nat /\ held[2] \in Nat
         /\ got \in Pairs /\ got[1] \in Nat /\ got[2] \in Nat
         /\ queue \in Seq(Pairs) /\ yielded \in Seq(SeenFrames)
         /\ TotalBytes(queue) \in Nat /\ Len(queue) \in Nat /\ Len(yielded) \in Nat
  <1>1. NodeTypes
    BY DEF NodeInv
  <1>2. queue \in Seq(Pairs) /\ yielded \in Seq(SeenFrames) /\ held \in Pairs /\ got \in Pairs
    BY <1>1 DEF NodeTypes
  <1>3. TotalBytes(queue) \in Nat
    BY <1>2, TotalIsNat
  <1>4. held[1] \in Nat /\ held[2] \in Nat /\ got[1] \in Nat /\ got[2] \in Nat
    BY <1>2 DEF Pairs
  <1>5. seq \in Nat /\ FrameTypes
    BY <1>1 DEF NodeTypes, FrameTypes
  <1>6. Len(queue) \in Nat /\ Len(yielded) \in Nat
    BY <1>2
  <1> QED BY <1>1, <1>2, <1>3, <1>4, <1>5, <1>6 DEF NodeInv, NodeTypes

(* A step that leaves alone what next works with.                          *)
LEMMA ReaderStays ==
  ASSUME NodeInv, UNCHANGED <<readerVars, terminal, closed>>,
         producer = "gone" => producer' = "gone"
  PROVE  HandedIsNext' /\ LateIsTurnedAway'
  BY NodeUnpacked DEF HandedIsNext, LateIsTurnedAway, readerVars, AllEvents

(* Leaving the loop with the next number, when the upstream did not end by *)
(* itself or told its own end.                                             *)
LEMMA BreakKeeps ==
  ASSUME NodeInv, HoldsSlot \/ producer = "reserve",
         NEW n \in Nat, NEW o \in Outcomes, NEW z \in Nat,
         Break(EndFrame(n, o, z)), FrameTypes',
         closed = "no" => n = next_seq,
         closed = "no" /\ signal' = "quiet" => seq' = next_seq,
         o = "Success" => events' = "gone" /\ n = seq',
         events = "gone" => events' = "gone" /\ seq' = seq,
         free' = free + (IF HoldsPermit THEN held[2] ELSE 0),
         UNCHANGED <<held, next_seq, queue, receiver, readerVars, closed, closer>>
  PROVE  NodeInv'
  <1> DEFINE end == Seen(EndFrame(n, o, z))
  <1>1. end = [type |-> "End", seq |-> n, outcome |-> o] /\ end \in SeenFrames
    BY SeenIs
  <1> HIDE DEF end
  <1>2. end.type = "End" /\ end.seq = n /\ end.outcome = o
    BY <1>1
  <1>3. terminal' = end /\ producer' = "drop"
    BY DEF Break, end
  <1>4. /\ held' = held /\ next_seq' = next_seq /\ queue' = queue /\ receiver' = receiver
        /\ reader' = reader /\ got' = got /\ asked' = asked /\ yielded' = yielded
        /\ closed' = closed /\ closer' = closer
    BY DEF readerVars
  <1>5. free' \in Nat
    BY NodeUnpacked
  <1>6. NodeTypes'
    BY <1>1, <1>3, <1>4, <1>5, NodeUnpacked DEF NodeTypes
  <1>7. ClosedFirst' /\ SlotsAreCounted'
    BY <1>3, <1>4, NodeUnpacked, BridgeAssumption
    DEF ClosedFirst, SlotsAreCounted, HoldsSlot, Count
  <1>8. ASSUME closed = "no"
        PROVE  NodeCounts'
    <2>1. NodeCounts
      BY <1>8, NodeUnpacked
    <2>2. reader # "eof"
      BY <2>1 DEF NodeCounts, HoldsSlot
    <2> QED BY <1>2, <1>3, <1>4, <1>8, <2>1, <2>2 DEF NodeCounts, AllEvents
  <1>9. BudgetIsBalanced'
    <2>1. \/ HoldsPermit /\ free' = free + held[2]
          \/ ~HoldsPermit /\ free' = free
      BY NodeUnpacked
    <2> DEFINE reading == IF HoldsEntry THEN got[2] ELSE 0
    <2>2. /\ reading \in Nat /\ free \in Nat /\ held[2] \in Nat /\ TotalBytes(queue) \in Nat
          /\ Bytes = free + TotalBytes(queue) + (IF HoldsPermit THEN held[2] ELSE 0) + reading
      BY NodeUnpacked DEF BudgetIsBalanced, QueuedBytes
    <2>3. ~HoldsPermit' /\ reading = IF HoldsEntry' THEN got'[2] ELSE 0
      BY <1>3, <1>4
    <2> HIDE DEF reading
    <2>4. Bytes = free' + TotalBytes(queue) + 0 + reading
      BY <2>1, <2>2
    <2> QED BY <1>4, <1>5, <2>3, <2>4 DEF BudgetIsBalanced, QueuedBytes
  <1>10. SuccessesAreLast'
    <2>1. SuccessIsComplete'
      BY <1>4, NodeUnpacked DEF SuccessesAreLast, SuccessIsComplete
    <2> QED BY <1>2, <1>3, <2>1 DEF SuccessesAreLast
  <1>11. HandedIsNext' /\ LateIsTurnedAway'
    BY <1>3, <1>4, NodeUnpacked DEF HandedIsNext, LateIsTurnedAway, HoldsSlot, AllEvents
  <1> QED BY <1>4, <1>6, <1>7, <1>8, <1>9, <1>10, <1>11 DEF NodeInv

LEMMA ReserveKeeps ==
  ASSUME NodeInv, ProduceReserve
  PROVE  NodeInv'
  <1>1. CASE receiver = "open" /\ HasSlot /\ producer' = "poll"
             /\ UNCHANGED <<signal, terminal>>
    <2>1. /\ producer = "reserve" /\ events' = events /\ seq' = seq /\ signal' = signal
          /\ terminal' = terminal /\ held' = held /\ next_seq' = next_seq
          /\ queue' = queue /\ free' = free /\ receiver' = receiver /\ reader' = reader
          /\ got' = got /\ asked' = asked /\ yielded' = yielded /\ closed' = closed
          /\ closer' = closer
      BY <1>1 DEF ProduceReserve, channelVars, readerVars
    <2>2. NodeTypes' /\ ClosedFirst' /\ SuccessesAreLast'
      BY <1>1, <2>1, NodeUnpacked DEF NodeTypes, FrameTypes, ClosedFirst,
         SuccessesAreLast, SuccessIsComplete
    <2>3. SlotsAreCounted'
      BY <1>1, <2>1, NodeUnpacked, BridgeAssumption
      DEF SlotsAreCounted, HoldsSlot, Count, HasSlot
    <2>4. BudgetIsBalanced'
      BY <1>1, <2>1, NodeUnpacked DEF BudgetIsBalanced, QueuedBytes
    <2>5. closed' = "no" => NodeCounts'
      BY <1>1, <2>1, NodeUnpacked DEF NodeCounts, AllEvents
    <2>6. HandedIsNext' /\ LateIsTurnedAway'
      BY <2>1, ReaderStays DEF readerVars
    <2> QED BY <2>2, <2>3, <2>4, <2>5, <2>6 DEF NodeInv
  <1>2. CASE Cancelled(next_seq) /\ signal' = "aborted"
    <2>1. /\ producer = "reserve" /\ events' = events /\ seq' = seq
          /\ UNCHANGED <<held, next_seq, queue, free, receiver, readerVars, closed, closer>>
      BY DEF ProduceReserve, channelVars
    <2>2. FrameTypes'
      BY <1>2, <2>1, NodeUnpacked DEF FrameTypes
    <2>3. Break(EndFrame(next_seq, "Cancelled", Small)) /\ next_seq \in Nat /\ Small \in Nat
          /\ "Cancelled" \in Outcomes
      BY <1>2, NodeUnpacked DEF Cancelled, Small, Outcomes
    <2>4. free' = free + (IF HoldsPermit THEN held[2] ELSE 0)
      BY <2>1, NodeUnpacked
    <2> QED BY <1>2, <2>1, <2>2, <2>3, <2>4, BreakKeeps
  <1> QED BY <1>1, <1>2 DEF ProduceReserve

LEMMA PollKeeps ==
  ASSUME NodeInv, NEW up \in Answers, ProducePoll(up)
  PROVE  NodeInv'
  <1> DEFINE frame == PolledFrame(up)
  <1>1. /\ producer = "poll" /\ FramePoll(up) /\ next_seq' = next_seq
        /\ queue' = queue /\ free' = free /\ receiver' = receiver /\ reader' = reader
        /\ got' = got /\ asked' = asked /\ yielded' = yielded /\ closed' = closed
        /\ closer' = closer
    BY DEF ProducePoll, channelVars, readerVars
  <1>2. \/ /\ ~Passes(frame.size) /\ signal' = "aborted"
           /\ Break(EndFrame(frame.seq, "Error", Small)) /\ held' = held
        \/ /\ Passes(frame.size) /\ frame.type = "End"
           /\ Break(frame) /\ signal' = signal /\ held' = held
        \/ /\ Passes(frame.size) /\ frame.type = "Event"
           /\ held' = <<frame.seq, frame.size>> /\ producer' = "permit"
           /\ signal' = signal /\ terminal' = terminal
    BY DEF ProducePoll
  <1>3. /\ UNCHANGED <<next_seq, queue, receiver, readerVars, closed, closer>>
        /\ free' = free + (IF HoldsPermit THEN held[2] ELSE 0)
    BY <1>1, NodeUnpacked DEF readerVars
  <1>7. terminal' = terminal => HandedIsNext' /\ LateIsTurnedAway'
    BY <1>1, ReaderStays DEF readerVars
  <1>4. closed = "no" => seq = next_seq
    BY <1>1, NodeUnpacked DEF NodeCounts
  <1> HIDE DEF frame
  <1>5. CASE frame = EventFrame(seq, up.size) /\ signal = "quiet" /\ Passes(up.size)
             /\ up.size \in Nat /\ events = "live" /\ events' = "live" /\ seq' = seq + 1
             /\ seq' \in 0 .. SeqMax
    <2>1. frame.seq = seq /\ frame.size = up.size /\ frame.type = "Event"
      BY <1>5 DEF EventFrame
    <2>2. /\ held' = <<seq, up.size>> /\ producer' = "permit"
          /\ signal' = signal /\ terminal' = terminal
      BY <1>2, <1>5, <2>1
    <2>3. held' \in Pairs /\ held'[1] = seq
      BY <1>5, <2>2, NodeUnpacked DEF Pairs
    <2>4. NodeTypes' /\ ClosedFirst'
      BY <1>1, <1>5, <2>2, <2>3, NodeUnpacked DEF NodeTypes, FrameTypes, ClosedFirst
    <2>5. SlotsAreCounted' /\ BudgetIsBalanced'
      BY <1>1, <2>2, NodeUnpacked
      DEF SlotsAreCounted, HoldsSlot, Count, BudgetIsBalanced, QueuedBytes
    <2>6. SuccessesAreLast'
      BY <1>1, <1>5, <2>2, NodeUnpacked DEF SuccessesAreLast, SuccessIsComplete
    <2>7. ASSUME closed = "no"
          PROVE  NodeCounts'
      <3>1. NodeCounts
        BY <2>7, NodeUnpacked
      <3> QED BY <1>1, <1>4, <1>5, <2>2, <2>3, <2>7, <3>1, NodeUnpacked
          DEF NodeCounts, AllEvents
    <2> QED BY <1>1, <1>7, <2>2, <2>4, <2>5, <2>6, <2>7 DEF NodeInv
  <1>6. ASSUME NEW o \in Outcomes, NEW z \in Nat, frame = EndFrame(seq, o, z),
               events = "live", events' = "gone", seq' = seq
        PROVE  NodeInv'
    <2>1. frame.seq = seq /\ frame.size = z /\ frame.type = "End"
      BY <1>6 DEF EndFrame
    <2>2. HoldsSlot /\ seq \in Nat /\ "Error" \in Outcomes /\ Small \in Nat
      BY <1>1, NodeUnpacked DEF HoldsSlot, Outcomes, Small
    <2>3. CASE signal' = "aborted" /\ Break(EndFrame(seq, "Error", Small)) /\ held' = held
      <3>1. FrameTypes'
        BY <1>6, <2>3, NodeUnpacked DEF FrameTypes
      <3>2. UNCHANGED <<held, next_seq, queue, receiver, readerVars, closed, closer>>
        BY <1>3, <2>3
      <3> QED BY <1>3, <1>4, <1>6, <2>2, <2>3, <3>1, <3>2, BreakKeeps
    <2>4. CASE signal' = signal /\ Break(EndFrame(seq, o, z)) /\ held' = held
      <3>1. FrameTypes'
        BY <1>6, <2>4, NodeUnpacked DEF FrameTypes
      <3>2. UNCHANGED <<held, next_seq, queue, receiver, readerVars, closed, closer>>
        BY <1>3, <2>4
      <3> QED BY <1>3, <1>4, <1>6, <2>2, <2>4, <3>1, <3>2, BreakKeeps
    <2> QED BY <1>2, <1>6, <2>1, <2>3, <2>4
  <1> QED BY <1>1, <1>5, <1>6, PolledIs, NodeUnpacked DEF frame

LEMMA PollCancelledKeeps ==
  ASSUME NodeInv, ProducePollCancelled
  PROVE  NodeInv'
  <1>1. /\ producer = "poll" /\ events' = events /\ seq' = seq /\ signal' = "aborted"
        /\ Break(EndFrame(next_seq, "Cancelled", Small)) /\ free' = free
        /\ UNCHANGED <<held, next_seq, queue, receiver, readerVars, closed, closer>>
    BY DEF ProducePollCancelled, channelVars, Cancelled
  <1>2. FrameTypes' /\ HoldsSlot
    BY <1>1, NodeUnpacked DEF FrameTypes, HoldsSlot
  <1>3. next_seq \in Nat /\ Small \in Nat /\ "Cancelled" \in Outcomes
    BY NodeUnpacked DEF Small, Outcomes
  <1>4. free' = free + (IF HoldsPermit THEN held[2] ELSE 0)
    BY <1>1, NodeUnpacked
  <1> QED BY <1>1, <1>2, <1>3, <1>4, BreakKeeps

LEMMA PermitKeeps ==
  ASSUME NodeInv, ProducePermit
  PROVE  NodeInv'
  <1>1. /\ producer = "permit" /\ events' = events /\ seq' = seq /\ signal' = signal
        /\ held' = held /\ next_seq' = next_seq /\ queue' = queue /\ receiver' = receiver
        /\ reader' = reader /\ got' = got /\ asked' = asked /\ yielded' = yielded
        /\ closed' = closed /\ closer' = closer
    BY DEF ProducePermit, frameVars, readerVars
  <1>2. CASE signal = "aborted" /\ Cancelled(held[1]) /\ UNCHANGED free
    <2>1. /\ Break(EndFrame(held[1], "Cancelled", Small)) /\ signal' = "aborted"
          /\ UNCHANGED <<held, next_seq, queue, receiver, readerVars, closed, closer>>
      BY <1>1, <1>2 DEF Cancelled, readerVars
    <2>2. FrameTypes' /\ HoldsSlot
      BY <1>1, NodeUnpacked DEF FrameTypes, HoldsSlot
    <2>3. held[1] \in Nat /\ Small \in Nat /\ "Cancelled" \in Outcomes
      BY NodeUnpacked DEF Small, Outcomes
    <2>4. free' = free + (IF HoldsPermit THEN held[2] ELSE 0)
      BY <1>1, <1>2, NodeUnpacked
    <2>5. closed = "no" => held[1] = next_seq
      BY <1>1, NodeUnpacked DEF NodeCounts
    <2> QED BY <1>1, <2>1, <2>2, <2>3, <2>4, <2>5, BreakKeeps
  <1>3. CASE held[2] <= free /\ free' = free - held[2] /\ producer' = "send"
             /\ terminal' = terminal
    <2>1. free' \in Nat
      BY <1>3, NodeUnpacked
    <2>2. NodeTypes' /\ ClosedFirst'
      BY <1>1, <1>3, <2>1, NodeUnpacked DEF NodeTypes, FrameTypes, ClosedFirst
    <2>3. SlotsAreCounted'
      BY <1>1, <1>3, NodeUnpacked DEF SlotsAreCounted, HoldsSlot, Count
    <2>4. BudgetIsBalanced'
      <3> DEFINE reading == IF HoldsEntry THEN got[2] ELSE 0
      <3>1. reading \in Nat /\ Bytes = free + TotalBytes(queue) + 0 + reading
        BY <1>1, NodeUnpacked DEF BudgetIsBalanced, QueuedBytes
      <3>2. reading = IF HoldsEntry' THEN got'[2] ELSE 0
        BY <1>1
      <3> HIDE DEF reading
      <3>3. Bytes = free' + TotalBytes(queue) + held[2] + reading
        <4>1. free' = free - held[2]
          BY <1>3
        <4>2. free \in Nat /\ held[2] \in Nat /\ TotalBytes(queue) \in Nat
          BY NodeUnpacked
        <4> QED BY <3>1, <4>1, <4>2
      <3> QED BY <1>1, <1>3, <2>1, <3>2, <3>3 DEF BudgetIsBalanced, QueuedBytes
    <2>5. SuccessesAreLast'
      BY <1>1, <1>3, NodeUnpacked DEF SuccessesAreLast, SuccessIsComplete
    <2>6. closed' = "no" => NodeCounts'
      BY <1>1, <1>3, NodeUnpacked DEF NodeCounts, AllEvents
    <2>7. HandedIsNext' /\ LateIsTurnedAway'
      BY <1>1, <1>3, ReaderStays DEF readerVars
    <2> QED BY <2>2, <2>3, <2>4, <2>5, <2>6, <2>7 DEF NodeInv
  <1> QED BY <1>2, <1>3 DEF ProducePermit

LEMMA LookKeeps ==
  ASSUME NodeInv, ProduceLook
  PROVE  NodeInv'
  <1>1. /\ producer = "send" /\ events' = events /\ seq' = seq /\ signal' = signal
        /\ held' = held /\ next_seq' = next_seq /\ queue' = queue /\ receiver' = receiver
        /\ reader' = reader /\ got' = got /\ asked' = asked /\ yielded' = yielded
        /\ closed' = closed /\ closer' = closer
    BY DEF ProduceLook, frameVars, readerVars
  <1>2. CASE signal = "aborted" /\ Cancelled(held[1]) /\ free' = FreeAfterLateAbort
    <2>1. /\ Break(EndFrame(held[1], "Cancelled", Small)) /\ signal' = "aborted"
          /\ UNCHANGED <<held, next_seq, queue, receiver, readerVars, closed, closer>>
      BY <1>1, <1>2 DEF Cancelled, readerVars
    <2>2. FrameTypes' /\ HoldsSlot
      BY <1>1, NodeUnpacked DEF FrameTypes, HoldsSlot
    <2>3. held[1] \in Nat /\ Small \in Nat /\ "Cancelled" \in Outcomes
      BY NodeUnpacked DEF Small, Outcomes
    <2>4. free' = free + (IF HoldsPermit THEN held[2] ELSE 0)
      BY <1>1, <1>2, NodeUnpacked DEF FreeAfterLateAbort
    <2>5. closed = "no" => held[1] = next_seq
      BY <1>1, NodeUnpacked DEF NodeCounts
    <2> QED BY <1>1, <2>1, <2>2, <2>3, <2>4, <2>5, BreakKeeps
  <1>3. CASE producer' = "sending" /\ UNCHANGED <<free, terminal>>
    <2>1. NodeTypes' /\ ClosedFirst' /\ SuccessesAreLast'
      BY <1>1, <1>3, NodeUnpacked DEF NodeTypes, FrameTypes, ClosedFirst,
         SuccessesAreLast, SuccessIsComplete
    <2>2. SlotsAreCounted' /\ BudgetIsBalanced'
      BY <1>1, <1>3, NodeUnpacked
      DEF SlotsAreCounted, HoldsSlot, Count, BudgetIsBalanced, QueuedBytes
    <2>3. closed' = "no" => NodeCounts'
      BY <1>1, <1>3, NodeUnpacked DEF NodeCounts, AllEvents
    <2>4. HandedIsNext' /\ LateIsTurnedAway'
      BY <1>1, <1>3, ReaderStays DEF readerVars
    <2> QED BY <2>1, <2>2, <2>3, <2>4 DEF NodeInv
  <1> QED BY <1>2, <1>3 DEF ProduceLook

LEMMA SendKeeps ==
  ASSUME NodeInv, ProduceSend
  PROVE  NodeInv'
  <1>1. /\ producer = "sending" /\ producer' = "reserve" /\ events' = events /\ seq' = seq
        /\ signal' = signal /\ terminal' = terminal /\ held' = held /\ free' = free
        /\ queue' = Append(queue, held) /\ next_seq' = SeqAfterSend /\ receiver' = receiver
        /\ reader' = reader /\ got' = got /\ asked' = asked /\ yielded' = yielded
        /\ closed' = closed /\ closer' = closer
    BY DEF ProduceSend, frameVars, readerVars
  <1>2. /\ queue' \in Seq(Pairs) /\ Len(queue') = Len(queue) + 1
        /\ queue'[Len(queue) + 1] = held
        /\ \A i \in 1 .. Len(queue) : queue'[i] = queue[i]
    BY <1>1, NodeUnpacked
  <1>3. TotalBytes(queue') = TotalBytes(queue) + held[2]
    BY <1>1, TotalOfAppend, NodeUnpacked
  <1>4. next_seq' = held[1] + 1 /\ next_seq' \in Nat
    BY <1>1, NodeUnpacked DEF SeqAfterSend
  <1>5. NodeTypes' /\ ClosedFirst'
    BY <1>1, <1>2, <1>4, NodeUnpacked DEF NodeTypes, FrameTypes, ClosedFirst
  <1>6. SlotsAreCounted'
    BY <1>1, <1>2, <1>4, NodeUnpacked DEF SlotsAreCounted, HoldsSlot, Count
  <1>7. BudgetIsBalanced'
    BY <1>1, <1>2, <1>4, <1>3, NodeUnpacked, BridgeAssumption DEF BudgetIsBalanced, QueuedBytes
  <1>8. SuccessesAreLast'
    BY <1>1, <1>2, <1>4, NodeUnpacked DEF SuccessesAreLast, SuccessIsComplete
  <1>9. ASSUME closed = "no"
        PROVE  NodeCounts'
    <2>1. NodeCounts /\ held[1] = next_seq /\ seq = next_seq + 1 /\ reader # "eof"
      BY <1>1, <1>2, <1>9, NodeUnpacked DEF NodeCounts
    <2>2. next_seq' = Len(yielded) + Count(HoldsEntry) + Len(queue')
      <3>1. next_seq = Len(yielded) + Count(HoldsEntry) + Len(queue)
            /\ Count(HoldsEntry) \in Nat
        BY <1>1, <2>1 DEF NodeCounts, Count
      <3> QED BY <1>1, <1>2, <1>4, <2>1, <3>1, NodeUnpacked
    <2>3. \A i \in 1 .. Len(queue') :
             queue'[i][1] = Len(yielded) + Count(HoldsEntry) + i - 1
      <3> TAKE i \in 1 .. Len(queue')
      <3>1. CASE i \in 1 .. Len(queue)
        BY <1>1, <3>1, <1>2, <2>1 DEF NodeCounts
      <3>2. CASE i = Len(queue) + 1
        BY <1>1, <3>2, <1>2, <2>1, NodeUnpacked DEF NodeCounts, Count
      <3> QED BY <1>1, <3>1, <3>2, <1>2, NodeUnpacked
    <2>4. seq' = next_seq'
      BY <1>1, <1>2, <1>4, <2>1
    <2> QED BY <1>1, <1>2, <1>4, <2>1, <2>2, <2>3, <2>4 DEF NodeCounts, AllEvents
  <1>10. HandedIsNext' /\ LateIsTurnedAway'
    BY <1>1, ReaderStays DEF readerVars
  <1> QED BY <1>1, <1>2, <1>5, <1>6, <1>7, <1>8, <1>9, <1>10 DEF NodeInv

LEMMA DropKeeps ==
  ASSUME NodeInv, ProduceDrop
  PROVE  NodeInv'
  <1>1. /\ producer = "drop" /\ producer' = "gone" /\ seq' = seq /\ events' = "gone"
        /\ terminal' = terminal /\ held' = held /\ next_seq' = next_seq
        /\ queue' = queue /\ free' = free /\ receiver' = receiver /\ reader' = reader
        /\ got' = got /\ asked' = asked /\ yielded' = yielded /\ closed' = closed
        /\ closer' = closer /\ signal' = SignalAfterDrop
    BY DEF ProduceDrop, channelVars, readerVars
  <1>2. signal' \in {"quiet", "aborted"} /\ (signal' = "quiet" => signal = "quiet")
    BY <1>1, NodeUnpacked DEF SignalAfterDrop, FrameTypes
  <1>3. NodeTypes' /\ ClosedFirst' /\ SuccessesAreLast'
    BY <1>1, <1>2, NodeUnpacked DEF NodeTypes, FrameTypes, ClosedFirst,
       SuccessesAreLast, SuccessIsComplete
  <1>4. SlotsAreCounted' /\ BudgetIsBalanced'
    BY <1>1, NodeUnpacked
    DEF SlotsAreCounted, HoldsSlot, Count, BudgetIsBalanced, QueuedBytes
  <1>5. closed' = "no" => NodeCounts'
    BY <1>1, <1>2, NodeUnpacked DEF NodeCounts, AllEvents
  <1>6. HandedIsNext' /\ LateIsTurnedAway'
    BY <1>1, ReaderStays DEF readerVars
  <1> QED BY <1>3, <1>4, <1>5, <1>6 DEF NodeInv

-----------------------------------------------------------------------------
(* The Node bridge: next, close and the signal.                            *)

(* The steps that only move next or close on, or fire the signal.          *)
LEMMA QuietKeeps ==
  ASSUME NodeInv, NextCall \/ NextCheck \/ NextLock \/ Close \/ CloseAbort \/ ExternalAbort
  PROVE  NodeInv'
  <1>1. /\ producer' = producer /\ seq' = seq /\ events' = events
        /\ terminal' = terminal /\ held' = held /\ next_seq' = next_seq
        /\ queue' = queue /\ free' = free /\ receiver' = receiver
        /\ got' = got /\ yielded' = yielded
    BY DEF NextCall, NextCheck, NextLock, Close, CloseAbort, ExternalAbort, frameVars,
       producerVars, channelVars, readerVars
  <1>2. \/ reader' = reader /\ asked' = asked /\ closed' \in {closed, "yes"}
        \/ /\ reader \in {"idle", "check", "lock"} /\ closed' = closed
           /\ reader' \in {"idle", "check", "lock", "recv"}
    BY DEF NextCall, NextCheck, NextLock, Close, CloseFlags, CloseAbort, ExternalAbort,
       readerVars
  <1>3. signal' \in {signal, "aborted"}
    BY DEF NextCall, NextCheck, NextLock, Close, CloseAbort, CloseSignals, ExternalAbort,
       frameVars
  <1>4. \/ closer' = closer
        \/ closer' = "abort" /\ closed' = "yes"
        \/ closer = "abort" /\ closer' = "drain" /\ closed' = closed
    BY DEF NextCall, NextCheck, NextLock, Close, CloseFlags, CloseAbort, ExternalAbort
  <1>11. /\ asked' \in {"open", "late"}
         /\ reader' \notin {"idle", "check"} => asked' = asked
         /\ asked' = "late" => closed' = "yes"
    <2>1. CASE NextCall
      BY <2>1, NodeUnpacked DEF NextCall, ClosedFirst, NodeTypes
    <2>2. CASE NextCheck \/ NextLock
      BY <2>2, NodeUnpacked DEF NextCheck, NextLock, NodeTypes, LateIsTurnedAway
    <2>3. CASE Close \/ CloseAbort \/ ExternalAbort
      BY <2>3, NodeUnpacked DEF Close, CloseFlags, CloseAbort, ExternalAbort, readerVars,
         NodeTypes, LateIsTurnedAway
    <2> QED BY <2>1, <2>2, <2>3
  <1>12. reader' \notin {"idle", "check"} => asked' = "open"
    <2>1. CASE NextCall
      BY <2>1 DEF NextCall
    <2>2. CASE NextCheck
      BY <2>2, NodeUnpacked DEF NextCheck, NodeTypes, LateIsTurnedAway
    <2>3. CASE NextLock \/ Close \/ CloseAbort \/ ExternalAbort
      BY <2>3, NodeUnpacked DEF NextLock, Close, CloseAbort, ExternalAbort, readerVars,
         LateIsTurnedAway
    <2> QED BY <2>1, <2>2, <2>3
  <1>13. HandedIsNext' /\ LateIsTurnedAway'
    BY <1>1, <1>2, <1>11, <1>12, NodeUnpacked DEF HandedIsNext, LateIsTurnedAway, AllEvents
  <1>5. NodeTypes'
    BY <1>1, <1>2, <1>3, <1>4, <1>11, NodeUnpacked DEF NodeTypes, FrameTypes
  <1>6. ClosedFirst'
    BY <1>1, <1>2, <1>4, NodeUnpacked DEF ClosedFirst
  <1>7. SuccessesAreLast'
    BY <1>1, NodeUnpacked DEF SuccessesAreLast, SuccessIsComplete
  <1>8. SlotsAreCounted'
    BY <1>1, NodeUnpacked DEF SlotsAreCounted, HoldsSlot, Count
  <1>9. BudgetIsBalanced'
    BY <1>1, <1>2, NodeUnpacked DEF BudgetIsBalanced, QueuedBytes
  <1>10. ASSUME closed' = "no"
         PROVE  NodeCounts'
    <2>1. NodeCounts
      BY <1>2, <1>10, NodeUnpacked DEF NodeTypes
    <2>2. (HoldsEntry' <=> HoldsEntry) /\ (reader' = "eof" <=> reader = "eof")
      BY <1>2
    <2>3. signal' = "quiet" => signal = "quiet"
      BY <1>3
    <2>4. Count(HoldsEntry) = Count(HoldsEntry')
      BY <2>2 DEF Count
    <2> QED BY <1>1, <2>1, <2>2, <2>3, <2>4 DEF NodeCounts, AllEvents
  <1> QED BY <1>5, <1>6, <1>7, <1>8, <1>9, <1>10, <1>13 DEF NodeInv

LEMMA RecvKeeps ==
  ASSUME NodeInv, NextRecv
  PROVE  NodeInv'
  <1>1. /\ reader = "recv" /\ producer' = producer /\ seq' = seq /\ events' = events
        /\ signal' = signal /\ terminal' = terminal /\ held' = held
        /\ next_seq' = next_seq /\ free' = free /\ receiver' = receiver
        /\ asked' = asked /\ yielded' = yielded /\ closed' = closed /\ closer' = closer
    BY DEF NextRecv, frameVars, producerVars
  <1>4. ASSUME reader' \in {"got", "eof"}
        PROVE  HandedIsNext' /\ LateIsTurnedAway'
    BY <1>1, <1>4, NodeUnpacked DEF HandedIsNext, LateIsTurnedAway
  <1>2. CASE queue # <<>> /\ got' = Head(queue) /\ queue' = Tail(queue) /\ reader' = "got"
    <2>1. /\ queue' \in Seq(Pairs) /\ got' \in Pairs /\ got'[2] \in Nat
          /\ TotalBytes(queue') \in Nat /\ TotalBytes(queue) = got'[2] + TotalBytes(queue')
      BY <1>2, TotalOfTail, NodeUnpacked
    <2>2. /\ Len(queue') = Len(queue) - 1 /\ Len(queue) >= 1 /\ got' = queue[1]
          /\ \A i \in 1 .. Len(queue') : queue'[i] = queue[i + 1] /\ i + 1 \in 1 .. Len(queue)
      BY <1>2, NodeUnpacked
    <2>3. NodeTypes' /\ ClosedFirst' /\ SuccessesAreLast'
      BY <1>1, <1>2, <2>1, NodeUnpacked DEF NodeTypes, FrameTypes, ClosedFirst,
         SuccessesAreLast, SuccessIsComplete
    <2>4. SlotsAreCounted'
      BY <1>1, <2>2, NodeUnpacked, BridgeAssumption DEF SlotsAreCounted, HoldsSlot, Count
    <2>5. BudgetIsBalanced'
      <3> DEFINE inFlight == IF HoldsPermit THEN held[2] ELSE 0
      <3>1. inFlight \in Nat /\ free \in Nat /\ free >= 0
        BY NodeUnpacked
      <3>2. Bytes = free + TotalBytes(queue) + inFlight + 0
        BY <1>1, NodeUnpacked DEF BudgetIsBalanced, QueuedBytes
      <3> HIDE DEF inFlight
      <3>3. Bytes = free + TotalBytes(queue') + inFlight + got'[2]
        BY <2>1, <3>1, <3>2
      <3> USE DEF inFlight
      <3> QED BY <1>1, <1>2, <3>1, <3>3 DEF BudgetIsBalanced, QueuedBytes
    <2>6. ASSUME closed = "no"
          PROVE  NodeCounts'
      <3>1. NodeCounts
        BY <2>6, NodeUnpacked
      <3>2. /\ next_seq = Len(yielded) + Len(queue)
            /\ \A i \in 1 .. Len(queue) : queue[i][1] = Len(yielded) + i - 1
        BY <1>1, <3>1, NodeUnpacked DEF NodeCounts, Count
      <3>3. got'[1] = Len(yielded)
        BY <2>2, <3>2, NodeUnpacked
      <3>4. \A i \in 1 .. Len(queue') : queue'[i][1] = Len(yielded) + 1 + i - 1
        <4> TAKE i \in 1 .. Len(queue')
        <4>1. queue'[i][1] = Len(yielded) + (i + 1) - 1
          BY <2>2, <3>2
        <4> QED BY <4>1, <2>2, NodeUnpacked
      <3>5. next_seq = Len(yielded) + 1 + Len(queue')
        BY <2>2, <3>2, NodeUnpacked
      <3>6. Count(HoldsEntry') = 1
        BY <1>2 DEF Count
      <3> QED BY <1>1, <1>2, <3>1, <3>3, <3>4, <3>5, <3>6 DEF NodeCounts, AllEvents
    <2> QED BY <1>1, <1>2, <1>4, <2>3, <2>4, <2>5, <2>6 DEF NodeInv
  <1>3. CASE /\ queue = <<>>
             /\ producer = "gone" \/ (receiver = "closed" /\ ~HoldsSlot)
             /\ reader' = "eof" /\ UNCHANGED <<got, queue>>
    <2>1. NodeTypes' /\ ClosedFirst' /\ SuccessesAreLast'
      BY <1>1, <1>3, NodeUnpacked DEF NodeTypes, FrameTypes, ClosedFirst,
         SuccessesAreLast, SuccessIsComplete
    <2>2. SlotsAreCounted'
      BY <1>1, <1>3, NodeUnpacked DEF SlotsAreCounted, HoldsSlot, Count
    <2>3. BudgetIsBalanced'
      BY <1>1, <1>3, NodeUnpacked DEF BudgetIsBalanced, QueuedBytes
    <2>4. ASSUME closed = "no"
          PROVE  NodeCounts'
      <3>1. NodeCounts /\ producer = "gone"
        BY <1>3, <2>4, NodeUnpacked DEF ClosedFirst
      <3>2. Count(HoldsEntry) = 0 /\ Count(HoldsEntry') = 0
        BY <1>1, <1>3 DEF Count
      <3>3. Len(queue) = 0 /\ ~HoldsEntry
        BY <1>1, <1>3
      <3> QED BY <1>1, <1>3, <3>1, <3>2, <3>3 DEF NodeCounts, AllEvents
    <2> QED BY <1>1, <1>3, <1>4, <2>1, <2>2, <2>3, <2>4 DEF NodeInv
  <1> QED BY <1>2, <1>3 DEF NextRecv

LEMMA GotKeeps ==
  ASSUME NodeInv, NextGot
  PROVE  NodeInv'
  <1>1. /\ reader = "got" /\ producer' = producer /\ seq' = seq /\ events' = events
        /\ signal' = signal /\ terminal' = terminal /\ held' = held
        /\ next_seq' = next_seq /\ receiver' = receiver /\ queue' = queue
        /\ got' = got /\ asked' = asked /\ yielded' = yielded
        /\ closed' = closed /\ closer' = closer
    BY DEF NextGot, frameVars, producerVars
  <1>2. \/ closed = "yes" /\ reader' = "idle" /\ free' = free + got[2]
        \/ closed = "no" /\ reader' = "hand" /\ free' = free
    BY DEF NextGot
  <1>3. free' \in Nat
    BY <1>2, NodeUnpacked
  <1>4. NodeTypes' /\ ClosedFirst' /\ SuccessesAreLast'
    BY <1>1, <1>2, <1>3, NodeUnpacked DEF NodeTypes, FrameTypes, ClosedFirst,
       SuccessesAreLast, SuccessIsComplete
  <1>5. SlotsAreCounted'
    BY <1>1, NodeUnpacked DEF SlotsAreCounted, HoldsSlot, Count
  <1>6. BudgetIsBalanced'
    <2> DEFINE sending == IF HoldsPermit THEN held[2] ELSE 0
    <2>1. sending \in Nat /\ Bytes = free + TotalBytes(queue) + sending + got[2]
      BY <1>1, NodeUnpacked DEF BudgetIsBalanced, QueuedBytes
    <2>2. sending = IF HoldsPermit' THEN held'[2] ELSE 0
      BY <1>1
    <2> HIDE DEF sending
    <2>3. free \in Nat /\ got[2] \in Nat /\ TotalBytes(queue) \in Nat
      BY NodeUnpacked
    <2>4. CASE closed = "yes" /\ reader' = "idle" /\ free' = free + got[2]
      <3>1. Bytes = free' + TotalBytes(queue) + sending + 0
        BY <2>1, <2>3, <2>4
      <3> QED BY <1>1, <1>3, <2>2, <2>4, <3>1 DEF BudgetIsBalanced, QueuedBytes
    <2>5. CASE closed = "no" /\ reader' = "hand" /\ free' = free
      BY <1>1, <1>3, <2>1, <2>2, <2>5 DEF BudgetIsBalanced, QueuedBytes
    <2> QED BY <1>2, <2>4, <2>5
  <1>7. closed' = "no" => NodeCounts'
    BY <1>1, <1>2, NodeUnpacked DEF NodeCounts, AllEvents
  <1>8. HandedIsNext' /\ LateIsTurnedAway'
    BY <1>1, <1>2, NodeUnpacked DEF HandedIsNext, LateIsTurnedAway, NodeCounts, AllEvents
  <1> QED BY <1>4, <1>5, <1>6, <1>7, <1>8 DEF NodeInv

LEMMA HandKeeps ==
  ASSUME NodeInv, NextHand
  PROVE  NodeInv' /\ [Iterator!ProtocolNext]_yielded
  <1> DEFINE frame == Seen(EventFrame(got[1], got[2]))
  <1>1. /\ reader = "hand" /\ reader' = "idle"
        /\ producer' = producer /\ seq' = seq /\ events' = events
        /\ signal' = signal /\ terminal' = terminal /\ held' = held
        /\ next_seq' = next_seq /\ free' = free + got[2] /\ receiver' = receiver
        /\ queue' = queue /\ got' = got /\ asked' = asked /\ closed' = closed
        /\ closer' = closer /\ yielded' = Append(yielded, frame)
    BY DEF NextHand, frameVars, producerVars
  <1>2. got[1] = Len(yielded) /\ AllEvents(yielded)
    BY <1>1, NodeUnpacked DEF HandedIsNext
  <1>3. /\ frame = [type |-> "Event", seq |-> got[1], outcome |-> "None"]
        /\ frame \in SeenFrames
    BY SeenIs, NodeUnpacked DEF Outcomes
  <1>4. frame.type = "Event" /\ frame.outcome = "None"
    BY <1>3
  <1> HIDE DEF frame
  <1>5. yielded' \in Seq(SeenFrames)
    BY <1>1, <1>3, NodeUnpacked
  <1>6. free' \in Nat
    BY <1>1, NodeUnpacked
  <1>7. NodeTypes' /\ ClosedFirst'
    BY <1>1, <1>5, <1>6, NodeUnpacked DEF NodeTypes, FrameTypes, ClosedFirst
  <1>8. SlotsAreCounted'
    BY <1>1, NodeUnpacked DEF SlotsAreCounted, HoldsSlot, Count
  <1>9. BudgetIsBalanced'
    <2> DEFINE sending == IF HoldsPermit THEN held[2] ELSE 0
    <2>1. sending \in Nat /\ Bytes = free + TotalBytes(queue) + sending + got[2]
      BY <1>1, NodeUnpacked DEF BudgetIsBalanced, QueuedBytes
    <2>2. sending = IF HoldsPermit' THEN held'[2] ELSE 0
      BY <1>1
    <2> HIDE DEF sending
    <2>3. Bytes = free' + TotalBytes(queue) + sending + 0
      <3>1. free' = free + got[2]
        BY <1>1
      <3>2. free \in Nat /\ got[2] \in Nat /\ TotalBytes(queue) \in Nat
        BY NodeUnpacked
      <3> QED BY <2>1, <3>1, <3>2
    <2> QED BY <1>1, <1>6, <2>2, <2>3 DEF BudgetIsBalanced, QueuedBytes
  <1>10. SuccessesAreLast'
    <2>1. \A i \in 1 .. Len(yielded') :
             yielded'[i].outcome = "Success" => events = "gone" /\ i = seq + 1
      <3>1. \A i \in 1 .. Len(yielded) :
               yielded[i].outcome = "Success" => events = "gone" /\ i = seq + 1
        BY NodeUnpacked DEF SuccessesAreLast, SuccessIsComplete
      <3>2. /\ Len(yielded') = Len(yielded) + 1 /\ yielded'[Len(yielded) + 1] = frame
            /\ \A i \in 1 .. Len(yielded) : yielded'[i] = yielded[i]
        BY <1>1, NodeUnpacked
      <3>3. Len(yielded) \in Nat
        BY NodeUnpacked
      <3>4. \A i \in 1 .. Len(yielded') : i \in 1 .. Len(yielded) \/ i = Len(yielded) + 1
        BY <3>2, <3>3
      <3>5. frame.outcome # "Success"
        BY <1>4
      <3> QED BY <3>1, <3>2, <3>4, <3>5
    <2> QED BY <1>1, <2>1, NodeUnpacked DEF SuccessesAreLast, SuccessIsComplete
  <1>11. Iterator!ProtocolNext
    <2>1. ~Iterator!Over
      BY <1>2 DEF Iterator!Over, AllEvents
    <2>2. Iterator!Give("Event", "None")
      BY <1>1, <1>2, <1>3, <2>1 DEF Iterator!Give
    <2> QED BY <2>2 DEF Iterator!ProtocolNext
  <1>12. ASSUME closed = "no"
         PROVE  NodeCounts'
    <2>1. NodeCounts
      BY <1>12, NodeUnpacked
    <2>2. Len(yielded') = Len(yielded) + 1
      BY <1>1, NodeUnpacked
    <2>3. AllEvents(yielded')
      BY <1>1, <1>2, <1>3, <1>4, MoreEvents, NodeUnpacked
    <2>4. Count(HoldsEntry) = 1 /\ Count(HoldsEntry') = 0
      BY <1>1 DEF Count
    <2>5. next_seq = Len(yielded') + Count(HoldsEntry') + Len(queue)
      BY <2>1, <2>2, <2>4, NodeUnpacked DEF NodeCounts
    <2>6. \A i \in 1 .. Len(queue) :
             queue[i][1] = Len(yielded') + Count(HoldsEntry') + i - 1
      <3> TAKE i \in 1 .. Len(queue)
      <3>1. queue[i][1] = Len(yielded) + 1 + i - 1
        BY <2>1, <2>4 DEF NodeCounts
      <3> QED BY <3>1, <2>2, <2>4, NodeUnpacked
    <2> QED BY <1>1, <2>1, <2>3, <2>5, <2>6 DEF NodeCounts, AllEvents
  <1>13. HandedIsNext' /\ LateIsTurnedAway'
    BY <1>1, NodeUnpacked DEF HandedIsNext, LateIsTurnedAway
  <1> QED BY <1>1, <1>7, <1>8, <1>9, <1>10, <1>11, <1>12, <1>13 DEF NodeInv

LEMMA EofKeeps ==
  ASSUME NodeInv, NextEof
  PROVE  NodeInv'
  <1>1. /\ reader = "eof" /\ closed' = "yes"
        /\ producer' = producer /\ seq' = seq /\ events' = events
        /\ signal' = signal /\ held' = held /\ next_seq' = next_seq
        /\ free' = free /\ receiver' = receiver /\ queue' = queue /\ got' = got
        /\ asked' = asked /\ yielded' = yielded /\ terminal' = terminal /\ closer' = closer
        /\ reader' = IF closed = "yes" THEN "idle" ELSE "take"
    BY DEF NextEof, frameVars, producerVars, channelVars
  <1>2. NodeTypes' /\ ClosedFirst' /\ SuccessesAreLast'
    BY <1>1, NodeUnpacked DEF NodeTypes, FrameTypes, ClosedFirst, SuccessesAreLast,
       SuccessIsComplete
  <1>3. SlotsAreCounted' /\ BudgetIsBalanced'
    BY <1>1, NodeUnpacked
    DEF SlotsAreCounted, HoldsSlot, Count, BudgetIsBalanced, QueuedBytes
  <1>4. ASSUME closed = "no"
        PROVE  /\ producer = "gone" /\ AllEvents(yielded) /\ terminal.type = "End"
               /\ terminal.seq = Len(yielded) /\ terminal.outcome \in Outcomes
    <2>1. NodeCounts
      BY <1>4, NodeUnpacked
    <2>2. queue = <<>> /\ producer = "gone" /\ Len(queue) = 0 /\ Count(HoldsEntry) = 0
      BY <1>1, <2>1 DEF NodeCounts, Count
    <2>3. next_seq = Len(yielded)
      BY <2>1, <2>2, NodeUnpacked DEF NodeCounts
    <2> QED BY <2>1, <2>2, <2>3 DEF NodeCounts
  <1>5. closed # "yes" => closed = "no"
    BY NodeUnpacked DEF NodeTypes
  <1>6. HandedIsNext' /\ LateIsTurnedAway'
    BY <1>1, <1>4, <1>5, NodeUnpacked DEF HandedIsNext, LateIsTurnedAway, AllEvents
  <1> QED BY <1>1, <1>2, <1>3, <1>6 DEF NodeInv

LEMMA TakeKeeps ==
  ASSUME NodeInv, NextTake
  PROVE  NodeInv' /\ [Iterator!ProtocolNext]_yielded
  <1>1. /\ reader = "take" /\ reader' = "idle" /\ closed' = closed
        /\ producer' = producer /\ seq' = seq /\ events' = events
        /\ signal' = signal /\ held' = held /\ next_seq' = next_seq
        /\ free' = free /\ receiver' = receiver /\ queue' = queue /\ got' = got
        /\ asked' = asked /\ closer' = closer
        /\ yielded' = Append(yielded, terminal) /\ terminal' = NoFrame
    BY DEF NextTake, frameVars, producerVars, channelVars
  <1>2. /\ closed = "yes" /\ AllEvents(yielded) /\ terminal.type = "End"
        /\ terminal.seq = Len(yielded) /\ terminal.outcome \in Outcomes
    BY <1>1, NodeUnpacked DEF HandedIsNext
  <1>3. terminal \in SeenFrames /\ NoFrame \in SeenFrames /\ NoFrame.outcome = "None"
    BY NodeUnpacked DEF NodeTypes, NoFrame, SeenFrames
  <1>4. terminal' \in SeenFrames /\ yielded' \in Seq(SeenFrames)
    BY <1>1, <1>3, NodeUnpacked
  <1>5. NodeTypes' /\ ClosedFirst'
    BY <1>1, <1>4, NodeUnpacked DEF NodeTypes, FrameTypes, ClosedFirst
  <1>6. SlotsAreCounted' /\ BudgetIsBalanced'
    BY <1>1, NodeUnpacked
    DEF SlotsAreCounted, HoldsSlot, Count, BudgetIsBalanced, QueuedBytes
  <1>7. SuccessesAreLast'
    <2>1. \A i \in 1 .. Len(yielded) :
             yielded[i].outcome = "Success" => events = "gone" /\ i = seq + 1
      BY NodeUnpacked DEF SuccessesAreLast, SuccessIsComplete
    <2>2. /\ Len(yielded') = Len(yielded) + 1 /\ yielded'[Len(yielded) + 1] = terminal
          /\ \A i \in 1 .. Len(yielded) : yielded'[i] = yielded[i]
      BY <1>1, <1>3, NodeUnpacked
    <2>3. terminal.outcome = "Success" => events = "gone" /\ Len(yielded) = seq
      BY <1>2, NodeUnpacked DEF SuccessesAreLast
    <2>4. \A i \in 1 .. Len(yielded') :
             yielded'[i].outcome = "Success" => events = "gone" /\ i = seq + 1
      <3>1. Len(yielded) \in Nat
        BY NodeUnpacked
      <3>2. \A i \in 1 .. Len(yielded') : i \in 1 .. Len(yielded) \/ i = Len(yielded) + 1
        BY <2>2, <3>1
      <3> QED BY <2>1, <2>2, <2>3, <3>2
    <2> QED BY <1>1, <1>3, <2>4 DEF SuccessesAreLast, SuccessIsComplete
  <1>8. HandedIsNext' /\ LateIsTurnedAway'
    BY <1>1, NodeUnpacked DEF HandedIsNext, LateIsTurnedAway
  <1>9. NodeInv'
    BY <1>1, <1>2, <1>5, <1>6, <1>7, <1>8 DEF NodeInv
  <1>10. ~Iterator!Over
    BY <1>2 DEF Iterator!Over, AllEvents
  <1>11. terminal = [type |-> "End", seq |-> Len(yielded), outcome |-> terminal.outcome]
    BY <1>2, <1>3 DEF SeenFrames
  <1>12. Iterator!Give("End", terminal.outcome)
    BY <1>1, <1>10, <1>11 DEF Iterator!Give
  <1>13. terminal.outcome \in {"Success", "Error", "Cancelled"}
    BY <1>2 DEF Outcomes
  <1> QED BY <1>9, <1>12, <1>13 DEF Iterator!ProtocolNext

LEMMA CloseDrainKeeps ==
  ASSUME NodeInv, CloseDrain
  PROVE  NodeInv'
  <1>1. /\ closer = "drain" /\ closer' = "done" /\ closed = "yes" /\ closed' = "yes"
        /\ producer' = producer /\ seq' = seq /\ events' = events
        /\ signal' = signal /\ held' = held /\ next_seq' = next_seq
        /\ terminal' = terminal /\ reader' = reader /\ got' = got /\ asked' = asked
        /\ yielded' = yielded
    BY NodeUnpacked DEF CloseDrain, frameVars, producerVars, readerVars, ClosedFirst
  <1>2. \/ queue' = queue /\ free' = free /\ receiver' = receiver
        \/ queue' = <<>> /\ free' = free + TotalBytes(queue) /\ receiver' = "closed"
    BY DEF CloseDrain, channelVars, QueuedBytes
  <1>3. TotalBytes(<<>>) = 0 /\ <<>> \in Seq(Pairs) /\ Len(<<>>) = 0
    BY TotalOfNothing
  <1>4. /\ queue' \in Seq(Pairs) /\ free' \in Nat /\ receiver' \in {"open", "closed"}
        /\ Len(queue') <= Len(queue) /\ Len(queue') \in Nat
        /\ free' + TotalBytes(queue') = free + TotalBytes(queue)
    <2>1. CASE queue' = queue /\ free' = free /\ receiver' = receiver
      BY <2>1, NodeUnpacked DEF NodeTypes
    <2>2. CASE queue' = <<>> /\ free' = free + TotalBytes(queue) /\ receiver' = "closed"
      BY <1>3, <2>2, NodeUnpacked
    <2> QED BY <1>2, <2>1, <2>2
  <1>5. NodeTypes' /\ ClosedFirst'
    BY <1>1, <1>4, NodeUnpacked DEF NodeTypes, FrameTypes, ClosedFirst
  <1>6. SlotsAreCounted'
    BY <1>1, <1>4, NodeUnpacked, BridgeAssumption DEF SlotsAreCounted, HoldsSlot, Count
  <1>7. BudgetIsBalanced'
    <2> DEFINE hands == (IF HoldsPermit THEN held[2] ELSE 0)
    <2> DEFINE reading == (IF HoldsEntry THEN got[2] ELSE 0)
    <2>1. hands \in Nat /\ reading \in Nat /\ free >= 0
          /\ Bytes = free + TotalBytes(queue) + hands + reading
      BY NodeUnpacked DEF BudgetIsBalanced, QueuedBytes
    <2>2. /\ hands = IF HoldsPermit' THEN held'[2] ELSE 0
          /\ reading = IF HoldsEntry' THEN got'[2] ELSE 0
      BY <1>1
    <2> HIDE DEF hands, reading
    <2>3. Bytes = free' + TotalBytes(queue') + hands + reading /\ free' >= 0
      BY <1>4, <2>1
    <2> QED BY <2>2, <2>3 DEF BudgetIsBalanced, QueuedBytes
  <1>8. SuccessesAreLast'
    BY <1>1, NodeUnpacked DEF SuccessesAreLast, SuccessIsComplete
  <1>9. HandedIsNext' /\ LateIsTurnedAway'
    BY <1>1, ReaderStays DEF readerVars
  <1> QED BY <1>1, <1>5, <1>6, <1>7, <1>8, <1>9 DEF NodeInv

(* Nobody but next gives JavaScript a frame.                               *)
LEMMA OthersYieldNothing ==
  ASSUME BridgeNext
  PROVE  NextHand \/ NextTake \/ yielded' = yielded
  BY DEF BridgeNext, ProducerNext, ReaderNext, CloserNext, ProduceReserve, ProducePoll,
     ProducePollCancelled, ProducePermit, ProduceLook, ProduceSend, ProduceDrop, NextCall,
     NextCheck, NextLock, NextRecv, NextGot, NextEof, Close, CloseAbort, CloseDrain, ExternalAbort, readerVars

LEMMA NodeKeeps ==
  ASSUME NodeInv, BridgeNext
  PROVE  NodeInv' /\ [Iterator!ProtocolNext]_yielded
  <1>1. NodeInv'
    BY ReserveKeeps, PollKeeps, PollCancelledKeeps, PermitKeeps, LookKeeps, SendKeeps,
       DropKeeps, QuietKeeps, RecvKeeps, GotKeeps, HandKeeps, EofKeeps, TakeKeeps,
       CloseDrainKeeps
    DEF BridgeNext, ProducerNext, ReaderNext, CloserNext
  <1> QED BY <1>1, OthersYieldNothing, HandKeeps, TakeKeeps

(* Whoever returns a frame was called before close().                      *)
LEMMA OnlyAskedYield ==
  ASSUME NodeInv, BridgeNext, yielded' # yielded
  PROVE  asked = "open"
  BY OthersYieldNothing, NodeUnpacked DEF NextHand, NextTake, LateIsTurnedAway

LEMMA NodeIsSound ==
  ASSUME NodeInv
  PROVE  NothingIsLost
  <1>1. Len(queue) + Count(HoldsSlot) <= Items
    BY NodeUnpacked DEF SlotsAreCounted
  <1>2. ASSUME signal = "quiet", closed = "no"
        PROVE  seq = Len(yielded) + Count(HoldsEntry) + Len(queue)
                       + Count(HoldsEvent)
    <2>1. NodeCounts
      BY <1>2, NodeUnpacked
    <2>2. next_seq = Len(yielded) + Count(HoldsEntry) + Len(queue)
      BY <2>1 DEF NodeCounts
    <2>3. seq = next_seq + Count(HoldsEvent)
      <3>1. CASE HoldsEvent
        BY <3>1, <2>1 DEF NodeCounts, Count
      <3>2. CASE producer \in {"reserve", "poll", "drop", "gone"}
        <4>1. seq = next_seq /\ Count(HoldsEvent) = 0
          BY <3>2, <1>2, <2>1 DEF NodeCounts, Count
        <4> QED BY <4>1, NodeUnpacked
      <3> QED BY <3>1, <3>2, NodeUnpacked DEF NodeTypes
    <2> QED BY <2>2, <2>3
  <1>3. BudgetIsBalanced /\ SuccessIsComplete
    BY NodeUnpacked DEF SuccessesAreLast
  <1> QED BY <1>1, <1>2, <1>3 DEF NothingIsLost, Lossless

-----------------------------------------------------------------------------
HIDE DEF HoldsEntry, HoldsEvent, HoldsPermit

(* The Python bridge.  Its frame stream is the one above.                  *)
LEMMA SameFrames ==
  /\ Py!Answers = Answers /\ \A q : Py!TotalBytes(q) = TotalBytes(q)
  /\ \A up : /\ Py!FramePoll(up) <=> FramePoll(up)
             /\ Py!PolledFrame(up) = PolledFrame(up)
  <1>1. Py!Answers = Answers
    BY DEF Py!Answers, Answers
  <1>2. \A q : Py!TotalBytes(q) = TotalBytes(q)
    BY DEF Py!TotalBytes, TotalBytes, Py!Sums, Sums
  <1>3. \A up : Py!PolledFrame(up) = PolledFrame(up)
    BY DEF Py!PolledFrame, PolledFrame, Py!EndFrame, EndFrame, Py!EventFrame, EventFrame,
       Py!OutcomeOf, OutcomeOf, Py!Passes, Passes, Py!Small, Small
  <1>4. \A up : Py!FramePoll(up) <=> FramePoll(up)
    BY <1>3 DEF Py!FramePoll, FramePoll
  <1> QED BY <1>1, <1>2, <1>3, <1>4

LEMMA PyUnpacked ==
  ASSUME PyInv
  PROVE  /\ PyTypes /\ WorkerInv /\ OrderInv /\ (discarded = "no" => GaplessInv) /\ StopInv
         /\ Py!PermitsAreBalanced
         /\ FrameTypes /\ seq \in Nat /\ pyFree \in Nat
         /\ pyHeld \in Pairs /\ pyHeld[1] \in Nat /\ pyHeld[2] \in Nat
         /\ pyGot \in Pairs /\ pyGot[1] \in Nat /\ pyGot[2] \in Nat
         /\ pyQueue \in Seq(Pairs) /\ pyYielded \in Seq(Nat)
         /\ TotalBytes(pyQueue) \in Nat /\ Len(pyQueue) \in Nat /\ Len(pyYielded) \in Nat
  <1>1. PyTypes
    BY DEF PyInv
  <1>2. /\ pyQueue \in Seq(Pairs) /\ pyYielded \in Seq(Nat) /\ pyHeld \in Pairs
        /\ pyGot \in Pairs
    BY <1>1 DEF PyTypes
  <1>3. TotalBytes(pyQueue) \in Nat
    BY <1>2, TotalIsNat
  <1>4. pyHeld[1] \in Nat /\ pyHeld[2] \in Nat /\ pyGot[1] \in Nat /\ pyGot[2] \in Nat
    BY <1>2 DEF Pairs
  <1>5. seq \in Nat /\ FrameTypes
    BY <1>1 DEF PyTypes, FrameTypes
  <1>6. Len(pyQueue) \in Nat /\ Len(pyYielded) \in Nat
    BY <1>2
  <1> QED BY <1>1, <1>2, <1>3, <1>4, <1>5, <1>6 DEF PyInv, PyTypes

(* The byte budget, with what the worker and next hold.                    *)
Sending == IF pump = "send" THEN pyHeld[2] ELSE 0
Reading == IF pyReader = "popped" THEN pyGot[2] ELSE 0

LEMMA Permits ==
  /\ Py!PermitsAreBalanced <=>
       /\ Len(pyQueue) <= Items /\ pyFree >= 0
       /\ Bytes = pyFree + TotalBytes(pyQueue) + Sending + Reading
  /\ Py!PermitsAreBalanced' <=>
       /\ Len(pyQueue') <= Items /\ pyFree' >= 0
       /\ Bytes = pyFree' + TotalBytes(pyQueue') + Sending' + Reading'
  BY SameFrames DEF Py!PermitsAreBalanced, Py!QueuedBytes, Sending, Reading

LEMMA HandsAreNumbers ==
  ASSUME PyInv
  PROVE  Sending \in Nat /\ Reading \in Nat
  BY PyUnpacked DEF Sending, Reading

(* What the numbers and the budget say after a step.                       *)
NumbersKept == OrderInv' /\ (discarded' = "no" => GaplessInv') /\ Py!PermitsAreBalanced'

(* Steps that move no event.                                               *)
LEMMA NumbersStay ==
  ASSUME PyInv, UNCHANGED <<seq, pyHeld, pyQueue, pyYielded, pyGot, pyFree, discarded>>,
         pyReader' = "popped" <=> pyReader = "popped",
         Holding' <=> Holding, pump' = "send" <=> pump = "send",
         pump' \in {"dispatch", "next"} \/ outcome' = "Ok" =>
            pump \in {"dispatch", "next"} \/ outcome = "Ok"
  PROVE  NumbersKept
  <1>1. /\ seq' = seq /\ pyHeld' = pyHeld /\ pyQueue' = pyQueue /\ pyYielded' = pyYielded
        /\ pyGot' = pyGot /\ pyFree' = pyFree /\ discarded' = discarded
    OBVIOUS
  <1>2. Lead' = Lead /\ Sending' = Sending /\ Reading' = Reading /\ Taken' = Taken
    BY <1>1 DEF Lead, Sending, Reading, Taken, Count
  <1>3. OrderInv'
    BY <1>1, <1>2, PyUnpacked DEF OrderInv
  <1>4. discarded' = "no" => GaplessInv'
    BY <1>1, <1>2, PyUnpacked DEF GaplessInv
  <1>5. Py!PermitsAreBalanced'
    BY <1>1, <1>2, PyUnpacked, Permits
  <1> QED BY <1>3, <1>4, <1>5 DEF NumbersKept

(* The worker stops with an event in its hands.                            *)
LEMMA HeldIsLost ==
  ASSUME PyInv, UNCHANGED <<seq, pyHeld, pyQueue, pyYielded, pyGot, discarded, pyReader>>,
         Holding, ~Holding', pump' \notin {"dispatch", "next", "send"}, outcome' # "Ok",
         pyFree' = pyFree + Sending
  PROVE  NumbersKept /\ pyFree' \in Nat
  <1>1. /\ seq' = seq /\ pyHeld' = pyHeld /\ pyQueue' = pyQueue /\ pyYielded' = pyYielded
        /\ pyGot' = pyGot /\ pyReader' = pyReader /\ discarded' = discarded
    OBVIOUS
  <1>2. Lead = seq - 1 /\ Lead' = seq /\ Sending' = 0 /\ Reading' = Reading /\ Taken' = Taken
    BY <1>1 DEF Lead, Sending, Reading, Taken, Count
  <1>3. OrderInv'
    <2>1. /\ \A i \in 1 .. Len(pyYielded) : pyYielded[i] < seq
          /\ \A i \in 1 .. Len(pyQueue) : pyQueue[i][1] < seq
          /\ pyReader = "popped" => pyGot[1] < seq
      <3>1. \A n \in Nat : n < Lead => n < seq
        BY <1>2, PyUnpacked
      <3>2. \A i \in 1 .. Len(pyYielded) : pyYielded[i] \in Nat
        <4>1. pyYielded \in Seq(Nat)
          BY PyUnpacked
        <4> QED BY <4>1
      <3>3. \A i \in 1 .. Len(pyQueue) : pyQueue[i][1] \in Nat
        <4>1. pyQueue \in Seq(Pairs)
          BY PyUnpacked
        <4> QED BY <4>1 DEF Pairs
      <3> QED BY <3>1, <3>2, <3>3, PyUnpacked DEF OrderInv
    <2> QED BY <1>1, <1>2, <2>1, PyUnpacked DEF OrderInv
  <1>4. discarded' = "no" => GaplessInv'
    BY <1>1, <1>2, PyUnpacked DEF GaplessInv
  <1>5. pyFree' \in Nat /\ Py!PermitsAreBalanced'
    <2>1. /\ Len(pyQueue) <= Items /\ Bytes = pyFree + TotalBytes(pyQueue) + Sending + Reading
      BY PyUnpacked, Permits
    <2>2. pyFree' = pyFree + Sending /\ pyFree' \in Nat
      BY PyUnpacked, HandsAreNumbers
    <2>3. Bytes = pyFree' + TotalBytes(pyQueue) + 0 + Reading
      BY <2>1, <2>2, HandsAreNumbers, PyUnpacked
    <2> QED BY <1>1, <1>2, <2>1, <2>2, <2>3, Permits
  <1> QED BY <1>3, <1>4, <1>5 DEF NumbersKept

LEMMA PyPacked ==
  ASSUME PyTypes', WorkerInv', StopInv', NumbersKept
  PROVE  PyInv'
  BY DEF NumbersKept, PyInv

(* Python's side, where it only starts, cancels, closes or asks.           *)
LEMMA PyQuietKeeps ==
  ASSUME PyInv, \/ Py!StartAnswered \/ Py!StartGivesUp \/ Py!NextCall \/ Py!Cancel
                \/ Py!Close \/ Py!CloseWaited \/ Py!Drop \/ Py!ExternalAbort
  PROVE  PyInv' /\ told' = told
  <1>1. /\ events' = events /\ seq' = seq /\ accepted' = accepted /\ pump' = pump
        /\ pyHeld' = pyHeld /\ outcome' = outcome /\ pyQueue' = pyQueue
        /\ pyFree' = pyFree /\ pyReceiver' = pyReceiver /\ pyTerminal' = pyTerminal
        /\ pyGot' = pyGot /\ pyYielded' = pyYielded /\ told' = told
        /\ discarded' = discarded
    BY DEF Py!StartAnswered, Py!StartGivesUp, Py!NextCall, Py!Cancel, Py!Close,
       Py!CloseWaited, Py!Drop, Py!ExternalAbort, Py!frameVars, Py!workerVars, Py!queueVars,
       Py!readVars
  <1>2. /\ signal' \in {signal, "aborted"} /\ kill' \in {kill, "yes"}
        /\ (kill' = kill \/ signal' = "aborted")
    BY DEF Py!StartAnswered, Py!StartGivesUp, Py!NextCall, Py!Cancel, Py!Close,
       Py!CloseWaited, Py!Drop, Py!ExternalAbort, Py!frameVars, Py!TaskCancel, Py!TaskDrop
  <1>3. \/ pyReader' = pyReader
        \/ pyReader = "idle" /\ pyReader' = "check" /\ start = "open" /\ start' = start
    BY DEF Py!StartAnswered, Py!StartGivesUp, Py!NextCall, Py!Cancel, Py!Close,
       Py!CloseWaited, Py!Drop, Py!ExternalAbort, Py!readVars
  <1>4. \/ start' = start
        \/ start = "waiting" /\ start' \in {"open", "refused"}
           /\ (start' = "open" => accepted = "ok")
        \/ start = "open" /\ start' = "dropped" /\ pyReader = "idle" /\ pyReader' = "idle"
    BY DEF Py!StartAnswered, Py!StartGivesUp, Py!NextCall, Py!Cancel, Py!Close,
       Py!CloseWaited, Py!Drop, Py!ExternalAbort, Py!readVars
  <1>5. \/ pyCloser' = pyCloser \/ pyCloser' \in {"wait", "idle"}
        \/ pyCloser' = "drain" /\ pump = "done"
    BY DEF Py!StartAnswered, Py!StartGivesUp, Py!NextCall, Py!Cancel, Py!Close,
       Py!CloseWaited, Py!Drop, Py!ExternalAbort, Py!CloseProceeds
  <1>6. NumbersKept
    BY <1>1, <1>3, NumbersStay DEF Holding
  <1>7. PyTypes'
    BY <1>1, <1>2, <1>3, <1>4, <1>5, PyUnpacked DEF PyTypes, FrameTypes
  <1>8. WorkerInv'
    <2>1. (start' \in {"open", "dropped"} => accepted' = "ok")
          /\ (pyReader' # "idle" => start' = "open")
      BY <1>1, <1>3, <1>4, PyUnpacked DEF WorkerInv
    <2>2. kill' = "yes" => signal' = "aborted"
      BY <1>2, PyUnpacked DEF WorkerInv
    <2> QED BY <1>1, <1>2, <1>5, <2>1, <2>2, PyUnpacked DEF WorkerInv, Leaving
  <1>9. StopInv'
    BY <1>1, <1>3, PyUnpacked DEF StopInv, Py!SenderGone
  <1> QED BY <1>1, <1>6, <1>7, <1>8, <1>9, PyPacked

LEMMA DispatchKeeps ==
  ASSUME PyInv, Py!WorkerDispatch
  PROVE  PyInv' /\ told' = told
  <1>1. /\ pump = "dispatch" /\ signal' = signal /\ seq' = seq /\ start' = start
        /\ pyHeld' = pyHeld /\ outcome' = outcome /\ kill' = kill /\ pyQueue' = pyQueue
        /\ pyFree' = pyFree /\ pyReceiver' = pyReceiver /\ pyTerminal' = pyTerminal
        /\ pyReader' = pyReader /\ pyGot' = pyGot /\ pyYielded' = pyYielded /\ told' = told
        /\ pyCloser' = pyCloser /\ discarded' = discarded
    BY DEF Py!WorkerDispatch, Py!queueVars, Py!readVars
  <1>2. \/ accepted' = "error" /\ pump' = "drop" /\ events' = "gone"
        \/ start = "waiting" /\ accepted' = "ok" /\ pump' = "next" /\ events' = events
        \/ start # "waiting" /\ pump' = "drop" /\ accepted' = accepted /\ events' = events
    BY DEF Py!WorkerDispatch
  <1>3. pyTerminal = "None" /\ outcome # "Ok" /\ pyReceiver # "closed" /\ pyCloser # "drain"
    BY <1>1, PyUnpacked DEF WorkerInv, Leaving
  <1>4. NumbersKept
    BY <1>1, <1>2, <1>3, NumbersStay DEF Holding
  <1>5. PyTypes'
    BY <1>1, <1>2, PyUnpacked DEF PyTypes, FrameTypes
  <1>6. StopInv'
    BY <1>1, <1>3, PyUnpacked DEF StopInv, Py!SenderGone
  <1>7. WorkerInv'
    BY <1>1, <1>2, <1>3, PyUnpacked DEF WorkerInv, Leaving
  <1> QED BY <1>1, <1>4, <1>5, <1>6, <1>7, PyPacked

(* The end of the worker: terminal, sender, stream, completion.            *)
LEMMA WorkerEndKeeps ==
  ASSUME PyInv, \/ Py!PumpPublish \/ Py!WorkerDropSender \/ Py!WorkerDropStream
                \/ Py!WorkerDone
  PROVE  PyInv' /\ told' = told
  <1>1. /\ seq' = seq /\ start' = start /\ accepted' = accepted
        /\ pyHeld' = pyHeld /\ outcome' = outcome /\ kill' = kill /\ pyQueue' = pyQueue
        /\ pyFree' = pyFree /\ pyReceiver' = pyReceiver
        /\ pyReader' = pyReader /\ pyGot' = pyGot /\ pyYielded' = pyYielded /\ told' = told
        /\ pyCloser' = pyCloser /\ discarded' = discarded
    BY DEF Py!PumpPublish, Py!WorkerDropSender, Py!WorkerDropStream, Py!WorkerDone,
       Py!frameVars, Py!queueVars, Py!readVars
  <1>2. \/ pump = "publish" /\ pump' = "drop" /\ pyTerminal' = outcome
        \/ pump = "drop" /\ pump' = "senderless" /\ pyTerminal' = pyTerminal
        \/ pump = "senderless" /\ pump' = "ended" /\ pyTerminal' = pyTerminal
        \/ pump = "ended" /\ pump' = "done" /\ pyTerminal' = pyTerminal
    BY DEF Py!PumpPublish, Py!WorkerDropSender, Py!WorkerDropStream, Py!WorkerDone
  <1>3. signal' \in {signal, "aborted"} /\ events' \in {events, "gone"}
    BY DEF Py!PumpPublish, Py!WorkerDropSender, Py!WorkerDropStream, Py!WorkerDone,
       Py!frameVars, Py!SignalAfterDrop
  <1>4. NumbersKept
    BY <1>1, <1>2, NumbersStay DEF Holding
  <1>5. PyTypes'
    BY <1>1, <1>2, <1>3, PyUnpacked DEF PyTypes, FrameTypes
  <1>6. StopInv'
    BY <1>1, <1>2, PyUnpacked DEF StopInv, Py!SenderGone
  <1>7. WorkerInv'
    BY <1>1, <1>2, <1>3, PyUnpacked DEF WorkerInv, Leaving, PyTypes
  <1> QED BY <1>1, <1>4, <1>5, <1>6, <1>7, PyPacked

(* While the worker pumps there is no terminal, and nothing was drained.   *)
LEMMA Pumping ==
  ASSUME PyInv, pump \in {"dispatch", "next", "permit", "send"}
  PROVE  /\ pyTerminal = "None" /\ outcome # "Ok" /\ pyReceiver = "open"
         /\ pyCloser # "drain" /\ told # "Stop" /\ pyReader # "eof" /\ ~Leaving
         /\ ~Py!SenderGone
  BY PyUnpacked DEF WorkerInv, StopInv, Leaving, PyTypes, Py!SenderGone

LEMMA KilledKeeps ==
  ASSUME PyInv, Py!WorkerKilled
  PROVE  PyInv' /\ told' = told
  <1>1. /\ events' = events /\ signal' = signal /\ seq' = seq /\ start' = start
        /\ accepted' = accepted /\ kill = "yes" /\ pump' = "drop"
        /\ pyHeld' = pyHeld /\ outcome' = outcome /\ kill' = kill /\ pyQueue' = pyQueue
        /\ pyReceiver' = pyReceiver /\ pyTerminal' = pyTerminal
        /\ pyReader' = pyReader /\ pyGot' = pyGot /\ pyYielded' = pyYielded /\ told' = told
        /\ pyCloser' = pyCloser /\ discarded' = discarded
        /\ pump \in {"dispatch", "next", "permit", "send"}
        /\ pyFree' = IF pump = "send" THEN pyFree + pyHeld[2] ELSE pyFree
    BY DEF Py!WorkerKilled, Py!frameVars, Py!readVars, Py!FreeAfterDrop
  <1>2. NumbersKept /\ pyFree' \in Nat
    <2>1. CASE Holding
      <3>1. pyFree' = pyFree + Sending
        BY <1>1, PyUnpacked DEF Sending
      <3>2. ~Holding' /\ outcome' # "Ok"
        BY <1>1, Pumping DEF Holding
      <3> QED BY <1>1, <2>1, <3>1, <3>2, HeldIsLost
    <2>2. CASE ~Holding
      <3>1. pyFree' = pyFree /\ ~Holding' /\ pump # "send" /\ outcome # "Ok"
        BY <1>1, <2>2, Pumping DEF Holding
      <3> QED BY <1>1, <2>2, <3>1, NumbersStay, PyUnpacked
    <2> QED BY <2>1, <2>2
  <1>3. PyTypes'
    BY <1>1, <1>2, PyUnpacked DEF PyTypes, FrameTypes
  <1>4. StopInv'
    BY <1>1, Pumping DEF StopInv
  <1>5. WorkerInv'
    BY <1>1, Pumping, PyUnpacked DEF WorkerInv, Leaving
  <1> QED BY <1>1, <1>2, <1>3, <1>4, <1>5, PyPacked

(* The worker leaves its loop with a terminal.                             *)
LEMMA PyBreakKeeps ==
  ASSUME PyInv, NEW result \in {"Ok", "Error", "Aborted"}, Py!Break(result),
         pump \in {"next", "permit", "send"}, NumbersKept, pyFree' \in Nat,
         UNCHANGED <<signal, seq, start, accepted, pyHeld, kill, pyQueue, pyReceiver,
                     pyTerminal, pyReader, pyGot, pyYielded, told, pyCloser, discarded>>,
         events' \in {events, "gone"}, result = "Ok" => events' = "gone"
  PROVE  PyInv'
  <1>1. outcome' = result /\ pump' = "publish"
    BY DEF Py!Break
  <1>2. PyTypes'
    BY <1>1, PyUnpacked DEF PyTypes, FrameTypes
  <1>3. StopInv'
    BY Pumping DEF StopInv
  <1>4. WorkerInv'
    BY <1>1, Pumping, PyUnpacked DEF WorkerInv, Leaving
  <1> QED BY <1>2, <1>3, <1>4, PyPacked

LEMMA PumpNextKeeps ==
  ASSUME PyInv, NEW up \in Answers, Py!PumpNext(up)
  PROVE  PyInv' /\ told' = told
  <1> DEFINE frame == PolledFrame(up)
  <1>1. /\ signal' = signal /\ start' = start /\ accepted' = accepted /\ pump = "next"
        /\ kill' = kill /\ pyQueue' = pyQueue /\ pyFree' = pyFree
        /\ pyReceiver' = pyReceiver /\ pyTerminal' = pyTerminal
        /\ pyReader' = pyReader /\ pyGot' = pyGot /\ pyYielded' = pyYielded /\ told' = told
        /\ pyCloser' = pyCloser /\ discarded' = discarded
    BY DEF Py!PumpNext, Py!queueVars, Py!readVars
  <1>2. CASE Py!Break("Aborted") /\ UNCHANGED <<events, seq, pyHeld>>
    <2>1. outcome' = "Aborted" /\ pump' = "publish"
      BY <1>2 DEF Py!Break
    <2>2. NumbersKept
      BY <1>1, <1>2, <2>1, NumbersStay DEF Holding
    <2> QED BY <1>1, <1>2, <2>2, PyBreakKeeps, PyUnpacked
  <1>3. CASE /\ FramePoll(up)
             /\ \/ /\ frame.type = "Event"
                   /\ pyHeld' = <<frame.seq, frame.size>> /\ pump' = "permit"
                   /\ UNCHANGED outcome
                \/ /\ frame.type = "End"
                   /\ Py!Break(Py!TerminalOf(frame))
                   /\ UNCHANGED pyHeld
    <2> HIDE DEF frame
    <2>1. CASE frame = EventFrame(seq, up.size) /\ up.size \in Nat
               /\ events' = "live" /\ seq' = seq + 1 /\ seq' \in 0 .. SeqMax
      <3>1. frame.seq = seq /\ frame.size = up.size /\ frame.type = "Event"
        BY <2>1 DEF EventFrame
      <3>2. pyHeld' = <<seq, up.size>> /\ pump' = "permit" /\ outcome' = outcome
        BY <1>3, <3>1
      <3>3. pyHeld' \in Pairs /\ pyHeld'[1] = seq
        BY <2>1, <3>2, PyUnpacked DEF Pairs
      <3>4. PyTypes'
        BY <1>1, <2>1, <3>2, <3>3, PyUnpacked DEF PyTypes, FrameTypes
      <3>5. StopInv'
        BY <1>1, Pumping DEF StopInv
      <3>6. WorkerInv'
        BY <1>1, <2>1, <3>2, Pumping, PyUnpacked DEF WorkerInv, Leaving
      <3>7. Lead' = Lead /\ pyHeld'[1] = seq' - 1 /\ Holding' /\ Taken' = Taken
        BY <1>1, <2>1, <3>2, <3>3, PyUnpacked DEF Lead, Holding, Taken
      <3>8. OrderInv'
        BY <1>1, <3>7, PyUnpacked DEF OrderInv
      <3>9. discarded' = "no" => GaplessInv'
        BY <1>1, <2>1, <3>2, <3>3, <3>7, Pumping, PyUnpacked DEF GaplessInv, Taken
      <3>10. Sending' = Sending /\ Reading' = Reading
        BY <1>1, <3>2 DEF Sending, Reading
      <3>11. Py!PermitsAreBalanced'
        BY <1>1, <3>10, PyUnpacked, Permits
      <3> QED BY <1>1, <3>4, <3>5, <3>6, <3>8, <3>9, <3>11, PyPacked DEF NumbersKept
    <2>2. ASSUME NEW o \in Outcomes, NEW z \in Nat, frame = EndFrame(seq, o, z),
                 events' = "gone", seq' = seq
          PROVE  PyInv'
      <3>1. frame.type = "End" /\ frame.outcome = o
        BY <2>2 DEF EndFrame
      <3>2. Py!TerminalOf(frame) \in {"Ok", "Error", "Aborted"}
        BY <3>1 DEF Py!TerminalOf, Outcomes
      <3>3. Py!Break(Py!TerminalOf(frame)) /\ pyHeld' = pyHeld
        BY <1>3, <3>1
      <3>4. pump' = "publish"
        BY <3>3 DEF Py!Break
      <3>5. NumbersKept
        BY <1>1, <2>2, <3>3, <3>4, NumbersStay DEF Holding
      <3> QED BY <1>1, <2>2, <3>2, <3>3, <3>5, PyBreakKeeps, PyUnpacked
    <2> QED BY <1>1, <1>3, <2>1, <2>2, PolledIs, PyUnpacked DEF frame
  <1> QED BY <1>2, <1>3, SameFrames DEF Py!PumpNext

LEMMA PumpPermitKeeps ==
  ASSUME PyInv, Py!PumpPermit
  PROVE  PyInv' /\ told' = told
  <1>1. /\ events' = events /\ signal' = signal /\ seq' = seq /\ start' = start
        /\ accepted' = accepted /\ pump = "permit" /\ pyHeld' = pyHeld /\ kill' = kill
        /\ pyQueue' = pyQueue /\ pyReceiver' = pyReceiver /\ pyTerminal' = pyTerminal
        /\ pyReader' = pyReader /\ pyGot' = pyGot /\ pyYielded' = pyYielded /\ told' = told
        /\ pyCloser' = pyCloser /\ discarded' = discarded
    BY DEF Py!PumpPermit, Py!frameVars, Py!readVars
  <1>2. CASE Py!Break("Aborted") /\ UNCHANGED pyFree
    <2>1. outcome' = "Aborted" /\ pump' = "publish"
      BY <1>2 DEF Py!Break
    <2>2. Sending = 0 /\ pyFree' = pyFree + Sending
      BY <1>1, <1>2, PyUnpacked DEF Sending
    <2>3. Holding /\ ~Holding'
      BY <1>1, <2>1 DEF Holding
    <2>4. NumbersKept /\ pyFree' \in Nat
      BY <1>1, <2>1, <2>2, <2>3, HeldIsLost
    <2> QED BY <1>1, <1>2, <2>4, PyBreakKeeps
  <1>3. CASE /\ pyHeld[2] <= pyFree /\ pyFree' = pyFree - pyHeld[2] /\ pump' = "send"
             /\ outcome' = outcome
    <2>1. pyFree' \in Nat /\ pyFree' = pyFree - pyHeld[2]
      BY <1>3, PyUnpacked
    <2>2. PyTypes'
      BY <1>1, <1>3, <2>1, PyUnpacked DEF PyTypes, FrameTypes
    <2>3. StopInv'
      BY <1>1, Pumping DEF StopInv
    <2>4. WorkerInv'
      BY <1>1, <1>3, Pumping, PyUnpacked DEF WorkerInv, Leaving
    <2>5. Lead' = Lead /\ Holding /\ Holding' /\ Taken' = Taken /\ Reading' = Reading
      BY <1>1, <1>3 DEF Lead, Holding, Taken, Reading
    <2>6. OrderInv'
      BY <1>1, <2>5, PyUnpacked DEF OrderInv
    <2>7. discarded' = "no" => GaplessInv'
      BY <1>1, <1>3, <2>5, PyUnpacked DEF GaplessInv
    <2>8. Py!PermitsAreBalanced'
      <3>1. Sending = 0 /\ Sending' = pyHeld[2]
        BY <1>1, <1>3 DEF Sending
      <3>2. Len(pyQueue) <= Items /\ Bytes = pyFree + TotalBytes(pyQueue) + 0 + Reading
        BY <3>1, PyUnpacked, Permits
      <3>3. Bytes = pyFree' + TotalBytes(pyQueue) + pyHeld[2] + Reading
        <4>1. Reading \in Nat /\ pyFree \in Nat /\ pyHeld[2] \in Nat
              /\ TotalBytes(pyQueue) \in Nat
          BY HandsAreNumbers, PyUnpacked
        <4>2. pyFree' = pyFree - pyHeld[2]
          BY <1>3
        <4> QED BY <3>2, <4>1, <4>2
      <3> QED BY <1>1, <2>1, <2>5, <3>1, <3>2, <3>3, Permits
    <2> QED BY <1>1, <2>2, <2>3, <2>4, <2>6, <2>7, <2>8, PyPacked DEF NumbersKept
  <1> QED BY <1>2, <1>3 DEF Py!PumpPermit

LEMMA PumpSendKeeps ==
  ASSUME PyInv, Py!PumpSend
  PROVE  PyInv' /\ told' = told
  <1>1. /\ events' = events /\ signal' = signal /\ seq' = seq /\ start' = start
        /\ accepted' = accepted /\ pump = "send" /\ pyHeld' = pyHeld /\ kill' = kill
        /\ pyReceiver' = pyReceiver /\ pyTerminal' = pyTerminal
        /\ pyReader' = pyReader /\ pyGot' = pyGot /\ pyYielded' = pyYielded /\ told' = told
        /\ pyCloser' = pyCloser /\ discarded' = discarded
    BY DEF Py!PumpSend, Py!frameVars, Py!readVars
  <1>2. CASE Py!Break("Aborted") /\ pyFree' = Py!FreeAfterDrop /\ pyQueue' = pyQueue
    <2>1. outcome' = "Aborted" /\ pump' = "publish"
      BY <1>2 DEF Py!Break
    <2>2. pyFree' = pyFree + Sending
      BY <1>1, <1>2 DEF Sending, Py!FreeAfterDrop
    <2>3. Holding /\ ~Holding'
      BY <1>1, <2>1 DEF Holding
    <2>4. NumbersKept /\ pyFree' \in Nat
      BY <1>1, <1>2, <2>1, <2>2, <2>3, HeldIsLost
    <2> QED BY <1>1, <1>2, <2>4, PyBreakKeeps
  <1>3. CASE /\ Py!HasRoom /\ pyQueue' = Append(pyQueue, pyHeld) /\ pump' = "next"
             /\ outcome' = outcome /\ pyFree' = pyFree
    <2>1. /\ pyQueue' \in Seq(Pairs) /\ Len(pyQueue') = Len(pyQueue) + 1
          /\ pyQueue'[Len(pyQueue) + 1] = pyHeld
          /\ \A i \in 1 .. Len(pyQueue) : pyQueue'[i] = pyQueue[i]
          /\ \A i \in 1 .. Len(pyQueue') : i \in 1 .. Len(pyQueue) \/ i = Len(pyQueue) + 1
      BY <1>3, PyUnpacked
    <2>2. TotalBytes(pyQueue') = TotalBytes(pyQueue) + pyHeld[2]
      BY <1>3, TotalOfAppend, PyUnpacked
    <2>3. PyTypes'
      BY <1>1, <1>3, <2>1, PyUnpacked DEF PyTypes, FrameTypes
    <2>4. StopInv'
      BY <1>1, Pumping DEF StopInv
    <2>5. WorkerInv'
      BY <1>1, <1>3, Pumping, PyUnpacked DEF WorkerInv, Leaving
    <2>6. Lead = seq - 1 /\ Lead' = seq /\ Holding /\ ~Holding' /\ Taken' = Taken
          /\ Taken \in Nat /\ Reading' = Reading
      BY <1>1, <1>3, PyUnpacked DEF Lead, Holding, Taken, Reading, Count
    <2>7. pyHeld[1] = seq - 1
      BY <2>6, PyUnpacked DEF OrderInv
    <2>8. \A n \in Nat : n < Lead => n < pyHeld[1] /\ n < seq
      BY <2>6, <2>7, PyUnpacked
    <2>9. /\ \A i \in 1 .. Len(pyYielded) : pyYielded[i] \in Nat
          /\ \A i \in 1 .. Len(pyQueue) : pyQueue[i][1] \in Nat
      <3>1. \A i \in 1 .. Len(pyQueue) : pyQueue[i] \in Pairs
        BY PyUnpacked
      <3>2. \A i \in 1 .. Len(pyYielded) : pyYielded[i] \in Nat
        BY PyUnpacked
      <3> QED BY <3>1, <3>2 DEF Pairs
    <2>10. OrderInv'
      <3>1. /\ \A i \in 1 .. Len(pyYielded) :
                  pyYielded[i] < pyHeld[1] /\ pyYielded[i] < seq
            /\ \A i \in 1 .. Len(pyQueue) :
                  pyQueue[i][1] < pyHeld[1] /\ pyQueue[i][1] < seq
            /\ pyReader = "popped" => pyGot[1] < pyHeld[1] /\ pyGot[1] < seq
            /\ pyHeld[1] < seq
        <4>1. /\ \A i \in 1 .. Len(pyYielded) : pyYielded[i] < Lead
              /\ \A i \in 1 .. Len(pyQueue) : pyQueue[i][1] < Lead
              /\ pyReader = "popped" => pyGot[1] < Lead
          BY PyUnpacked DEF OrderInv
        <4>2. pyGot[1] \in Nat /\ seq \in Nat
          BY PyUnpacked
        <4>3. pyHeld[1] < seq
          BY <2>7, <4>2
        <4> QED BY <2>8, <2>9, <4>1, <4>2, <4>3
      <3>2. \A i \in 1 .. Len(pyQueue') : pyQueue'[i][1] < seq
        BY <2>1, <3>1
      <3>3. \A i, j \in 1 .. Len(pyQueue') : i < j => pyQueue'[i][1] < pyQueue'[j][1]
        <4> SUFFICES ASSUME NEW i \in 1 .. Len(pyQueue'), NEW j \in 1 .. Len(pyQueue'), i < j
                     PROVE  pyQueue'[i][1] < pyQueue'[j][1]
          OBVIOUS
        <4>1. i \in 1 .. Len(pyQueue)
          BY <2>1, PyUnpacked
        <4>2. CASE j \in 1 .. Len(pyQueue)
          BY <2>1, <4>1, <4>2, PyUnpacked DEF OrderInv
        <4>3. CASE j = Len(pyQueue) + 1
          BY <2>1, <3>1, <4>1, <4>3
        <4> QED BY <2>1, <4>2, <4>3
      <3>4. \A i \in 1 .. Len(pyYielded), j \in 1 .. Len(pyQueue') :
               pyYielded[i] < pyQueue'[j][1]
        BY <2>1, <3>1, PyUnpacked DEF OrderInv
      <3>5. pyReader = "popped" => \A i \in 1 .. Len(pyQueue') : pyGot[1] < pyQueue'[i][1]
        BY <2>1, <3>1, PyUnpacked DEF OrderInv
      <3> QED BY <1>1, <2>6, <3>1, <3>2, <3>3, <3>4, <3>5, PyUnpacked DEF OrderInv
    <2>11. ASSUME discarded = "no"
           PROVE  GaplessInv'
      <3>1. GaplessInv /\ pyHeld[1] = Taken + Len(pyQueue)
        BY <2>6, <2>11, PyUnpacked DEF GaplessInv
      <3>2. seq = Taken + Len(pyQueue')
        <4>1. seq \in Nat /\ Len(pyQueue) \in Nat
          BY PyUnpacked
        <4> QED BY <2>1, <2>6, <2>7, <3>1, <4>1
      <3>3. \A i \in 1 .. Len(pyQueue') : pyQueue'[i][1] = Taken + i - 1
        <4> TAKE i \in 1 .. Len(pyQueue')
        <4>1. CASE i \in 1 .. Len(pyQueue)
          BY <4>1, <2>1, <3>1 DEF GaplessInv
        <4>2. CASE i = Len(pyQueue) + 1
          BY <4>2, <2>1, <2>6, <3>1, PyUnpacked
        <4> QED BY <2>1, <4>1, <4>2
      <3> QED BY <1>1, <1>3, <2>6, <3>1, <3>2, <3>3 DEF GaplessInv
    <2>12. Py!PermitsAreBalanced'
      <3>1. Sending = pyHeld[2] /\ Sending' = 0
        BY <1>1, <1>3 DEF Sending
      <3>2. Bytes = pyFree + TotalBytes(pyQueue) + pyHeld[2] + Reading
        BY <3>1, PyUnpacked, Permits
      <3>3. Bytes = pyFree + TotalBytes(pyQueue') + 0 + Reading
        BY <2>2, <3>2, HandsAreNumbers, PyUnpacked
      <3>4. Len(pyQueue') <= Items
        BY <1>3, <2>1, PyUnpacked, BridgeAssumption DEF Py!HasRoom
      <3>5. pyFree >= 0
        BY PyUnpacked
      <3> QED BY <1>3, <2>6, <3>1, <3>3, <3>4, <3>5, Permits
    <2> QED BY <1>1, <2>3, <2>4, <2>5, <2>10, <2>11, <2>12, PyPacked DEF NumbersKept
  <1> QED BY <1>2, <1>3 DEF Py!PumpSend

(* The outcomes that next reports.                                         *)
LEMMA ToldIs ==
  ASSUME PyInv
  PROVE  /\ Py!CancelledNow => Py!CancelledOutcome \in {"Error", "Aborted"}
         /\ Py!CancelledNow => /\ pyTerminal # "Ok"
                               /\ pyTerminal # "None" => Py!CancelledOutcome = pyTerminal
         /\ pyTerminal = "Ok" => Py!EofOutcome = "Stop"
         /\ pyTerminal \in {"Error", "Aborted"} => Py!EofOutcome = pyTerminal
  BY PyUnpacked DEF Py!CancelledNow, Py!CancelledOutcome, Py!EofOutcome, PyTypes

LEMMA NextCheckKeeps ==
  ASSUME PyInv, Py!NextCheck
  PROVE  PyInv'
  <1>1. /\ events' = events /\ signal' = signal /\ seq' = seq /\ start' = start
        /\ accepted' = accepted /\ pump' = pump /\ pyHeld' = pyHeld /\ outcome' = outcome
        /\ kill' = kill /\ pyQueue' = pyQueue /\ pyFree' = pyFree
        /\ pyReceiver' = pyReceiver /\ pyTerminal' = pyTerminal
        /\ pyGot' = pyGot /\ pyYielded' = pyYielded
        /\ pyCloser' = pyCloser /\ discarded' = discarded /\ pyReader = "check"
    BY DEF Py!NextCheck, Py!frameVars, Py!workerVars, Py!queueVars
  <1>2. /\ pyReader' \in {"idle", "recv"}
        /\ told' = told \/ told' \in {"Error", "Aborted"}
    BY ToldIs DEF Py!NextCheck
  <1>3. NumbersKept
    BY <1>1, <1>2, NumbersStay DEF Holding
  <1>4. PyTypes'
    BY <1>1, <1>2, PyUnpacked DEF PyTypes, FrameTypes
  <1>5. StopInv'
    BY <1>1, <1>2, PyUnpacked DEF StopInv, Py!SenderGone
  <1>6. WorkerInv'
    BY <1>1, <1>2, PyUnpacked DEF WorkerInv, Leaving
  <1> QED BY <1>3, <1>4, <1>5, <1>6, PyPacked

LEMMA PyRecvKeeps ==
  ASSUME PyInv, Py!NextRecv
  PROVE  PyInv' /\ told' = told
  <1>1. /\ events' = events /\ signal' = signal /\ seq' = seq /\ start' = start
        /\ accepted' = accepted /\ pump' = pump /\ pyHeld' = pyHeld /\ outcome' = outcome
        /\ kill' = kill /\ pyFree' = pyFree /\ told' = told
        /\ pyReceiver' = pyReceiver /\ pyTerminal' = pyTerminal /\ pyYielded' = pyYielded
        /\ pyCloser' = pyCloser /\ discarded' = discarded /\ pyReader = "recv"
    BY DEF Py!NextRecv, Py!frameVars, Py!workerVars
  <1>2. CASE /\ pyQueue # <<>> /\ pyGot' = Head(pyQueue) /\ pyQueue' = Tail(pyQueue)
             /\ pyReader' = "popped"
    <2>1. /\ pyQueue' \in Seq(Pairs) /\ pyGot' \in Pairs /\ pyGot'[2] \in Nat
          /\ TotalBytes(pyQueue') \in Nat
          /\ TotalBytes(pyQueue) = pyGot'[2] + TotalBytes(pyQueue')
      BY <1>2, TotalOfTail, PyUnpacked
    <2>2. /\ Len(pyQueue') = Len(pyQueue) - 1 /\ Len(pyQueue) >= 1 /\ pyGot' = pyQueue[1]
          /\ 1 \in 1 .. Len(pyQueue) /\ Len(pyQueue') \in Nat
          /\ \A i \in 1 .. Len(pyQueue') :
                pyQueue'[i] = pyQueue[i + 1] /\ i + 1 \in 1 .. Len(pyQueue) /\ 1 < i + 1
      BY <1>2, PyUnpacked
    <2>3. PyTypes'
      BY <1>1, <1>2, <2>1, PyUnpacked DEF PyTypes, FrameTypes
    <2>4. StopInv'
      BY <1>1, <1>2, PyUnpacked DEF StopInv
    <2>5. WorkerInv'
      BY <1>1, <1>2, PyUnpacked DEF WorkerInv, Leaving
    <2>6. /\ Lead' = Lead /\ Holding' = Holding /\ Sending' = Sending
          /\ Reading = 0 /\ Reading' = pyGot'[2]
      BY <1>1, <1>2 DEF Lead, Holding, Sending, Reading
    <2>7. OrderInv'
      <3>1. \A i, j \in 1 .. Len(pyQueue') : i < j => pyQueue'[i][1] < pyQueue'[j][1]
        <4> SUFFICES ASSUME NEW i \in 1 .. Len(pyQueue'), NEW j \in 1 .. Len(pyQueue'), i < j
                     PROVE  pyQueue'[i][1] < pyQueue'[j][1]
          OBVIOUS
        <4>1. i + 1 < j + 1 /\ i + 1 \in 1 .. Len(pyQueue) /\ j + 1 \in 1 .. Len(pyQueue)
          BY <2>2
        <4>2. pyQueue[i + 1][1] < pyQueue[j + 1][1]
          BY <4>1, PyUnpacked DEF OrderInv
        <4> QED BY <2>2, <4>2
      <3>2. \A i \in 1 .. Len(pyYielded), j \in 1 .. Len(pyQueue') :
               pyYielded[i] < pyQueue'[j][1]
        BY <2>2, PyUnpacked DEF OrderInv
      <3>3. \A i \in 1 .. Len(pyQueue') : pyQueue'[i][1] < Lead
        BY <2>2, PyUnpacked DEF OrderInv
      <3>4. /\ pyGot'[1] < Lead
            /\ \A i \in 1 .. Len(pyYielded) : pyYielded[i] < pyGot'[1]
        BY <2>2, PyUnpacked DEF OrderInv
      <3>5. \A i \in 1 .. Len(pyQueue') : pyGot'[1] < pyQueue'[i][1]
        <4> TAKE i \in 1 .. Len(pyQueue')
        <4>1. 1 < i + 1 /\ i + 1 \in 1 .. Len(pyQueue) /\ 1 \in 1 .. Len(pyQueue)
          BY <2>2
        <4>2. pyQueue[1][1] < pyQueue[i + 1][1]
          BY <4>1, PyUnpacked DEF OrderInv
        <4> QED BY <2>2, <4>2
      <3> QED BY <1>1, <2>6, <3>1, <3>2, <3>3, <3>4, <3>5, PyUnpacked DEF OrderInv
    <2>8. ASSUME discarded = "no"
          PROVE  GaplessInv'
      <3>1. GaplessInv
        BY <2>8, PyUnpacked
      <3>2. Taken = Len(pyYielded) /\ Taken' = Len(pyYielded) + 1
        BY <1>1, <1>2, PyUnpacked DEF Taken, Count
      <3>3. pyGot'[1] = Len(pyYielded)
        <4>1. pyQueue[1][1] = Taken + 1 - 1
          BY <2>2, <3>1 DEF GaplessInv
        <4> QED BY <2>2, <3>2, <4>1, PyUnpacked
      <3>4. \A i \in 1 .. Len(pyQueue') : pyQueue'[i][1] = Taken' + i - 1
        <4> TAKE i \in 1 .. Len(pyQueue')
        <4>1. pyQueue'[i][1] = Taken + (i + 1) - 1
          BY <2>2, <3>1 DEF GaplessInv
        <4> QED BY <2>2, <3>2, <4>1, PyUnpacked
      <3>5. Taken' + Len(pyQueue') = Taken + Len(pyQueue)
        BY <2>2, <3>2, PyUnpacked
      <3> QED BY <1>1, <2>6, <3>1, <3>3, <3>4, <3>5 DEF GaplessInv
    <2>9. Py!PermitsAreBalanced'
      <3>1. Len(pyQueue) <= Items /\ Bytes = pyFree + TotalBytes(pyQueue) + Sending + 0
        BY <2>6, PyUnpacked, Permits
      <3>2. Sending \in Nat /\ pyFree \in Nat
        BY HandsAreNumbers, PyUnpacked
      <3>3. Bytes = pyFree + TotalBytes(pyQueue') + Sending + pyGot'[2]
        BY <2>1, <3>1, <3>2
      <3>4. Len(pyQueue') <= Items
        BY <2>2, <3>1, BridgeAssumption, PyUnpacked
      <3> QED BY <1>1, <2>6, <3>2, <3>3, <3>4, Permits
    <2> QED BY <1>1, <2>3, <2>4, <2>5, <2>7, <2>8, <2>9, PyPacked DEF NumbersKept
  <1>3. CASE /\ pyQueue = <<>> /\ pyGot' = pyGot /\ pyQueue' = pyQueue
             /\ \/ pyReader' = "eof" /\ (Py!SenderGone \/ pyReceiver = "closed")
                \/ pyReader' = "slept"
    <2>1. NumbersKept
      BY <1>1, <1>3, NumbersStay DEF Holding
    <2>2. PyTypes'
      BY <1>1, <1>3, PyUnpacked DEF PyTypes, FrameTypes
    <2>3. StopInv'
      BY <1>1, <1>3, PyUnpacked DEF StopInv, Py!SenderGone, WorkerInv
    <2>4. WorkerInv'
      BY <1>1, <1>3, PyUnpacked DEF WorkerInv, Leaving
    <2> QED BY <1>1, <2>1, <2>2, <2>3, <2>4, PyPacked
  <1> QED BY <1>1, <1>2, <1>3 DEF Py!NextRecv

(* next ends without a result: an event in its hands is thrown away.       *)
LEMMA DropGotKeeps ==
  ASSUME PyInv, pyReader \in {"popped", "eof", "slept"}, pyReader' = "idle", Py!DropGot,
         UNCHANGED <<seq, pyHeld, pyQueue, pyYielded, pyGot, pump, outcome>>
  PROVE  /\ NumbersKept /\ pyFree' \in Nat /\ discarded' \in {"no", "yes"}
  <1>1. /\ seq' = seq /\ pyHeld' = pyHeld /\ pyQueue' = pyQueue /\ pyYielded' = pyYielded
        /\ pyGot' = pyGot /\ pump' = pump /\ outcome' = outcome
    OBVIOUS
  <1>2. CASE pyReader = "popped"
    <2>1. pyFree' = pyFree + pyGot[2] /\ discarded' = "yes"
      BY <1>2 DEF Py!DropGot
    <2>2. Lead' = Lead /\ Sending' = Sending /\ Reading = pyGot[2] /\ Reading' = 0
          /\ Holding' = Holding
      BY <1>1, <1>2 DEF Lead, Holding, Sending, Reading
    <2>3. OrderInv'
      BY <1>1, <2>2, PyUnpacked DEF OrderInv
    <2>4. pyFree' \in Nat
      BY <2>1, PyUnpacked
    <2>5. Py!PermitsAreBalanced'
      <3>1. /\ Len(pyQueue) <= Items
            /\ Bytes = pyFree + TotalBytes(pyQueue) + Sending + pyGot[2]
        BY <2>2, PyUnpacked, Permits
      <3>2. /\ Sending \in Nat /\ pyFree \in Nat /\ pyGot[2] \in Nat
            /\ TotalBytes(pyQueue) \in Nat
        BY HandsAreNumbers, PyUnpacked
      <3>3. Bytes = pyFree' + TotalBytes(pyQueue) + Sending + 0
        BY <2>1, <3>1, <3>2
      <3> QED BY <1>1, <2>2, <2>4, <3>1, <3>3, Permits
    <2> QED BY <2>1, <2>3, <2>4, <2>5 DEF NumbersKept
  <1>3. CASE pyReader # "popped"
    <2>1. pyFree' = pyFree /\ discarded' = discarded
      BY <1>3 DEF Py!DropGot
    <2>2. NumbersKept
      BY <1>1, <1>3, <2>1, NumbersStay DEF Holding
    <2> QED BY <2>1, <2>2, PyUnpacked DEF PyTypes
  <1> QED BY <1>2, <1>3

LEMMA NextInterruptedKeeps ==
  ASSUME PyInv, Py!NextInterrupted
  PROVE  PyInv' /\ told' = told
  <1>1. /\ events' = events /\ signal' = "aborted" /\ seq' = seq /\ start' = start
        /\ accepted' = accepted /\ pump' = pump /\ pyHeld' = pyHeld /\ outcome' = outcome
        /\ kill' = "yes" /\ told' = told /\ pyQueue' = pyQueue /\ pyGot' = pyGot
        /\ pyReceiver' = pyReceiver /\ pyTerminal' = pyTerminal /\ pyYielded' = pyYielded
        /\ pyCloser' = pyCloser /\ pyReader \in {"popped", "eof", "slept"}
        /\ pyReader' = "idle" /\ Py!DropGot
    BY DEF Py!NextInterrupted, Py!workerVars, Py!TaskCancel
  <1>2. NumbersKept /\ pyFree' \in Nat /\ discarded' \in {"no", "yes"}
    BY <1>1, DropGotKeeps
  <1>3. PyTypes'
    BY <1>1, <1>2, PyUnpacked DEF PyTypes, FrameTypes
  <1>4. StopInv'
    BY <1>1, PyUnpacked DEF StopInv, Py!SenderGone
  <1>5. WorkerInv'
    BY <1>1, PyUnpacked DEF WorkerInv, Leaving
  <1> QED BY <1>1, <1>2, <1>3, <1>4, <1>5, PyPacked

(* A drained channel comes with a terminal, or with the abort signal.      *)
LEMMA EofHasTerminal ==
  ASSUME PyInv, pyReader = "eof", ~Py!CancelledNow
  PROVE  Py!EofOutcome \in {"Stop", "Error", "Aborted"}
         /\ (Py!EofOutcome = "Stop" => pyTerminal = "Ok")
  <1>1. accepted = "ok" /\ Leaving
    BY PyUnpacked DEF WorkerInv, StopInv, Py!SenderGone, Leaving
  <1>2. pyTerminal # "None"
    BY <1>1, PyUnpacked DEF WorkerInv, Py!CancelledNow
  <1> QED BY <1>2, ToldIs, PyUnpacked DEF PyTypes

LEMMA NextResultKeeps ==
  ASSUME PyInv, Py!NextResult
  PROVE  PyInv'
  <1>1. /\ events' = events /\ signal' = signal /\ seq' = seq /\ start' = start
        /\ accepted' = accepted /\ pump' = pump /\ pyHeld' = pyHeld /\ outcome' = outcome
        /\ kill' = kill /\ pyQueue' = pyQueue /\ pyGot' = pyGot
        /\ pyReceiver' = pyReceiver /\ pyTerminal' = pyTerminal
        /\ pyCloser' = pyCloser /\ pyReader \in {"popped", "eof", "slept"}
    BY DEF Py!NextResult, Py!frameVars, Py!workerVars
  <1>2. WorkerInv'
    <2>1. pyReader' # "idle" => start' = "open"
      BY <1>1, PyUnpacked DEF WorkerInv
    <2> QED BY <1>1, <2>1, PyUnpacked DEF WorkerInv, Leaving
  <1>3. CASE /\ Py!CancelledNow /\ told' = Py!CancelledOutcome /\ pyReader' = "idle"
             /\ Py!DropGot /\ pyYielded' = pyYielded
    <2>1. NumbersKept /\ pyFree' \in Nat /\ discarded' \in {"no", "yes"}
      BY <1>1, <1>3, DropGotKeeps
    <2>2. told' \in {"Error", "Aborted"}
      BY <1>3, ToldIs
    <2>3. PyTypes'
      BY <1>1, <1>3, <2>1, <2>2, PyUnpacked DEF PyTypes, FrameTypes
    <2>4. StopInv'
      BY <1>3, <2>2 DEF StopInv
    <2> QED BY <1>2, <2>1, <2>3, <2>4, PyPacked
  <1>4. CASE /\ pyReader = "popped" /\ pyYielded' = Append(pyYielded, pyGot[1])
             /\ pyFree' = pyFree + pyGot[2] /\ pyReader' = "idle"
             /\ told' = told /\ discarded' = discarded
    <2>1. /\ pyYielded' \in Seq(Nat) /\ Len(pyYielded') = Len(pyYielded) + 1
          /\ pyYielded'[Len(pyYielded) + 1] = pyGot[1]
          /\ \A i \in 1 .. Len(pyYielded) : pyYielded'[i] = pyYielded[i]
          /\ \A i \in 1 .. Len(pyYielded') :
                i \in 1 .. Len(pyYielded) \/ i = Len(pyYielded) + 1
      BY <1>4, PyUnpacked
    <2>2. pyFree' \in Nat
      BY <1>4, PyUnpacked
    <2>3. PyTypes'
      BY <1>1, <1>4, <2>1, <2>2, PyUnpacked DEF PyTypes, FrameTypes
    <2>4. StopInv'
      BY <1>1, <1>4, PyUnpacked DEF StopInv
    <2>5. Lead' = Lead /\ Holding' = Holding /\ Sending' = Sending
          /\ Reading = pyGot[2] /\ Reading' = 0
      BY <1>1, <1>4 DEF Lead, Holding, Sending, Reading
    <2>6. OrderInv'
      <3>1. /\ \A i \in 1 .. Len(pyYielded) : pyYielded[i] < pyGot[1] /\ pyYielded[i] < Lead
            /\ pyGot[1] < Lead
            /\ \A j \in 1 .. Len(pyQueue) : pyGot[1] < pyQueue[j][1]
            /\ \A i \in 1 .. Len(pyYielded), j \in 1 .. Len(pyQueue) :
                  pyYielded[i] < pyQueue[j][1]
        BY <1>4, PyUnpacked DEF OrderInv
      <3>2. /\ \A i \in 1 .. Len(pyYielded') : pyYielded'[i] < Lead
            /\ \A i \in 1 .. Len(pyYielded'), j \in 1 .. Len(pyQueue) :
                  pyYielded'[i] < pyQueue[j][1]
        BY <2>1, <3>1
      <3>3. \A i, j \in 1 .. Len(pyYielded') : i < j => pyYielded'[i] < pyYielded'[j]
        <4> SUFFICES ASSUME NEW i \in 1 .. Len(pyYielded'), NEW j \in 1 .. Len(pyYielded'),
                            i < j
                     PROVE  pyYielded'[i] < pyYielded'[j]
          OBVIOUS
        <4>1. i \in 1 .. Len(pyYielded)
          BY <2>1, PyUnpacked
        <4>2. CASE j \in 1 .. Len(pyYielded)
          BY <2>1, <4>1, <4>2, PyUnpacked DEF OrderInv
        <4>3. CASE j = Len(pyYielded) + 1
          BY <2>1, <3>1, <4>1, <4>3
        <4> QED BY <2>1, <4>2, <4>3
      <3> QED BY <1>1, <1>4, <2>5, <3>2, <3>3, PyUnpacked DEF OrderInv
    <2>7. ASSUME discarded = "no"
          PROVE  GaplessInv'
      <3>1. GaplessInv /\ pyGot[1] = Len(pyYielded)
        BY <1>4, <2>7, PyUnpacked DEF GaplessInv
      <3>2. Taken' = Taken
        BY <1>4, <2>1, PyUnpacked DEF Taken, Count
      <3>3. \A i \in 1 .. Len(pyYielded') : pyYielded'[i] = i - 1
        <4> TAKE i \in 1 .. Len(pyYielded')
        <4>1. CASE i \in 1 .. Len(pyYielded)
          BY <4>1, <2>1, <3>1 DEF GaplessInv
        <4>2. CASE i = Len(pyYielded) + 1
          BY <4>2, <2>1, <3>1, PyUnpacked
        <4> QED BY <2>1, <4>1, <4>2
      <3> QED BY <1>1, <1>4, <2>5, <3>1, <3>2, <3>3 DEF GaplessInv
    <2>8. Py!PermitsAreBalanced'
      <3>1. /\ Len(pyQueue) <= Items
            /\ Bytes = pyFree + TotalBytes(pyQueue) + Sending + pyGot[2]
        BY <2>5, PyUnpacked, Permits
      <3>2. /\ Sending \in Nat /\ pyFree \in Nat /\ pyGot[2] \in Nat
            /\ TotalBytes(pyQueue) \in Nat
        BY HandsAreNumbers, PyUnpacked
      <3>3. pyFree' = pyFree + pyGot[2]
        BY <1>4
      <3>4. Bytes = pyFree' + TotalBytes(pyQueue) + Sending + 0
        BY <3>1, <3>2, <3>3
      <3> QED BY <1>1, <2>2, <2>5, <3>1, <3>4, Permits
    <2> QED BY <1>2, <1>4, <2>3, <2>4, <2>6, <2>7, <2>8, PyPacked DEF NumbersKept
  <1>5. CASE /\ ~Py!CancelledNow /\ pyReader = "eof" /\ told' = Py!EofOutcome
             /\ pyReader' = "idle" /\ UNCHANGED <<pyYielded, pyFree, discarded>>
    <2>1. NumbersKept
      BY <1>1, <1>5, NumbersStay DEF Holding
    <2>2. told' \in {"Stop", "Error", "Aborted"} /\ (told' = "Stop" => pyTerminal = "Ok")
      BY <1>5, EofHasTerminal
    <2>3. PyTypes'
      BY <1>1, <1>5, <2>2, PyUnpacked DEF PyTypes, FrameTypes
    <2>4. StopInv'
      BY <1>1, <1>5, <2>2, PyUnpacked DEF StopInv, Py!SenderGone
    <2> QED BY <1>2, <2>1, <2>3, <2>4, PyPacked
  <1>6. CASE /\ pyReader = "slept" /\ pyReader' = "check"
             /\ UNCHANGED <<told, pyYielded, pyFree, discarded>>
    <2>1. NumbersKept
      BY <1>1, <1>6, NumbersStay DEF Holding
    <2>2. PyTypes'
      BY <1>1, <1>6, PyUnpacked DEF PyTypes, FrameTypes
    <2>3. StopInv'
      BY <1>1, <1>6, PyUnpacked DEF StopInv, Py!SenderGone
    <2> QED BY <1>2, <2>1, <2>2, <2>3, PyPacked
  <1> QED BY <1>3, <1>4, <1>5, <1>6 DEF Py!NextResult

LEMMA PyDrainKeeps ==
  ASSUME PyInv, Py!CloseDrain
  PROVE  PyInv' /\ told' = told
  <1>1. /\ events' = events /\ signal' = signal /\ seq' = seq /\ start' = start
        /\ accepted' = accepted /\ pump' = pump /\ pyHeld' = pyHeld /\ outcome' = outcome
        /\ kill' = kill /\ told' = told /\ pyQueue' = <<>> /\ pyGot' = pyGot
        /\ pyReceiver' = "closed" /\ pyTerminal' = pyTerminal /\ pyYielded' = pyYielded
        /\ pyCloser' = "idle" /\ pyReader' = pyReader /\ pyCloser = "drain"
        /\ pyFree' = pyFree + TotalBytes(pyQueue)
        /\ discarded' = IF pyQueue = <<>> THEN discarded ELSE "yes"
    BY SameFrames
    DEF Py!CloseDrain, Py!frameVars, Py!workerVars, Py!readVars, Py!QueuedBytes
  <1>2. pump = "done"
    BY <1>1, PyUnpacked DEF WorkerInv
  <1>3. TotalBytes(<<>>) = 0 /\ <<>> \in Seq(Pairs) /\ Len(<<>>) = 0
    BY TotalOfNothing
  <1>4. pyFree' \in Nat /\ discarded' \in {"no", "yes"}
    BY <1>1, PyUnpacked DEF PyTypes
  <1>5. PyTypes'
    BY <1>1, <1>3, <1>4, PyUnpacked DEF PyTypes, FrameTypes
  <1>6. StopInv'
    BY <1>1, PyUnpacked DEF StopInv, Py!SenderGone
  <1>7. WorkerInv'
    BY <1>1, <1>2, PyUnpacked DEF WorkerInv, Leaving
  <1>8. Lead' = Lead /\ Holding' = Holding /\ Sending' = Sending /\ Reading' = Reading
        /\ Taken' = Taken
    BY <1>1 DEF Lead, Holding, Sending, Reading, Taken
  <1>9. OrderInv'
    BY <1>1, <1>3, <1>8, PyUnpacked DEF OrderInv
  <1>10. ASSUME discarded' = "no"
         PROVE  GaplessInv'
    <2>1. pyQueue = <<>> /\ pyQueue' = pyQueue /\ GaplessInv
      BY <1>1, <1>10, PyUnpacked
    <2> QED BY <1>1, <1>8, <2>1 DEF GaplessInv
  <1>11. Py!PermitsAreBalanced'
    <2>1. /\ Len(pyQueue) <= Items
          /\ Bytes = pyFree + TotalBytes(pyQueue) + Sending + Reading
      BY PyUnpacked, Permits
    <2>2. /\ Sending \in Nat /\ Reading \in Nat /\ pyFree \in Nat
          /\ TotalBytes(pyQueue) \in Nat /\ Len(pyQueue) \in Nat
      BY HandsAreNumbers, PyUnpacked
    <2>3. Bytes = pyFree' + 0 + Sending + Reading
      BY <1>1, <2>1, <2>2
    <2>4. Len(pyQueue') <= Items /\ TotalBytes(pyQueue') = 0
      BY <1>1, <1>3, BridgeAssumption
    <2> QED BY <1>4, <1>8, <2>3, <2>4, Permits
  <1> QED BY <1>1, <1>5, <1>6, <1>7, <1>9, <1>10, <1>11, PyPacked DEF NumbersKept

LEMMA PyKeeps ==
  ASSUME PyInv, Py!PyNext
  PROVE  PyInv'
  <1>1. CASE Py!WorkerNext
    BY <1>1, DispatchKeeps, PumpNextKeeps, PumpPermitKeeps, PumpSendKeeps, WorkerEndKeeps,
       KilledKeeps, SameFrames DEF Py!WorkerNext
  <1>2. CASE Py!ReadNext
    BY <1>2, PyQuietKeeps, NextCheckKeeps, PyRecvKeeps, NextInterruptedKeeps,
       NextResultKeeps DEF Py!ReadNext
  <1> QED BY <1>1, <1>2, PyQuietKeeps, PyDrainKeeps DEF Py!PyNext

LEMMA PySettles ==
  ASSUME PyInv, Py!PyNext
  PROVE  /\ pyTerminal = "Ok" => told' \in {told, "Stop"}
         /\ pyTerminal \in {"Error", "Aborted"} => told' \in {told, pyTerminal}
  <1>1. CASE told' = told
    BY <1>1
  <1>2. CASE Py!NextCheck
    BY <1>2, ToldIs DEF Py!NextCheck
  <1>3. CASE Py!NextResult
    BY <1>3, ToldIs DEF Py!NextResult
  <1>4. CASE Py!WorkerNext
    BY <1>1, <1>4, DispatchKeeps, PumpNextKeeps, PumpPermitKeeps, PumpSendKeeps,
       WorkerEndKeeps, KilledKeeps, SameFrames DEF Py!WorkerNext
  <1>5. CASE Py!ReadNext
    BY <1>1, <1>2, <1>3, <1>5, PyQuietKeeps, PyRecvKeeps, NextInterruptedKeeps
    DEF Py!ReadNext
  <1> QED BY <1>1, <1>4, <1>5, PyQuietKeeps, PyDrainKeeps DEF Py!PyNext

LEMMA PyIsSound ==
  ASSUME PyInv
  PROVE  NoLostTerminal /\ ReadsAreSound
  <1>1. NoLostTerminal
    BY PyUnpacked DEF NoLostTerminal, Py!NoLostTerminal, PyTypes
  <1>2. Py!EventsInOrder
    BY PyUnpacked DEF Py!EventsInOrder, OrderInv, GaplessInv
  <1>3. Py!StopIsComplete
    <2> SUFFICES ASSUME told = "Stop"
                 PROVE  /\ pyTerminal = "Ok" /\ events = "gone"
                        /\ discarded = "no" => Len(pyYielded) = seq
      BY DEF Py!StopIsComplete
    <2>1. /\ pyTerminal = "Ok" /\ outcome = "Ok" /\ events = "gone" /\ pyQueue = <<>>
          /\ pyReader # "popped"
      BY PyUnpacked DEF StopInv, WorkerInv
    <2>2. Taken = Len(pyYielded) /\ Len(pyQueue) = 0
      BY <2>1, PyUnpacked DEF Taken, Count
    <2>3. discarded = "no" => seq = Taken + Len(pyQueue)
      BY <2>1, PyUnpacked DEF GaplessInv
    <2> QED BY <2>1, <2>2, <2>3, PyUnpacked
  <1>4. Py!ClosedAfterWorker
    BY PyUnpacked DEF Py!ClosedAfterWorker, WorkerInv
  <1>5. Py!PermitsAreBalanced
    BY PyUnpacked
  <1> QED BY <1>1, <1>2, <1>3, <1>4, <1>5 DEF ReadsAreSound, Py!ReadsAreSound

-----------------------------------------------------------------------------
(* The three readers.                                                      *)

LEMMA ConsumersInit == Init => ConsumersInv
  <1>1. FrameInit => FrameTypes
    BY FrameAssumption DEF FrameInit, FrameTypes
  <1>2. <<0, 0>> \in Pairs /\ <<0, 0>>[2] = 0
    BY DEF Pairs
  <1>3. CInit => CInv
    BY <1>1 DEF CInit, CInv, AllEvents, FrameInit
  <1>4. BridgeInit => NodeInv
    <2> SUFFICES ASSUME BridgeInit
                 PROVE  NodeInv
      OBVIOUS
    <2>1. NodeTypes
      BY <1>1, <1>2, BridgeAssumption DEF BridgeInit, NodeTypes, NoFrame, SeenFrames
    <2>2. ClosedFirst /\ SlotsAreCounted /\ SuccessesAreLast
      BY BridgeAssumption DEF BridgeInit, ClosedFirst, SlotsAreCounted, HoldsSlot, Count,
         SuccessesAreLast, SuccessIsComplete, NoFrame
    <2>3. BudgetIsBalanced
      BY TotalOfNothing, BridgeAssumption
      DEF BridgeInit, BudgetIsBalanced, QueuedBytes, HoldsPermit, HoldsEntry
    <2>4. NodeCounts
      BY DEF BridgeInit, FrameInit, NodeCounts, AllEvents, Count, HoldsEntry, HoldsEvent
    <2>5. HandedIsNext /\ LateIsTurnedAway
      BY DEF BridgeInit, HandedIsNext, LateIsTurnedAway
    <2> QED BY <2>1, <2>2, <2>3, <2>4, <2>5 DEF NodeInv
  <1>5. Py!PyInit => PyInv
    <2> SUFFICES ASSUME Py!PyInit
                 PROVE  PyInv
      OBVIOUS
    <2>1. FrameTypes /\ seq = 0
      BY FrameAssumption DEF Py!PyInit, Py!FrameInit, FrameTypes
    <2>2. PyTypes
      BY <1>2, <2>1, BridgeAssumption DEF Py!PyInit, PyTypes
    <2>3. WorkerInv /\ StopInv
      BY DEF Py!PyInit, WorkerInv, StopInv, Leaving
    <2>4. OrderInv /\ GaplessInv
      BY <2>1 DEF Py!PyInit, OrderInv, GaplessInv, Lead, Holding, Taken, Count
    <2>5. Py!PermitsAreBalanced
      BY TotalOfNothing, BridgeAssumption, Permits DEF Py!PyInit, Sending, Reading
    <2> QED BY <2>2, <2>3, <2>4, <2>5 DEF PyInv
  <1> QED BY <1>3, <1>4, <1>5 DEF Init, ConsumersInv

LEMMA NoReaderStays ==
  /\ NoC /\ UNCHANGED cOnly => NoC'
  /\ NoNode /\ UNCHANGED nodeOnly => NoNode'
  /\ NoPython /\ UNCHANGED pyOnly => NoPython'
  <1>1. NoC /\ UNCHANGED cOnly => NoC'
    BY DEF NoC, cOnly
  <1>2. NoNode /\ UNCHANGED nodeOnly => NoNode'
    BY DEF NoNode, nodeOnly, producerVars, channelVars, readerVars
  <1>3. NoPython /\ UNCHANGED pyOnly => NoPython'
    BY DEF NoPython, pyOnly
  <1> QED BY <1>1, <1>2, <1>3

(* A step of the system is one of its reader, or changes nothing.          *)
LEMMA ConsumersStep ==
  ASSUME ConsumersInv, Next
  PROVE  /\ ConsumersInv'
         /\ [Callback!ProtocolNext]_delivered /\ [Iterator!ProtocolNext]_yielded
         /\ yielded' # yielded => asked = "open"
         /\ pyTerminal = "Ok" => told' \in {told, "Stop"}
         /\ pyTerminal \in {"Error", "Aborted"} => told' \in {told, pyTerminal}
  <1>1. UNCHANGED cOnly => delivered' = delivered
    BY DEF cOnly
  <1>2. UNCHANGED nodeOnly => yielded' = yielded
    BY DEF nodeOnly, readerVars
  <1>3. UNCHANGED pyOnly => told' = told
    BY DEF pyOnly
  <1>4. CASE adapter = "c" /\ CNext /\ UNCHANGED <<adapter, nodeOnly, pyOnly>>
    <2>1. CInv /\ NoNode /\ NoPython /\ adapter' = "c"
      BY <1>4 DEF ConsumersInv
    <2>2. UNCHANGED nodeOnly /\ UNCHANGED pyOnly
      BY <1>4
    <2>3. CInv' /\ [Callback!ProtocolNext]_delivered /\ NoNode' /\ NoPython'
      BY <1>4, <2>1, <2>2, CKeeps, NoReaderStays
    <2> QED BY <1>2, <1>3, <2>1, <2>2, <2>3 DEF ConsumersInv
  <1>5. CASE adapter = "node" /\ BridgeNext /\ UNCHANGED <<adapter, cOnly, pyOnly>>
    <2>1. NodeInv /\ NoC /\ NoPython /\ adapter' = "node"
      BY <1>5 DEF ConsumersInv
    <2>2. UNCHANGED cOnly /\ UNCHANGED pyOnly
      BY <1>5
    <2>3. NodeInv' /\ [Iterator!ProtocolNext]_yielded /\ NoC' /\ NoPython'
      BY <1>5, <2>1, <2>2, NodeKeeps, NoReaderStays
    <2>4. yielded' # yielded => asked = "open"
      BY <1>5, <2>1, OnlyAskedYield
    <2> QED BY <1>1, <1>3, <2>1, <2>2, <2>3, <2>4 DEF ConsumersInv
  <1>6. CASE adapter = "python" /\ Py!PyNext /\ UNCHANGED <<adapter, cOnly, nodeOnly>>
    <2>1. PyInv /\ NoC /\ NoNode /\ adapter' = "python"
      BY <1>6 DEF ConsumersInv
    <2>2. UNCHANGED cOnly /\ UNCHANGED nodeOnly
      BY <1>6
    <2>3. PyInv' /\ NoC' /\ NoNode'
      BY <1>6, <2>1, <2>2, PyKeeps, NoReaderStays
    <2>4. /\ pyTerminal = "Ok" => told' \in {told, "Stop"}
          /\ pyTerminal \in {"Error", "Aborted"} => told' \in {told, pyTerminal}
      BY <1>6, <2>1, PySettles
    <2> QED BY <1>1, <1>2, <2>1, <2>2, <2>3, <2>4 DEF ConsumersInv
  <1> QED BY <1>4, <1>5, <1>6 DEF Next

LEMMA ConsumersStutter ==
  ASSUME ConsumersInv, UNCHANGED vars
  PROVE  ConsumersInv'
  <1>1. /\ adapter' = adapter /\ UNCHANGED cOnly /\ UNCHANGED nodeOnly /\ UNCHANGED pyOnly
        /\ events' = events /\ signal' = signal /\ seq' = seq
    BY DEF vars, frameVars
  <1>2. CInv => CInv'
    BY <1>1 DEF CInv, FrameTypes, AllEvents, cOnly
  <1>3. NodeInv => NodeInv'
    BY <1>1 DEF NodeInv, NodeTypes, FrameTypes, ClosedFirst, NodeCounts, AllEvents,
       SlotsAreCounted, HoldsSlot, BudgetIsBalanced, QueuedBytes, SuccessesAreLast,
       SuccessIsComplete, HandedIsNext, LateIsTurnedAway, HoldsEntry, HoldsEvent,
       HoldsPermit, nodeOnly, producerVars, channelVars, readerVars
  <1>4. PyInv => PyInv'
    <2> SUFFICES ASSUME PyInv
                 PROVE  PyInv'
      OBVIOUS
    <2>1. /\ start' = start /\ accepted' = accepted /\ pump' = pump /\ outcome' = outcome
          /\ kill' = kill /\ told' = told /\ discarded' = discarded /\ pyHeld' = pyHeld
          /\ pyQueue' = pyQueue /\ pyFree' = pyFree /\ pyReceiver' = pyReceiver
          /\ pyTerminal' = pyTerminal /\ pyReader' = pyReader /\ pyGot' = pyGot
          /\ pyCloser' = pyCloser /\ pyYielded' = pyYielded
      BY <1>1 DEF pyOnly
    <2>2. NumbersKept
      BY <1>1, <2>1, NumbersStay DEF Holding
    <2>3. PyTypes' /\ WorkerInv' /\ StopInv'
      BY <1>1, <2>1, PyUnpacked
      DEF PyTypes, FrameTypes, WorkerInv, Leaving, StopInv, Py!SenderGone
    <2> QED BY <2>2, <2>3, PyPacked
  <1> QED BY <1>1, <1>2, <1>3, <1>4, NoReaderStays DEF ConsumersInv

(* Whichever reader a stream has, its invariant holds (CInv, NodeInv or    *)
(* PyInv), and the others stay as they are.                                *)
THEOREM ConsumersStaySound == FairSpec => []ConsumersInv
  <1>1. ConsumersInv /\ [Next]_vars => ConsumersInv'
    BY ConsumersStep, ConsumersStutter
  <1> QED BY <1>1, ConsumersInit, PTL DEF FairSpec

(* Node: between the upstream and JavaScript no event and no byte of the   *)
(* budget is lost, and a success is told after the last event only, for    *)
(* any capacity of the channel and any sizes.                              *)
THEOREM NodeLosesNothing == FairSpec => []NothingIsLost
  <1>1. ConsumersInv => NothingIsLost
    <2>1. NoNode => NothingIsLost
      BY TotalOfNothing, BridgeAssumption
      DEF NoNode, NothingIsLost, Lossless, BudgetIsBalanced, QueuedBytes,
          SuccessIsComplete, HoldsSlot, Count
    <2> QED BY <2>1, NodeIsSound DEF ConsumersInv
  <1> QED BY <1>1, ConsumersStaySound, PTL

(* Python: a drained channel always comes with a terminal.                 *)
THEOREM TerminalIsNeverLost == FairSpec => []NoLostTerminal
  <1>1. ConsumersInv => NoLostTerminal
    BY PyIsSound DEF ConsumersInv, NoPython, NoLostTerminal, Py!NoLostTerminal
  <1> QED BY <1>1, ConsumersStaySound, PTL

(* Python: events in order and gapless unless one was thrown away, a stop  *)
(* after the last of them only, every permit accounted for, and a channel  *)
(* that is closed under no worker.                                         *)
THEOREM PythonReadsAreSound == FairSpec => []ReadsAreSound
  <1>1. ConsumersInv => ReadsAreSound
    <2>1. NoPython => ReadsAreSound
      <3> SUFFICES ASSUME NoPython
                   PROVE  ReadsAreSound
        OBVIOUS
      <3>1. Py!PermitsAreBalanced
        BY TotalOfNothing, BridgeAssumption, Permits DEF NoPython, Sending, Reading
      <3> QED BY <3>1 DEF NoPython, ReadsAreSound, Py!ReadsAreSound, Py!EventsInOrder,
          Py!StopIsComplete, Py!ClosedAfterWorker
    <2> QED BY <2>1, PyIsSound DEF ConsumersInv
  <1> QED BY <1>1, ConsumersStaySound, PTL

(* Python: once the terminal is published, every next that reports an      *)
(* outcome reports that one (check_cancelled).                             *)
THEOREM SettledOutcomesStand == FairSpec => SettledOutcomePreserved
  <1>1. ConsumersInv /\ [Next]_vars =>
           [/\ pyTerminal = "Ok" => told' \in {told, "Stop"}
            /\ pyTerminal \in {"Error", "Aborted"} => told' \in {told, pyTerminal}]_Py!pyVars
    <2> SUFFICES ASSUME ConsumersInv, [Next]_vars
                 PROVE  /\ pyTerminal = "Ok" => told' \in {told, "Stop"}
                        /\ pyTerminal \in {"Error", "Aborted"} => told' \in {told, pyTerminal}
      OBVIOUS
    <2>1. UNCHANGED vars => told' = told
      BY DEF vars, pyOnly
    <2> QED BY <2>1, ConsumersStep
  <1> QED BY <1>1, ConsumersStaySound, PTL
      DEF FairSpec, SettledOutcomePreserved, Py!SettledOutcomePreserved

(* The C callback is given the frame protocol: zero-based numbers without  *)
(* a gap, then one End with the next number (aimux_stream).                *)
THEOREM CallbackRefinesProtocol == FairSpec => CallbackFollowsProtocol
  <1>1. Init => Callback!ProtocolInit
    BY DEF Init, CInit, NoC, Callback!ProtocolInit
  <1>2. ConsumersInv /\ [Next]_vars => [Callback!ProtocolNext]_delivered
    <2>1. UNCHANGED vars => delivered' = delivered
      BY DEF vars, cOnly
    <2> QED BY <2>1, ConsumersStep
  <1> QED BY <1>1, <1>2, ConsumersStaySound, PTL
      DEF FairSpec, CallbackFollowsProtocol, Callback!ProtocolSpec

(* The Node iterator yields the frame protocol, however close, abort, a    *)
(* full channel and the end of the stream race (bridge.rs).                *)
THEOREM IteratorRefinesProtocol == FairSpec => IteratorFollowsProtocol
  <1>1. Init => Iterator!ProtocolInit
    BY DEF Init, BridgeInit, NoNode, Iterator!ProtocolInit
  <1>2. ConsumersInv /\ [Next]_vars => [Iterator!ProtocolNext]_yielded
    <2>1. UNCHANGED vars => yielded' = yielded
      BY DEF vars, nodeOnly, readerVars
    <2> QED BY <2>1, ConsumersStep
  <1> QED BY <1>1, <1>2, ConsumersStaySound, PTL
      DEF FairSpec, IteratorFollowsProtocol, Iterator!ProtocolSpec

(* A next called after close() is given nothing, although the flag is read *)
(* one step before the frame is returned and an event may still be on its  *)
(* way into the channel.                                                   *)
THEOREM ClosedIsSilent == FairSpec => SilentAfterClose
  <1>1. ConsumersInv /\ [Next]_vars => [yielded' # yielded => asked = "open"]_bridgeVars
    <2>1. UNCHANGED vars => yielded' = yielded
      BY DEF vars, nodeOnly, readerVars
    <2> QED BY <2>1, ConsumersStep
  <1> QED BY <1>1, ConsumersStaySound, PTL DEF FairSpec, SilentAfterClose
=============================================================================
