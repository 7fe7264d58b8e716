-------------------------- MODULE StreamPumpProofs ---------------------------
(***************************************************************************)
(* Proofs about the pump of stream_text, the stream it feeds and the       *)
(* recorded outcome.                                                       *)
(***************************************************************************)
EXTENDS StreamPump, SequenceTheorems, TLAPS

Parts == {"start", "start-step", "part", "error", "bad", "fatal", "timeout",
          "abort", "finish-step", "finish"}
Reasons == {"running", "abort", "operation timeout", "chunk timeout",
            "terminal", "closed", "eof", "killed"}

USE DEF time, pumpVars, consumerVars, outcomeVars

-----------------------------------------------------------------------------
(* The clock *)

(* While the pump awaits the provider its deadline is the budget less what *)
(* was spent; while it waits for room, the deadline stands still.          *)
ClockInv ==
    /\ pump = "poll" => chunkAt + waited.spent = now + waited.budget
    /\ pump = "send" => /\ chunkAt + waited.spent = sendStarted + waited.budget
                        /\ sendStarted <= now
    /\ why # "running" => pump = "end"
    /\ ProviderTimeOnly

TimeTypes ==
    /\ now \in Nat /\ sendStarted \in Nat /\ chunkAt \in Nat
    /\ config \in [op : Nat, chunk : Nat]
    /\ waited \in [spent : Nat, budget : Nat]

LEMMA ClockInit == Init => TimeTypes /\ ClockInv
  <1> SUFFICES ASSUME Init PROVE TimeTypes /\ ClockInv
    OBVIOUS
  <1>1. OpDeadlines \subseteq Nat /\ FirstDeadlines \subseteq Nat
          /\ ChunkDurations \subseteq Nat
    BY PumpAssumption DEF Never
  <1>2. /\ now = 0 /\ sendStarted = 0 /\ chunkAt \in FirstDeadlines
        /\ config \in [op : OpDeadlines, chunk : ChunkDurations]
        /\ waited = [spent |-> 0, budget |-> chunkAt]
        /\ pump = "poll" /\ why = "running"
    BY DEF Init
  <1>3. TimeTypes
    BY <1>1, <1>2 DEF TimeTypes
  <1>4. waited.spent = 0 /\ waited.budget = chunkAt
    BY <1>2
  <1> QED BY <1>1, <1>2, <1>3, <1>4 DEF ClockInv, ProviderTimeOnly

(* A send charges the provider nothing, whether or not it had to wait. *)
LEMMA AfterSendClock ==
  ASSUME TimeTypes, NEW item, NEW blocked \in Nat, AfterSend(item, blocked),
         UNCHANGED <<now, config, sendStarted>>, why = "running",
         chunkAt + blocked + waited.spent = now + waited.budget
  PROVE  TimeTypes' /\ ClockInv'
  <1>1. CASE IsOutputChunk(item)
    <2>1. /\ chunkAt' = now + config.chunk
          /\ waited' = [spent |-> 0, budget |-> config.chunk]
          /\ (pump' = "end" /\ why' = "terminal") \/ (pump' = "poll" /\ why' = "running")
      BY <1>1 DEF AfterSend, EndPump
    <2>2. waited'.spent = 0 /\ waited'.budget = config.chunk /\ config.chunk \in Nat
      BY <2>1 DEF TimeTypes
    <2>3. TimeTypes'
      BY <2>1, <2>2 DEF TimeTypes
    <2>4. chunkAt' + waited'.spent = now' + waited'.budget
      <3>1. now \in Nat /\ now' = now
        BY DEF TimeTypes
      <3> QED BY <2>1, <2>2, <3>1
    <2> QED BY <2>1, <2>3, <2>4 DEF ClockInv, ProviderTimeOnly
  <1>2. CASE ~IsOutputChunk(item)
    <2>1. /\ chunkAt' = chunkAt + blocked /\ waited' = waited
          /\ (pump' = "end" /\ why' = "terminal") \/ (pump' = "poll" /\ why' = "running")
      BY <1>2 DEF AfterSend, EndPump
    <2>2. TimeTypes'
      BY <2>1 DEF TimeTypes
    <2> QED BY <2>1, <2>2 DEF TimeTypes, ClockInv, ProviderTimeOnly
  <1> QED BY <1>1, <1>2

LEMMA ClockStep ==
  ASSUME TimeTypes, ClockInv, Next
  PROVE  TimeTypes' /\ ClockInv'
  <1>1. CASE Tick
    <2>1. CASE pump = "poll"
      <3>1. /\ waited' = [waited EXCEPT !.spent = waited.spent + 1]
            /\ now' = now + 1
            /\ UNCHANGED <<pump, why, sendStarted, chunkAt, config>>
        BY <1>1, <2>1 DEF Tick
      <3>2. /\ waited' \in [spent : Nat, budget : Nat]
            /\ waited'.spent = waited.spent + 1 /\ waited'.budget = waited.budget
        BY <3>1 DEF TimeTypes
      <3>3. waited.spent \in Nat /\ waited.budget \in Nat
        BY DEF TimeTypes
      <3>4. TimeTypes'
        BY <3>1, <3>2 DEF TimeTypes
      <3>5. why = "running"
        BY <2>1 DEF ClockInv
      <3>6. chunkAt' + waited'.spent = now' + waited'.budget
        <4>1. now \in Nat /\ chunkAt \in Nat
          BY DEF TimeTypes
        <4>2. chunkAt + waited.spent = now + waited.budget
          BY <2>1 DEF ClockInv
        <4> QED BY <3>1, <3>2, <3>3, <4>1, <4>2
      <3> QED BY <2>1, <3>1, <3>4, <3>5, <3>6 DEF ClockInv, ProviderTimeOnly
    <2>2. CASE pump # "poll"
      <3>1. /\ waited' = waited /\ now' = now + 1
            /\ UNCHANGED <<pump, why, sendStarted, chunkAt, config>>
        BY <1>1, <2>2 DEF Tick
      <3>2. TimeTypes'
        BY <3>1 DEF TimeTypes
      <3>3. pump = "send" => sendStarted' <= now'
        BY <3>1 DEF TimeTypes, ClockInv
      <3> QED BY <2>2, <3>1, <3>2, <3>3 DEF ClockInv, ProviderTimeOnly
    <2> QED BY <2>1, <2>2
  <1>2. CASE PumpAborted \/ OperationTimeout \/ ProviderEnds \/ PumpKilled
    BY <1>2 DEF PumpAborted, OperationTimeout, ProviderEnds, PumpKilled,
      EndPump, TimeTypes, ClockInv, ProviderTimeOnly
  <1>3. CASE ChunkTimeout
    <2>1. /\ UNCHANGED <<now, sendStarted, chunkAt, config, waited>>
          /\ pump = "poll" /\ now >= chunkAt /\ pump' = "end"
      BY <1>3 DEF ChunkTimeout, EndPump
    <2>2. waited.spent >= waited.budget
      BY <2>1 DEF ClockInv, TimeTypes
    <2>3. TimeTypes'
      BY <2>1 DEF TimeTypes
    <2> QED BY <2>1, <2>2, <2>3 DEF ClockInv, ProviderTimeOnly
  <1>4. ASSUME NEW item \in Kinds, ProviderItem(item)
        PROVE  TimeTypes' /\ ClockInv'
    <2>1. CASE AfterSend(item, 0) /\ UNCHANGED <<pending, sendStarted>>
      <3>1. UNCHANGED <<now, config>> /\ why = "running"
        BY <1>4 DEF ProviderItem, ClockInv
      <3>2. chunkAt + 0 + waited.spent = now + waited.budget
        BY <1>4 DEF ProviderItem, ClockInv, TimeTypes
      <3> QED BY <2>1, <3>1, <3>2, AfterSendClock
    <2>2. CASE ~(AfterSend(item, 0) /\ UNCHANGED <<pending, sendStarted>>)
      <3>1. /\ UNCHANGED <<now, chunkAt, config, waited>> /\ pump = "poll"
            /\ \/ pump' = "end" /\ why' = "closed" /\ UNCHANGED sendStarted
               \/ pump' = "send" /\ why' = why /\ sendStarted' = now
        BY <1>4, <2>2 DEF ProviderItem, EndPump
      <3>2. TimeTypes'
        BY <3>1 DEF TimeTypes
      <3>3. pump' = "send" => sendStarted' <= now'
        BY <3>1 DEF TimeTypes
      <3> QED BY <3>1, <3>2, <3>3 DEF ClockInv, ProviderTimeOnly
    <2> QED BY <2>1, <2>2
  <1>5. CASE SendPending
    <2>1. CASE AfterSend(pending, now - sendStarted)
      <3>1. UNCHANGED <<now, config, sendStarted>> /\ why = "running"
        BY <1>5 DEF SendPending, ClockInv
      <3>2. /\ now - sendStarted \in Nat
            /\ chunkAt + (now - sendStarted) + waited.spent = now + waited.budget
        BY <1>5 DEF SendPending, ClockInv, TimeTypes
      <3> QED BY <2>1, <3>1, <3>2, AfterSendClock
    <2>2. CASE ~AfterSend(pending, now - sendStarted)
      BY <1>5, <2>2 DEF SendPending, EndPump, TimeTypes, ClockInv,
        ProviderTimeOnly
    <2> QED BY <2>1, <2>2
  <1>6. CASE Abort \/ Poll \/ DropStream
    BY <1>6 DEF Abort, Poll, DropStream, PollAbort, RecvItem, RecvClosed,
      RecvPending, Yield, EndOfStream, TimeTypes, ClockInv, ProviderTimeOnly
  <1> QED BY <1>1, <1>2, <1>3, <1>4, <1>5, <1>6 DEF Next, PumpStep

(* generate.rs, the pump: a first-chunk or chunk deadline fires only when  *)
(* that much time was spent awaiting the provider, whatever the channel's  *)
(* capacity and however long the consumer let it stay full.                *)
THEOREM ProviderTimeIsCharged == Spec => []ProviderTimeOnly
  <1>1. Init => TimeTypes /\ ClockInv
    BY ClockInit
  <1>2. TimeTypes /\ ClockInv /\ [Next]_vars => TimeTypes' /\ ClockInv'
    <2> SUFFICES ASSUME TimeTypes, ClockInv, [Next]_vars
                 PROVE  TimeTypes' /\ ClockInv'
      OBVIOUS
    <2>1. CASE UNCHANGED vars
      BY <2>1 DEF vars, TimeTypes, ClockInv, ProviderTimeOnly
    <2> QED BY <2>1, ClockStep
  <1>3. ClockInv => ProviderTimeOnly
    BY DEF ClockInv
  <1> QED BY <1>1, <1>2, <1>3, PTL DEF Spec

-----------------------------------------------------------------------------
(* The recorded outcome *)

(* What the user was handed so far. *)
Handed(parts) == \E i \in 1 .. Len(out) : out[i] \in parts

Endings == {"abort", "fatal", "timeout", "finish"}
Errors == {"error", "bad", "fatal", "timeout"}

(* The generator returned and everything it had to yield was taken. *)
Drained == consumer \in {"return", "done"} /\ todo = <<>>

OutTypes ==
    /\ consumer \in {"loop", "recv", "return", "done", "dropped"}
    /\ todo \in Seq(Parts) /\ out \in Seq(Parts) /\ suspended \in BOOLEAN
    /\ outcomes \in Seq({"success", "error", "incomplete", "cancelled"})

(* An ending is the last part there is, and the generator returns with it. *)
EndingsAreLast ==
    /\ consumer = "loop" =>
         \A i \in 1 .. Len(todo) :
             todo[i] \in {"start", "start-step", "part", "error", "bad"}
    /\ consumer \in {"recv", "done"} => todo = <<>>
    /\ consumer = "return" =>
         /\ Len(todo) <= 2
         /\ Len(todo) = 1 => todo[1] \in Endings \cup {"error"}
         /\ Len(todo) = 2 => todo[1] = "finish-step" /\ todo[2] = "finish"
    /\ ~Drained /\ consumer # "dropped" => ~Handed(Endings)
    /\ Drained => out # <<>> /\ Last(out) \in Endings \cup {"error"}

(* The observer has recorded nothing before the end, and remembers every   *)
(* error that was not the end.                                             *)
ObserverInv ==
    /\ outcomes = <<>> => /\ ~Handed({"finish", "fatal", "timeout"})
                          /\ consumer \notin {"done", "dropped"}
                          /\ suspended <=> Handed({"error", "bad"})
    /\ outcomes # <<>> => Drained \/ consumer = "dropped"

OutcomeInv == OutTypes /\ EndingsAreLast /\ ObserverInv /\ OutcomeMatchesStream

LEMMA HandedMore ==
  ASSUME out \in Seq(Parts), NEW p, out' = Append(out, p), NEW S
  PROVE  Handed(S)' <=> Handed(S) \/ p \in S
  <1>1. Len(out) \in Nat /\ Len(out') = Len(out) + 1
    OBVIOUS
  <1>2. \A i \in 1 .. Len(out) : out'[i] = out[i]
    OBVIOUS
  <1>3. out'[Len(out) + 1] = p
    OBVIOUS
  <1>4. 1 .. Len(out') = (1 .. Len(out)) \cup {Len(out) + 1}
    BY <1>1
  <1> HIDE DEF Parts
  <1> QED BY <1>1, <1>2, <1>3, <1>4 DEF Handed

(* Steps of the clock, the caller and the pump change nothing of this. *)
LEMMA OutcomeUntouched ==
  ASSUME OutcomeInv, UNCHANGED <<consumer, todo, out, suspended, outcomes>>
  PROVE  OutcomeInv'
  BY DEF OutcomeInv, OutTypes, EndingsAreLast, ObserverInv, Drained, Handed,
    OutcomeMatchesStream, ReceiverGone

(* Nor do the steps of the generator that end no stream.  *)
LEMMA OutcomeBefore ==
  ASSUME OutcomeInv, consumer \in {"loop", "recv"},
         UNCHANGED <<out, suspended, outcomes>>,
         consumer' \in {"loop", "recv", "return"}, todo' \in Seq(Parts),
         ~Drained', EndingsAreLast'
  PROVE  OutcomeInv'
  <1>1. outcomes = <<>>
    BY DEF OutcomeInv, ObserverInv, Drained
  <1>2. /\ ~Handed({"finish", "fatal", "timeout"})
        /\ suspended <=> Handed({"error", "bad"})
    BY <1>1 DEF OutcomeInv, ObserverInv
  <1>3. /\ ~Handed({"finish", "fatal", "timeout"})'
        /\ suspended' <=> Handed({"error", "bad"})'
    BY <1>2 DEF Handed
  <1>4. ObserverInv' /\ OutTypes'
    BY <1>1, <1>3 DEF ObserverInv, OutcomeInv, OutTypes
  <1>5. OutcomeMatchesStream'
    BY <1>1 DEF OutcomeInv, OutcomeMatchesStream, ReceiverGone
  <1> QED BY <1>4, <1>5 DEF OutcomeInv

LEMMA Tuples ==
  ASSUME NEW S
  PROVE  /\ <<>> \in Seq(S)
         /\ \A a \in S : /\ <<a>> \in Seq(S) /\ <<a>> # <<>>
                          /\ Len(<<a>>) = 1 /\ <<a>>[1] = a
         /\ \A a, b \in S : /\ <<a, b>> \in Seq(S) /\ <<a, b>> # <<>>
                             /\ Len(<<a, b>>) = 2
                             /\ <<a, b>>[1] = a /\ <<a, b>>[2] = b
  OBVIOUS

LEMMA TailOfTwo ==
  ASSUME NEW S, NEW s \in Seq(S), Len(s) = 2
  PROVE  Tail(s)[1] = s[2] /\ Len(Tail(s)) = 1
  <1>1. s # <<>>
    OBVIOUS
  <1>2. Len(Tail(s)) = 1 /\ \A i \in 1 .. Len(Tail(s)) : Tail(s)[i] = s[i + 1]
    BY <1>1, HeadTailProperties
  <1>3. 1 \in 1 .. Len(Tail(s)) /\ 1 + 1 = 2
    BY <1>2
  <1> QED BY <1>2, <1>3, Zenon

LEMMA PartsAreMiddle ==
  ASSUME NEW item, NEW parts \in PartsOf(item)
  PROVE  OpenStep(item) \o parts \in Seq({"start-step", "part", "error"})
  <1> DEFINE Mid == {"start-step", "part", "error"}
  <1>0. "start-step" \in Mid /\ "part" \in Mid /\ "error" \in Mid
    OBVIOUS
  <1>1. parts \in {<<>>, <<"part">>, <<"error">>, <<"part", "error">>}
    BY DEF PartsOf
  <1>2. OpenStep(item) \in {<<>>, <<"start-step">>}
    BY DEF OpenStep
  <1> HIDE DEF Mid
  <1>3. OpenStep(item) \o parts \in Seq(Mid)
    <2>t. /\ <<>> \in Seq(Mid) /\ <<"start-step">> \in Seq(Mid) /\ <<"part">> \in Seq(Mid)
          /\ <<"error">> \in Seq(Mid) /\ <<"part", "error">> \in Seq(Mid)
      BY <1>0
    <2>1. parts \in Seq(Mid)
      BY <1>1, <2>t, Zenon
    <2>2. OpenStep(item) \in Seq(Mid)
      BY <1>2, <2>t, Zenon
    <2> QED BY <2>1, <2>2
  <1> QED BY <1>3 DEF Mid

LEMMA GeneratorStep ==
  ASSUME OutcomeInv, PollAbort \/ RecvItem \/ RecvClosed \/ RecvPending
  PROVE  OutcomeInv'
  <1>0. /\ consumer \in {"loop", "recv"} /\ ~Handed(Endings) /\ out \in Seq(Parts)
        /\ UNCHANGED <<out, suspended, outcomes>>
        /\ consumer = "recv" => todo = <<>>
    BY DEF PollAbort, RecvItem, RecvClosed, RecvPending, OutcomeInv,
      EndingsAreLast, Drained, OutTypes
  <1>1. ~Handed(Endings)'
    BY <1>0 DEF Handed
  <1>a. {"abort", "timeout", "error", "finish-step", "finish"} \subseteq Parts
    BY DEF Parts
  <1>2. CASE PollAbort
    <2>1. \/ todo' = <<"abort">> /\ consumer' = "return"
          \/ consumer' = "recv" /\ todo' = <<>>
      BY <1>2 DEF PollAbort
    <2>2. /\ todo' \in Seq(Parts) /\ ~Drained'
          /\ consumer' = "return" => Len(todo') = 1 /\ todo'[1] = "abort"
      <3>1. CASE todo' = <<"abort">> /\ consumer' = "return"
        BY <1>a, <3>1 DEF Drained
      <3>2. CASE consumer' = "recv" /\ todo' = <<>>
        BY <3>2 DEF Drained
      <3> QED BY <2>1, <3>1, <3>2
    <2>3. EndingsAreLast'
      <3>1. CASE consumer' = "return"
        <4>1. todo'[1] \in Endings /\ Len(todo') = 1
          BY <2>2, <3>1 DEF Endings
        <4> QED BY <1>1, <2>2, <3>1, <4>1 DEF EndingsAreLast
      <3>2. CASE consumer' = "recv"
        BY <1>1, <2>1, <2>2, <3>2 DEF EndingsAreLast, Endings
      <3> QED BY <2>1, <3>1, <3>2
    <2> QED BY <1>0, <2>1, <2>2, <2>3, OutcomeBefore
  <1>3. CASE RecvItem
    <2>1. CASE Head(channel) \in {"bad", "fatal", "timeout"}
      <3>1. /\ todo' = <<Head(channel)>>
            /\ consumer' = IF Head(channel) = "bad" THEN "loop" ELSE "return"
        BY <1>3, <2>1 DEF RecvItem
      <3>2. todo' \in Seq(Parts) /\ ~Drained' /\ Len(todo') = 1
            /\ todo'[1] = Head(channel)
        BY <2>1, <3>1 DEF Parts, Drained
      <3>3. EndingsAreLast'
        BY <1>1, <2>1, <3>1, <3>2 DEF EndingsAreLast, Endings
      <3> QED BY <1>0, <3>1, <3>2, <3>3, OutcomeBefore
    <2>2. CASE Head(channel) \notin {"bad", "fatal", "timeout"}
      <3>1. /\ consumer' = "loop"
            /\ \E parts \in PartsOf(Head(channel)) :
                   todo' = OpenStep(Head(channel)) \o parts
        BY <1>3, <2>2 DEF RecvItem
      <3>2. todo' \in Seq({"start-step", "part", "error"})
        BY <3>1, PartsAreMiddle
      <3>3. todo' \in Seq(Parts)
        BY <3>2 DEF Parts
      <3>4. \A i \in 1 .. Len(todo') : todo'[i] \in {"start-step", "part", "error"}
        BY <3>2
      <3>5. EndingsAreLast' /\ ~Drained'
        BY <1>1, <3>1, <3>4 DEF EndingsAreLast, Drained
      <3> QED BY <1>0, <3>1, <3>3, <3>5, OutcomeBefore
    <2> QED BY <2>1, <2>2
  <1>4. CASE RecvClosed
    <2>1. /\ consumer' = "return"
          /\ todo' \in {<<"timeout">>, <<"error">>, <<"finish-step", "finish">>}
      BY <1>4 DEF RecvClosed
    <2>2. /\ todo' \in Seq(Parts) /\ ~Drained'
          /\ \/ Len(todo') = 1 /\ todo'[1] \in {"timeout", "error"}
             \/ Len(todo') = 2 /\ todo'[1] = "finish-step" /\ todo'[2] = "finish"
      BY <1>a, <2>1, Tuples DEF Drained
    <2>3. EndingsAreLast'
      <3>1. consumer' = "return"
        BY <2>1
      <3>2. CASE Len(todo') = 1 /\ todo'[1] \in {"timeout", "error"}
        <4>1. todo'[1] \in Endings \cup {"error"}
          BY <3>2 DEF Endings
        <4> QED BY <1>1, <2>2, <3>1, <3>2, <4>1 DEF EndingsAreLast
      <3>3. CASE Len(todo') = 2 /\ todo'[1] = "finish-step" /\ todo'[2] = "finish"
        BY <1>1, <2>2, <3>1, <3>3 DEF EndingsAreLast
      <3> QED BY <2>2, <3>2, <3>3
    <2> QED BY <1>0, <2>1, <2>2, <2>3, OutcomeBefore
  <1>5. CASE RecvPending
    <2>1. consumer' = "loop" /\ todo' = <<>>
      BY <1>0, <1>5 DEF RecvPending
    <2>2. todo' \in Seq(Parts) /\ ~Drained'
      BY <2>1 DEF Drained
    <2>3. EndingsAreLast'
      BY <1>1, <2>1, <2>2 DEF EndingsAreLast, Endings
    <2> QED BY <1>0, <2>1, <2>2, <2>3, OutcomeBefore
  <1> QED BY <1>2, <1>3, <1>4, <1>5

(* What is to be shown of a step that records success or an error. *)
LEMMA OneOutcome ==
  ASSUME outcomes' = <<"success">> \/ outcomes' = <<"error">>,
         Drained' \/ consumer' = "dropped",
         outcomes' = <<"success">> <=> ~Handed(Errors)',
         outcomes' = <<"success">> => Handed({"finish"})'
  PROVE  /\ ObserverInv' /\ OutcomeMatchesStream'
         /\ outcomes' \in Seq({"success", "error", "incomplete", "cancelled"})
  <1>1. /\ Len(outcomes') = 1 /\ outcomes' # <<>>
        /\ outcomes' \in Seq({"success", "error", "incomplete", "cancelled"})
    <2>1. CASE outcomes' = <<"success">>
      BY <2>1
    <2>2. CASE outcomes' = <<"error">>
      BY <2>2
    <2> QED BY <2>1, <2>2
  <1>2. ObserverInv'
    BY <1>1 DEF ObserverInv
  <1>3. /\ outcomes' # <<"incomplete">> /\ outcomes' # <<"cancelled">>
        /\ (outcomes' = <<"error">>) <=> Handed(Errors)'
    OBVIOUS
  <1>4. OutcomeMatchesStream'
    BY <1>1, <1>3 DEF OutcomeMatchesStream, Handed, Errors
  <1> QED BY <1>1, <1>2, <1>4

LEMMA YieldStep ==
  ASSUME OutcomeInv, Yield
  PROVE  OutcomeInv'
  <1> DEFINE p == Head(todo)
  <1>0. /\ todo # <<>> /\ todo \in Seq(Parts) /\ out \in Seq(Parts)
        /\ consumer \in {"loop", "return"} /\ consumer' = consumer
        /\ outcomes = <<>>
    BY DEF OutcomeInv, OutTypes, EndingsAreLast, Yield, ObserverInv, Drained
  <1>1. /\ p \in Parts /\ p = todo[1] /\ todo' = Tail(todo) /\ out' = Append(out, p)
        /\ Tail(todo) \in Seq(Parts) /\ Len(todo) >= 1
        /\ Len(Tail(todo)) = Len(todo) - 1 /\ Len(todo) \in Nat
        /\ \A i \in 1 .. Len(Tail(todo)) : Tail(todo)[i] = todo[i + 1]
    BY <1>0 DEF Yield
  <1>2. /\ ~Handed(Endings) /\ ~Handed({"finish", "fatal", "timeout"})
        /\ suspended <=> Handed({"error", "bad"})
    BY <1>0 DEF OutcomeInv, EndingsAreLast, ObserverInv, Drained
  <1>3. /\ out' \in Seq(Parts) /\ out' # <<>> /\ Last(out') = p
    BY <1>0, <1>1 DEF Last
  <1>4. /\ \A S : Handed(S)' <=> Handed(S) \/ p \in S
    BY <1>0, <1>1, HandedMore
  <1> HIDE DEF p
  <1>5. EndingsAreLast' /\ (Drained' <=> p \in Endings \/ (consumer = "return" /\ p = "error"))
    <2>1. CASE consumer = "loop"
      <3>1. p \in {"start", "start-step", "part", "error", "bad"}
        BY <1>0, <1>1, <2>1 DEF OutcomeInv, EndingsAreLast
      <3>2. \A i \in 1 .. Len(todo') :
              todo'[i] \in {"start", "start-step", "part", "error", "bad"}
        BY <1>0, <1>1, <2>1 DEF OutcomeInv, EndingsAreLast
      <3> QED BY <1>0, <1>2, <1>4, <2>1, <3>1, <3>2
              DEF EndingsAreLast, Drained, Endings
    <2>2. CASE consumer = "return" /\ Len(todo) = 1
      <3>1. p \in Endings \cup {"error"} /\ todo' = <<>>
        BY <1>0, <1>1, <2>2 DEF OutcomeInv, EndingsAreLast
      <3> QED BY <1>0, <1>3, <2>2, <3>1 DEF EndingsAreLast, Drained, Endings
    <2>3. CASE consumer = "return" /\ Len(todo) = 2
      <3>0. todo[1] = "finish-step" /\ todo[2] = "finish"
        BY <2>3 DEF OutcomeInv, EndingsAreLast
      <3>a. Len(todo') = 1
        BY <1>1, <2>3
      <3>1. p = "finish-step" /\ Len(todo') = 1 /\ todo'[1] = "finish"
        <4>1. Tail(todo)[1] = todo[2]
          BY <1>0, <2>3, TailOfTwo
        <4>2. p = todo[1] /\ todo' = Tail(todo)
          BY <1>1
        <4> QED BY <3>0, <3>a, <4>1, <4>2
      <3>2. ~Drained' /\ ~Handed(Endings)'
        BY <1>2, <1>4, <3>1 DEF Drained, Endings
      <3> QED BY <1>0, <2>3, <3>1, <3>2 DEF EndingsAreLast, Endings
    <2> QED BY <1>0, <1>1, <2>1, <2>2, <2>3 DEF OutcomeInv, EndingsAreLast
  <1>6. Observe(p)
    BY DEF Yield, p
  <1>7. p \in {"finish", "fatal", "timeout"} => Drained'
    BY <1>5 DEF Endings
  <1>8. CASE p = "finish"
    <2>1. outcomes' = <<IF suspended THEN "error" ELSE "success">> /\ suspended' = FALSE
      BY <1>0, <1>6, <1>8 DEF Observe, Record
    <2>2. Handed(Errors)' <=> suspended
      BY <1>2, <1>4, <1>8 DEF Errors, Handed
    <2>3. Handed({"finish"})'
      BY <1>4, <1>8
    <2>4. outcomes' = <<"success">> \/ outcomes' = <<"error">>
      BY <2>1
    <2>5. outcomes' = <<"success">> <=> ~Handed(Errors)'
      BY <2>1, <2>2
    <2> QED BY <1>0, <1>1, <1>3, <1>5, <1>7, <1>8, <2>1, <2>3, <2>4, <2>5, OneOutcome
            DEF OutcomeInv, OutTypes
  <1>9. CASE p \in {"fatal", "timeout"}
    <2>1. outcomes' = <<"error">> /\ suspended' = FALSE
      BY <1>0, <1>6, <1>9 DEF Observe, Record
    <2>2. Handed(Errors)'
      BY <1>4, <1>9 DEF Errors
    <2> QED BY <1>0, <1>1, <1>3, <1>5, <1>7, <1>9, <2>1, <2>2, OneOutcome
            DEF OutcomeInv, OutTypes
  <1>10. CASE p \in {"error", "bad"}
    <2>1. outcomes' = <<>> /\ suspended' = TRUE
      BY <1>0, <1>6, <1>10 DEF Observe
    <2>2. Handed({"error", "bad"})' /\ ~Handed({"finish", "fatal", "timeout"})'
      BY <1>2, <1>4, <1>10
    <2> QED BY <1>0, <1>1, <1>3, <1>5, <1>10, <2>1, <2>2
            DEF OutcomeInv, OutTypes, ObserverInv, OutcomeMatchesStream,
                ReceiverGone, Handed, Errors
  <1>11. CASE p \notin {"finish", "fatal", "timeout", "error", "bad"}
    <2>1. outcomes' = <<>> /\ suspended' = suspended
      BY <1>0, <1>6, <1>11 DEF Observe
    <2>2. /\ Handed({"error", "bad"})' <=> Handed({"error", "bad"})
          /\ ~Handed({"finish", "fatal", "timeout"})'
      BY <1>2, <1>4, <1>11
    <2> QED BY <1>0, <1>1, <1>2, <1>3, <1>5, <1>11, <2>1, <2>2
            DEF OutcomeInv, OutTypes, ObserverInv, OutcomeMatchesStream,
                ReceiverGone, Handed, Errors
  <1> QED BY <1>8, <1>9, <1>10, <1>11

LEMMA EndStep ==
  ASSUME OutcomeInv, EndOfStream
  PROVE  OutcomeInv'
  <1>0. /\ consumer = "return" /\ todo = <<>> /\ consumer' = "done"
        /\ UNCHANGED <<todo, out>> /\ Drained /\ Record("incomplete")
        /\ out # <<>> /\ Last(out) \in Endings \cup {"error"} /\ out \in Seq(Parts)
        /\ todo \in Seq(Parts)
    BY DEF EndOfStream, OutcomeInv, EndingsAreLast, Drained, OutTypes
  <1>1. Drained' /\ suspended' = FALSE
    BY <1>0 DEF Drained, Record
  <1>2. EndingsAreLast'
    BY <1>0, <1>1 DEF EndingsAreLast
  <1>3. \A S : Handed(S)' <=> Handed(S)
    BY <1>0 DEF Handed
  <1>4. CASE outcomes # <<>>
    <2>1. outcomes' = outcomes
      BY <1>0, <1>4 DEF Record
    <2>2. ObserverInv'
      BY <1>1, <1>4, <2>1 DEF ObserverInv
    <2>3. OutTypes'
      BY <1>0, <1>1, <2>1 DEF OutcomeInv, OutTypes
    <2>4. Len(outcomes) = 1
      <3>1. /\ Len(outcomes) <= 1
            /\ outcomes \in Seq({"success", "error", "incomplete", "cancelled"})
        BY DEF OutcomeInv, OutcomeMatchesStream, OutTypes
      <3> QED BY <1>4, <3>1
    <2>5. OutcomeMatchesStream'
      <3>1. OutcomeMatchesStream
        BY DEF OutcomeInv
      <3>2. outcomes = <<"cancelled">> => consumer = "dropped"
        BY <3>1 DEF OutcomeMatchesStream
      <3> QED BY <1>0, <2>1, <2>4, <3>1, <3>2 DEF OutcomeMatchesStream, Last
    <2> QED BY <1>2, <2>2, <2>3, <2>5 DEF OutcomeInv
  <1>5. CASE outcomes = <<>> /\ suspended
    <2>1. outcomes' = <<"error">>
      BY <1>0, <1>5 DEF Record
    <2>2. Handed(Errors)'
      <3>1. Handed({"error", "bad"})
        BY <1>5 DEF OutcomeInv, ObserverInv
      <3> QED BY <1>3, <3>1 DEF Handed, Errors
    <2> QED BY <1>0, <1>1, <1>2, <2>1, <2>2, OneOutcome DEF OutcomeInv, OutTypes
  <1>6. CASE outcomes = <<>> /\ ~suspended
    <2>1. outcomes' = <<"incomplete">>
      BY <1>0, <1>6 DEF Record
    <2>2. ~Handed({"error", "bad"}) /\ ~Handed({"finish", "fatal", "timeout"})
      BY <1>6 DEF OutcomeInv, ObserverInv
    <2>3. ~Handed(Errors) /\ ~Handed({"finish"})
      BY <2>2 DEF Handed, Errors
    <2>4. Last(out) = "abort"
      <3>1. Len(out) \in 1 .. Len(out)
        BY <1>0
      <3> QED BY <1>0, <2>2, <3>1 DEF Handed, Last, Endings
    <2>5. /\ Len(outcomes') = 1 /\ outcomes' # <<>>
          /\ outcomes' \in Seq({"success", "error", "incomplete", "cancelled"})
      BY <2>1
    <2>6. ObserverInv' /\ OutTypes'
      BY <1>0, <1>1, <2>5 DEF ObserverInv, OutTypes
    <2>7. OutcomeMatchesStream'
      <3>1. /\ ~Handed(Errors)' /\ ~Handed({"finish"})' /\ Last(out') = "abort"
            /\ outcomes' # <<"success">> /\ outcomes' # <<"error">>
            /\ outcomes' # <<"cancelled">>
        BY <1>0, <1>3, <2>1, <2>3, <2>4
      <3> QED BY <2>5, <3>1 DEF OutcomeMatchesStream, Handed, Errors
    <2> QED BY <1>2, <2>6, <2>7 DEF OutcomeInv
  <1>7. suspended \in BOOLEAN
    BY DEF OutcomeInv, OutTypes
  <1> QED BY <1>4, <1>5, <1>6, <1>7

LEMMA DropStep ==
  ASSUME OutcomeInv, DropStream
  PROVE  OutcomeInv'
  <1>0. /\ consumer' = "dropped" /\ UNCHANGED <<todo, out>>
        /\ out \in Seq(Parts) /\ todo \in Seq(Parts)
    BY DEF DropStream, OutcomeInv, OutTypes
  <1>1. ~Drained' /\ EndingsAreLast'
    BY <1>0 DEF Drained, EndingsAreLast
  <1>3. \A S : Handed(S)' <=> Handed(S)
    BY <1>0 DEF Handed
  <1>4. CASE outcomes # <<>>
    <2>1. UNCHANGED <<suspended, outcomes>>
      BY <1>4 DEF DropStream
    <2>2. ObserverInv'
      BY <1>0, <1>4, <2>1 DEF ObserverInv
    <2>3. OutTypes'
      BY <1>0, <1>1, <2>1 DEF OutcomeInv, OutTypes
    <2>4. Len(outcomes) = 1
      <3>1. /\ Len(outcomes) <= 1
            /\ outcomes \in Seq({"success", "error", "incomplete", "cancelled"})
        BY DEF OutcomeInv, OutcomeMatchesStream, OutTypes
      <3> QED BY <1>4, <3>1
    <2>5. OutcomeMatchesStream'
      <3>1. OutcomeMatchesStream
        BY DEF OutcomeInv
      <3>2. outcomes = <<"cancelled">> => consumer = "dropped"
        BY <3>1 DEF OutcomeMatchesStream
      <3> QED BY <1>0, <2>1, <2>4, <3>1, <3>2 DEF OutcomeMatchesStream, Last
    <2> QED BY <1>1, <2>2, <2>3, <2>5 DEF OutcomeInv
  <1>5. CASE outcomes = <<>> /\ suspended
    <2>1. outcomes' = <<"error">> /\ suspended' = FALSE
      BY <1>5 DEF DropStream, Record
    <2>2. Handed(Errors)'
      <3>1. Handed({"error", "bad"})
        BY <1>5 DEF OutcomeInv, ObserverInv
      <3> QED BY <1>3, <3>1 DEF Handed, Errors
    <2> QED BY <1>0, <1>1, <2>1, <2>2, OneOutcome DEF OutcomeInv, OutTypes
  <1>6. CASE outcomes = <<>> /\ ~suspended
    <2>1. outcomes' = <<"cancelled">> /\ suspended' = FALSE
      BY <1>6 DEF DropStream, Record
    <2>2. ~Handed({"error", "bad"}) /\ ~Handed({"finish", "fatal", "timeout"})
      BY <1>6 DEF OutcomeInv, ObserverInv
    <2>3. ~Handed(Errors) /\ ~Handed({"finish"})
      BY <2>2 DEF Handed, Errors
    <2>5. /\ Len(outcomes') = 1 /\ outcomes' # <<>>
          /\ outcomes' \in Seq({"success", "error", "incomplete", "cancelled"})
      BY <2>1
    <2>6. ObserverInv' /\ OutTypes'
      BY <1>0, <2>1, <2>5 DEF ObserverInv, OutTypes
    <2>7. OutcomeMatchesStream'
      <3>1. /\ ~Handed(Errors)' /\ ~Handed({"finish"})'
            /\ outcomes' # <<"success">> /\ outcomes' # <<"error">>
            /\ outcomes' # <<"incomplete">>
        BY <1>3, <2>1, <2>3
      <3> QED BY <1>0, <2>5, <3>1 DEF OutcomeMatchesStream, Handed, Errors
    <2> QED BY <1>1, <2>6, <2>7 DEF OutcomeInv
  <1>7. suspended \in BOOLEAN
    BY DEF OutcomeInv, OutTypes
  <1> QED BY <1>4, <1>5, <1>6, <1>7

LEMMA OutcomeInit == Init => OutcomeInv
  <1> SUFFICES ASSUME Init PROVE OutcomeInv
    OBVIOUS
  <1>1. /\ consumer = "loop" /\ todo = <<"start">> /\ out = <<>>
        /\ suspended = FALSE /\ outcomes = <<>>
    BY DEF Init
  <1>2. "start" \in Parts
    BY DEF Parts
  <1>3. todo \in Seq(Parts) /\ Len(todo) = 1 /\ todo[1] = "start"
    BY <1>1, <1>2
  <1>4. OutTypes
    <2>1. out \in Seq(Parts)
      BY <1>1
    <2>2. outcomes \in Seq({"success", "error", "incomplete", "cancelled"})
      BY <1>1
    <2>3. suspended \in BOOLEAN
      BY <1>1, Zenon
    <2> QED BY <1>1, <1>3, <2>1, <2>2, <2>3 DEF OutTypes
  <1>5. \A S : ~Handed(S)
    BY <1>1 DEF Handed
  <1>6. EndingsAreLast /\ ~Drained
    BY <1>1, <1>3, <1>5 DEF EndingsAreLast, Drained
  <1>7. ObserverInv
    BY <1>1, <1>5 DEF ObserverInv
  <1>8. OutcomeMatchesStream
    <2>1. ~Handed(Errors) /\ ~Handed({"finish"})
      BY <1>5
    <2>2. Len(outcomes) = 0 /\ outcomes # <<"success">> /\ outcomes # <<"cancelled">>
          /\ outcomes # <<"incomplete">>
      BY <1>1
    <2> QED BY <1>1, <2>1, <2>2 DEF OutcomeMatchesStream, ReceiverGone, Handed, Errors
  <1> QED BY <1>4, <1>6, <1>7, <1>8 DEF OutcomeInv

LEMMA OutcomeInvStep == OutcomeInv /\ [Next]_vars => OutcomeInv'
  <1> SUFFICES ASSUME OutcomeInv, [Next]_vars PROVE OutcomeInv'
    OBVIOUS
  <1>1. CASE \/ Tick \/ Abort \/ PumpStep \/ ProviderEnds \/ UNCHANGED vars
             \/ \E item \in Kinds : ProviderItem(item)
    <2>1. UNCHANGED <<consumer, todo, out, suspended, outcomes>>
      BY <1>1 DEF vars, Tick, Abort, PumpStep, PumpAborted, OperationTimeout,
        ChunkTimeout, SendPending, PumpKilled, ProviderEnds, ProviderItem
    <2> QED BY <2>1, OutcomeUntouched
  <1> QED BY <1>1, GeneratorStep, YieldStep, EndStep, DropStep DEF Next, Poll

(* RecordingOutcomeStream: exactly one outcome is recorded, and it tells   *)
(* what the user was handed, whatever the provider sends, whenever the     *)
(* caller aborts or drops the stream, and for any capacity and deadlines.  *)
THEOREM OutcomeIsTruthful == Spec => []OutcomeMatchesStream
  <1>1. Init => OutcomeInv
    BY OutcomeInit
  <1>2. OutcomeInv /\ [Next]_vars => OutcomeInv'
    BY OutcomeInvStep
  <1>3. OutcomeInv => OutcomeMatchesStream
    BY DEF OutcomeInv
  <1> QED BY <1>1, <1>2, <1>3, PTL DEF Spec

-----------------------------------------------------------------------------
(* How a stream ends *)

(* What the pump handed over. *)
Sent == received \o channel
Reading == consumer \in {"loop", "recv"}

Plain(s) == \A i \in 1 .. Len(s) : s[i] \in Items /\ ~IsTerminalItem(s[i])

(* Everything that arrived was handed over, except an item held back. *)
Whole(read) == arrived = IF HeldBack THEN Append(read, pending) ELSE read

(* A timed out pump handed over what had arrived, except an item that was  *)
(* still waiting for room, and then the timeout, by the channel or beside. *)
CutShort(read) ==
    /\ Plain(read) /\ Whole(read)
    /\ overflow => Sent = read
    /\ ~overflow => Sent = Append(read, "timeout")

(* While the generator reads, nothing that arrived is lost or reordered.   *)
FlowInv ==
    /\ pump = "poll" \/ why = "eof" => Sent = arrived /\ Plain(arrived) /\ ~overflow
    /\ pump = "send" => Append(Sent, pending) = arrived /\ Plain(Sent) /\ ~overflow
    /\ why = "terminal" => /\ Sent = arrived /\ arrived # <<>> /\ ~overflow
                           /\ IsTerminalItem(Last(arrived))
                           /\ \A i \in 1 .. Len(arrived) - 1 : ~IsTerminalItem(arrived[i])
    /\ TimedOut => \E read \in Seq(Items) : CutShort(read)
    /\ why = "abort" => Plain(Sent) /\ Whole(Sent) /\ ~overflow
    /\ why \notin {"closed", "killed"}

(* StreamStep tells what has been read. *)
StepInv ==
    /\ \A i \in 1 .. Len(received) : received[i] \notin {"fatal", "timeout"}
    /\ step.terminal <=>
         \E i \in 1 .. Len(received) : received[i] \in {"finish", "refused", "error"}
    /\ step.sawOutput <=>
         \E i \in 1 .. Len(received) : received[i] \in OutputItems

FinalPart == IF todo = <<>> THEN Last(out) ELSE Last(todo)

Verdict(final) ==
    /\ Whole(ReadItems)
    /\ final = CASE TimedOut -> "timeout"
                 [] why = "terminal" /\ Last(arrived) = "fatal" -> "fatal"
                 [] why \in {"eof", "abort"} /\ ~\E i \in DOMAIN received :
                      received[i] \in OutputItems \cup {"error"} -> "error"
                 [] OTHER -> "finish"

ReturnInv ==
    consumer \in {"return", "done"} /\ FinalPart # "abort" =>
        pump = "end" /\ Verdict(FinalPart)

FlowTypes ==
    /\ pump \in {"poll", "send", "end"} /\ why \in Reasons
    /\ pump = "end" <=> why # "running"
    /\ pump = "send" => pending \in Items
    /\ pump = "poll" => pending = "none"
    /\ arrived \in Seq(Items) /\ overflow \in BOOLEAN
    /\ channel \in Seq(Items \cup {"timeout"})
    /\ received \in Seq(Items \cup {"timeout"})
    /\ step \in [started : BOOLEAN, terminal : BOOLEAN, sawOutput : BOOLEAN]

EndInv == FlowTypes /\ (Reading => FlowInv /\ StepInv) /\ ReturnInv

LEMMA Narrowed ==
  ASSUME NEW S, NEW T, NEW s \in Seq(T), \A i \in 1 .. Len(s) : s[i] \in S
  PROVE  s \in Seq(S)
  <1>1. Len(s) \in Nat /\ s \in [1 .. Len(s) -> T]
    BY LenProperties
  <1>2. s \in [1 .. Len(s) -> S]
    BY <1>1
  <1> QED BY <1>1, <1>2, SeqDef, Zenon

LEMMA HeadAndTail ==
  ASSUME NEW T, NEW a \in Seq(T), NEW b \in Seq(T), b # <<>>
  PROVE  Append(a, Head(b)) \o Tail(b) = a \o b
  <1>1. /\ Len(b) \in Nat /\ Len(b) >= 1 /\ Len(a) \in Nat
        /\ Head(b) = b[1] /\ Head(b) \in T
        /\ Tail(b) \in Seq(T) /\ Len(Tail(b)) = Len(b) - 1
    OBVIOUS
  <1>2. \A i \in 1 .. Len(b) - 1 : Tail(b)[i] = b[i + 1]
    OBVIOUS
  <1> DEFINE l == Append(a, Head(b)) \o Tail(b)
             r == a \o b
             h == Append(a, Head(b))
  <1>3. h \in Seq(T) /\ Len(h) = Len(a) + 1
    BY <1>1
  <1>4. l \in Seq(T) /\ r \in Seq(T) /\ Len(l) = Len(a) + Len(b) /\ Len(r) = Len(a) + Len(b)
    BY <1>1, <1>3
  <1>5. ASSUME NEW i \in 1 .. Len(l) PROVE l[i] = r[i]
    <2>1. CASE i <= Len(a)
      <3>1. h[i] = a[i]
        BY <1>1, <1>4, <2>1
      <3>2. l[i] = h[i]
        BY <1>1, <1>3, <1>4, <2>1
      <3>3. r[i] = a[i]
        BY <1>1, <1>4, <2>1
      <3> QED BY <3>1, <3>2, <3>3
    <2>2. CASE i = Len(a) + 1
      <3>1. h[i] = b[1]
        BY <1>1, <2>2
      <3>2. l[i] = h[i]
        BY <1>1, <1>3, <1>4, <2>2
      <3>3. r[i] = b[1]
        BY <1>1, <1>4, <2>2
      <3> QED BY <3>1, <3>2, <3>3
    <2>3. CASE i > Len(a) + 1
      <3>1. l[i] = Tail(b)[i - (Len(a) + 1)]
        BY <1>1, <1>3, <1>4, <2>3
      <3>2. r[i] = b[i - Len(a)]
        BY <1>1, <1>4, <2>3
      <3>3. PICK j \in 1 .. Len(b) - 1 : j = i - (Len(a) + 1) /\ j + 1 = i - Len(a)
        <4>1. i \in Nat /\ i <= Len(a) + Len(b)
          BY <1>1, <1>4
        <4>2. i - (Len(a) + 1) \in 1 .. Len(b) - 1
              /\ (i - (Len(a) + 1)) + 1 = i - Len(a)
          BY <1>1, <2>3, <4>1
        <4> HIDE DEF l
        <4> QED BY <4>2
      <3> QED BY <1>2, <3>1, <3>2, <3>3
    <2> QED BY <1>1, <1>4, <2>1, <2>2, <2>3
  <1> HIDE DEF l, r
  <1>6. l = r
    BY <1>4, <1>5, SeqEqual
  <1> QED BY <1>6 DEF l, r

LEMMA SentMore ==
  ASSUME FlowTypes, NEW x \in Items \cup {"timeout"}, UNCHANGED received,
         channel' = Append(channel, x)
  PROVE  Sent' = Append(Sent, x)
  <1> DEFINE T == Items \cup {"timeout"}
  <1>1. received \in Seq(T) /\ channel \in Seq(T) /\ x \in T
    BY DEF FlowTypes
  <1> HIDE DEF T
  <1>2. received \o Append(channel, x) = Append(received \o channel, x)
    BY <1>1
  <1> QED BY <1>2 DEF Sent

LEMMA SentMoved ==
  ASSUME FlowTypes, channel # <<>>, channel' = Tail(channel),
         received' = Append(received, Head(channel))
  PROVE  /\ Sent' = Sent /\ Len(received) + 1 \in 1 .. Len(Sent)
         /\ Sent[Len(received) + 1] = Head(channel)
         /\ Len(received) + 1 = Len(Sent) => received' = Sent
         /\ Head(channel) \in Items \cup {"timeout"}
  <1> DEFINE T == Items \cup {"timeout"}
  <1>1. received \in Seq(T) /\ channel \in Seq(T)
    BY DEF FlowTypes
  <1> HIDE DEF T
  <1>2. Append(received, Head(channel)) \o Tail(channel) = received \o channel
    BY <1>1, HeadAndTail
  <1>3. /\ Len(received) + 1 \in 1 .. Len(received \o channel)
        /\ (received \o channel)[Len(received) + 1] = Head(channel)
        /\ Head(channel) \in T
    BY <1>1
  <1>4. Len(received) + 1 = Len(received \o channel) =>
          Append(received, Head(channel)) = received \o channel
    BY <1>1
  <1> QED BY <1>2, <1>3, <1>4 DEF Sent, T

LEMMA SentTypes ==
  ASSUME FlowTypes
  PROVE  Sent \in Seq(Items \cup {"timeout"})
  <1> DEFINE T == Items \cup {"timeout"}
  <1>1. received \in Seq(T) /\ channel \in Seq(T)
    BY DEF FlowTypes
  <1> HIDE DEF T
  <1>2. received \o channel \in Seq(T)
    BY <1>1
  <1> QED BY <1>2 DEF Sent, T

LEMMA AfterSendFlow ==
  ASSUME FlowTypes, NEW item \in Items, NEW blocked, AfterSend(item, blocked),
         why = "running", UNCHANGED <<received, overflow>>, ~overflow,
         channel' = Append(channel, item), arrived' \in Seq(Items),
         Append(Sent, item) = arrived', Plain(Sent)
  PROVE  FlowInv'
  <1>1. Sent' = arrived'
    BY SentMore
  <1>2. Sent \in Seq(Items \cup {"timeout"})
    BY SentTypes
  <1>3. /\ Len(arrived') = Len(Sent) + 1 /\ arrived'[Len(arrived')] = item
        /\ Len(Sent) \in Nat
        /\ \A i \in 1 .. Len(Sent) : arrived'[i] = Sent[i]
    BY <1>2
  <1>4. CASE IsTerminalItem(item)
    <2>1. pump' = "end" /\ why' = "terminal"
      BY <1>4 DEF AfterSend, EndPump
    <2>2. \A i \in 1 .. Len(arrived') - 1 : ~IsTerminalItem(arrived'[i])
      BY <1>3 DEF Plain
    <2>3. IsTerminalItem(Last(arrived'))
      BY <1>3, <1>4 DEF Last
    <2>4. arrived' # <<>>
      BY <1>3
    <2> QED BY <1>1, <2>1, <2>2, <2>3, <2>4 DEF FlowInv, TimedOut, Last, IsTerminalItem
  <1>5. CASE ~IsTerminalItem(item)
    <2>1. pump' = "poll" /\ why' = "running"
      BY <1>5 DEF AfterSend
    <2>2. Plain(arrived)'
      <3>1. \A i \in 1 .. Len(arrived') : i \in 1 .. Len(Sent) \/ i = Len(arrived')
        BY <1>3
      <3> QED BY <1>3, <1>5, <3>1 DEF Plain, IsTerminalItem
    <2> QED BY <1>1, <2>1, <2>2 DEF FlowInv, TimedOut
  <1> QED BY <1>4, <1>5

(* A timeout goes into the channel, or beside it when that is full. *)
LEMMA TimeoutFlow ==
  ASSUME FlowTypes, FlowInv, Reading, pump \in {"poll", "send"},
         SendTerminalErr, UNCHANGED <<received, arrived, pending>>, pump' = "end",
         \/ why' = "operation timeout"
         \/ why' = "chunk timeout" /\ pump = "poll"
  PROVE  FlowInv'
  <1>0. ~overflow /\ ~ReceiverGone /\ Sent \in Seq(Items \cup {"timeout"})
    BY SentTypes DEF FlowInv, Reading, ReceiverGone
  <1>1. \/ channel' = Append(channel, "timeout") /\ overflow' = overflow
        \/ channel' = channel /\ overflow' = TRUE
    BY <1>0 DEF SendTerminalErr
  <1>2. Plain(Sent) /\ Sent \in Seq(Items)
    <2>1. Plain(Sent)
      BY DEF FlowInv
    <2>2. \A i \in 1 .. Len(Sent) : Sent[i] \in Items
      BY <2>1 DEF Plain
    <2> QED BY <1>0, <2>1, <2>2, Narrowed
  <1>3. arrived' = IF HeldBack' THEN Append(Sent, pending') ELSE Sent
    <2>1. CASE pump = "poll"
      <3>1. Sent = arrived /\ pending' = "none" /\ ~HeldBack'
        BY <2>1 DEF FlowInv, FlowTypes, HeldBack
      <3> QED BY <3>1
    <2>2. CASE pump = "send"
      <3>1. Append(Sent, pending) = arrived /\ pending \in Items
        BY <2>2 DEF FlowInv, FlowTypes
      <3>2. HeldBack'
        BY <2>2, <3>1 DEF HeldBack, Items
      <3> QED BY <3>1, <3>2
    <2> QED BY <2>1, <2>2
  <1>4. PICK read \in Seq(Items) : read = Sent
    BY <1>2
  <1>5. CutShort(read)'
    <2>1. Plain(read)
      BY <1>2, <1>4
    <2>2. Whole(read)'
      BY <1>3, <1>4 DEF Whole
    <2>3. overflow' => Sent' = read
      BY <1>0, <1>1, <1>4 DEF Sent
    <2>4. ~overflow' => Sent' = Append(read, "timeout")
      BY <1>0, <1>1, <1>4, SentMore
    <2> QED BY <2>1, <2>2, <2>3, <2>4 DEF CutShort, Plain
  <1> QED BY <1>5 DEF FlowInv, TimedOut

LEMMA PumpFlow ==
  ASSUME FlowTypes, Reading, FlowInv,
         PumpStep \/ ProviderEnds \/ \E item \in Kinds : ProviderItem(item)
  PROVE  FlowInv'
  <1>0. ~ReceiverGone
    BY DEF Reading, ReceiverGone
  <1>1. CASE PumpAborted
    <2>1. /\ UNCHANGED <<received, channel, arrived, pending, overflow>>
          /\ pump \in {"poll", "send"} /\ pump' = "end" /\ why' = "abort"
      BY <1>1 DEF PumpAborted, EndPump
    <2>2. Sent' = Sent /\ Plain(Sent) /\ ~overflow
      BY <2>1 DEF Sent, FlowInv
    <2>3. Whole(Sent)'
      <3>1. CASE pump = "poll"
        <4>1. Sent = arrived /\ pending' = "none" /\ ~HeldBack'
          BY <2>1, <3>1 DEF FlowInv, FlowTypes, HeldBack
        <4> QED BY <2>1, <2>2, <4>1 DEF Whole
      <3>2. CASE pump = "send"
        <4>1. Append(Sent, pending) = arrived /\ pending \in Items
          BY <3>2 DEF FlowInv, FlowTypes
        <4>2. HeldBack'
          BY <2>1, <4>1 DEF HeldBack, Items
        <4> QED BY <2>1, <2>2, <4>1, <4>2 DEF Whole
      <3> QED BY <2>1, <3>1, <3>2
    <2>4. Plain(Sent)' /\ ~overflow'
      BY <2>1, <2>2 DEF Plain
    <2> QED BY <2>1, <2>3, <2>4 DEF FlowInv, TimedOut
  <1>2. CASE OperationTimeout \/ ChunkTimeout
    BY <1>2, TimeoutFlow DEF OperationTimeout, ChunkTimeout, EndPump
  <1>3. CASE ProviderEnds
    <2>1. /\ UNCHANGED <<received, channel, arrived, overflow>> /\ pump = "poll"
          /\ pump' = "end" /\ why' = "eof"
      BY <1>3 DEF ProviderEnds, EndPump
    <2> QED BY <2>1 DEF FlowInv, TimedOut, Sent, Plain
  <1>4. CASE PumpKilled
    BY <1>0, <1>4 DEF PumpKilled
  <1>5. CASE SendPending
    <2>1. /\ channel' = Append(channel, pending)
          /\ AfterSend(pending, now - sendStarted) /\ pump = "send"
          /\ UNCHANGED <<received, overflow, arrived>>
      BY <1>0, <1>5 DEF SendPending
    <2>2. /\ pending \in Items /\ why = "running" /\ ~overflow /\ arrived \in Seq(Items)
          /\ Append(Sent, pending) = arrived /\ Plain(Sent)
      BY <2>1 DEF FlowTypes, FlowInv
    <2> QED BY <2>1, <2>2, AfterSendFlow
  <1>6. ASSUME NEW item \in Kinds, ProviderItem(item)
        PROVE  FlowInv'
    <2>1. /\ pump = "poll" /\ arrived' = Append(arrived, item) /\ item \in Items
          /\ UNCHANGED <<received, overflow>> /\ why = "running" /\ ~overflow
          /\ Sent = arrived /\ Plain(arrived) /\ arrived \in Seq(Items)
      BY <1>6, PumpAssumption DEF ProviderItem, FlowTypes, FlowInv
    <2>2. arrived' \in Seq(Items)
      BY <2>1
    <2>3. CASE channel' = Append(channel, item) /\ AfterSend(item, 0)
      BY <2>1, <2>2, <2>3, AfterSendFlow
    <2>4. CASE pump' = "send" /\ pending' = item /\ UNCHANGED <<why, channel>>
      <3>1. Sent' = Sent
        BY <2>1, <2>4 DEF Sent
      <3>2. Append(Sent', pending') = arrived' /\ Plain(Sent)'
        BY <2>1, <2>4, <3>1 DEF Plain
      <3> QED BY <2>1, <2>4, <3>2 DEF FlowInv, TimedOut
    <2> QED BY <1>0, <1>6, <2>3, <2>4 DEF ProviderItem
  <1> QED BY <1>1, <1>2, <1>3, <1>4, <1>5, <1>6 DEF PumpStep

LEMMA FlowTypesStep ==
  ASSUME FlowTypes, Next
  PROVE  FlowTypes'
  <1> DEFINE T == Items \cup {"timeout"}
  <1>0. /\ channel \in Seq(T) /\ received \in Seq(T) /\ Items \subseteq T
        /\ "timeout" \in T /\ arrived \in Seq(Items)
    BY DEF FlowTypes
  <1>1. ASSUME NEW x \in T, channel' = Append(channel, x) PROVE channel' \in Seq(T)
    <2> HIDE DEF T
    <2> QED BY <1>0, <1>1
  <1>2. CASE Tick \/ Abort \/ ProviderEnds \/ PumpAborted \/ PumpKilled
    BY <1>2 DEF Tick, Abort, ProviderEnds, PumpAborted, PumpKilled, EndPump,
      FlowTypes, Reasons
  <1>3. CASE OperationTimeout \/ ChunkTimeout
    <2>1. /\ UNCHANGED <<pending, arrived, received, step>> /\ pump' = "end"
          /\ why' \in {"operation timeout", "chunk timeout"}
          /\ \/ UNCHANGED <<channel, overflow>>
             \/ channel' = Append(channel, "timeout") /\ UNCHANGED overflow
             \/ overflow' = TRUE /\ UNCHANGED channel
      BY <1>3 DEF OperationTimeout, ChunkTimeout, EndPump, SendTerminalErr
    <2>2. channel' \in Seq(T)
      BY <1>0, <1>1, <2>1
    <2> QED BY <2>1, <2>2 DEF FlowTypes, Reasons
  <1>4. ASSUME NEW item \in Kinds, ProviderItem(item) PROVE FlowTypes'
    <2>0. item \in Items /\ pump = "poll" /\ why = "running"
      BY <1>4, PumpAssumption DEF ProviderItem, FlowTypes
    <2>1. arrived' \in Seq(Items) /\ UNCHANGED <<overflow, received, step>>
      BY <1>0, <1>4, <2>0 DEF ProviderItem
    <2>2. channel' \in Seq(T)
      BY <1>0, <1>1, <1>4, <2>0 DEF ProviderItem
    <2>3. \/ pump' = "end" /\ why' \in {"closed", "terminal"}
          \/ pump' = "poll" /\ why' = "running" /\ pending' = pending
          \/ pump' = "send" /\ why' = "running" /\ pending' = item
      BY <1>4, <2>0 DEF ProviderItem, EndPump, AfterSend
    <2> QED BY <2>0, <2>1, <2>2, <2>3 DEF FlowTypes, Reasons
  <1>5. CASE SendPending
    <2>0. pending \in Items /\ pump = "send" /\ why = "running"
      BY <1>5 DEF SendPending, FlowTypes
    <2>1. UNCHANGED <<arrived, overflow, received, step>> /\ pending' = "none"
      BY <1>5 DEF SendPending
    <2>2. channel' \in Seq(T)
      BY <1>0, <1>1, <1>5, <2>0 DEF SendPending
    <2>3. \/ pump' = "end" /\ why' \in {"closed", "terminal"}
          \/ pump' = "poll" /\ why' = "running"
      BY <1>5, <2>0 DEF SendPending, EndPump, AfterSend
    <2> QED BY <2>1, <2>2, <2>3 DEF FlowTypes, Reasons
  <1>6. CASE RecvItem
    <2>1. /\ UNCHANGED <<pump, why, pending, arrived, overflow>>
          /\ channel # <<>> /\ channel' = Tail(channel)
          /\ received' = Append(received, Head(channel))
      BY <1>6 DEF RecvItem
    <2>2. channel' \in Seq(T) /\ received' \in Seq(T)
      <3> HIDE DEF T
      <3> QED BY <1>0, <2>1
    <2>3. step' \in [started : BOOLEAN, terminal : BOOLEAN, sawOutput : BOOLEAN]
      <3>1. step' = step \/ step' = StepAfter(Head(channel))
        BY <1>6 DEF RecvItem
      <3>2. StepAfter(Head(channel)) \in
              [started : BOOLEAN, terminal : BOOLEAN, sawOutput : BOOLEAN]
        BY DEF StepAfter, FlowTypes
      <3> QED BY <3>1, <3>2 DEF FlowTypes
    <2> QED BY <2>1, <2>2, <2>3 DEF FlowTypes
  <1>7. CASE PollAbort \/ RecvPending \/ Yield
    BY <1>7 DEF PollAbort, RecvPending, Yield, FlowTypes
  <1>8. CASE RecvClosed
    <2>1. UNCHANGED <<pump, why, pending, arrived, channel, received, step>>
          /\ overflow' = FALSE
      BY <1>8 DEF RecvClosed
    <2> QED BY <2>1 DEF FlowTypes
  <1>9. CASE EndOfStream \/ DropStream
    <2>1. UNCHANGED <<pump, why, pending, arrived, overflow, received, step>>
          /\ channel' = <<>>
      BY <1>9 DEF EndOfStream, DropStream
    <2>2. channel' \in Seq(T)
      BY <2>1
    <2> QED BY <2>1, <2>2 DEF FlowTypes
  <1> QED BY <1>2, <1>3, <1>4, <1>5, <1>6, <1>7, <1>8, <1>9
          DEF Next, PumpStep, Poll

(* An item that is read and does not end the stream. *)
LEMMA ReadOn ==
  ASSUME FlowTypes, FlowInv, StepInv, RecvItem, consumer' = "loop"
  PROVE  FlowInv' /\ StepInv'
  <1> DEFINE x == Head(channel)
  <1>1. /\ UNCHANGED <<pump, why, pending, arrived, overflow>>
        /\ channel # <<>> /\ channel' = Tail(channel)
        /\ received' = Append(received, x) /\ x \notin {"fatal", "timeout"}
    BY DEF RecvItem
  <1>2. Sent' = Sent /\ x \in Items \cup {"timeout"}
    BY <1>1, SentMoved
  <1>3. FlowInv'
    BY <1>1, <1>2 DEF FlowInv, TimedOut, CutShort, Plain, Whole, HeldBack
  <1>4. /\ received \in Seq(Items \cup {"timeout"})
        /\ step \in [started : BOOLEAN, terminal : BOOLEAN, sawOutput : BOOLEAN]
    BY DEF FlowTypes
  <1>5. /\ Len(received) \in Nat /\ Len(received') = Len(received) + 1
        /\ received'[Len(received) + 1] = x
        /\ \A i \in 1 .. Len(received) : received'[i] = received[i]
    BY <1>1, <1>2, <1>4
  <1> HIDE DEF x
  <1>6. 1 .. Len(received') = (1 .. Len(received)) \cup {Len(received) + 1}
    BY <1>5
  <1>7. \A S : (\E i \in 1 .. Len(received') : received'[i] \in S) <=>
                 (\E i \in 1 .. Len(received) : received[i] \in S) \/ x \in S
    BY <1>5, <1>6, Zenon
  <1>8. \A i \in 1 .. Len(received') : received'[i] \notin {"fatal", "timeout"}
    BY <1>1, <1>7 DEF StepInv
  <1>9. /\ step'.terminal <=> step.terminal \/ x \in {"finish", "refused", "error"}
        /\ step'.sawOutput <=> step.sawOutput \/ x \in OutputItems
    <2>1. CASE x = "bad"
      BY <1>4, <2>1 DEF RecvItem, x, OutputItems
    <2>2. CASE x # "bad"
      <3>1. step' = StepAfter(x)
        BY <1>1, <2>2 DEF RecvItem, x
      <3> QED BY <1>4, <3>1 DEF StepAfter, IsOutputChunk
    <2> QED BY <2>1, <2>2
  <1>10. StepInv'
    BY <1>7, <1>8, <1>9 DEF StepInv
  <1> QED BY <1>3, <1>10

LEMMA FrontOfAppend ==
  ASSUME NEW S, NEW a \in Seq(S), NEW x
  PROVE  /\ Front(Append(a, x)) = a /\ Last(Append(a, x)) = x
         /\ Append(a, x) # <<>>
  <1> DEFINE T == S \cup {x}
             b == Append(a, x)
  <1>0. a \in Seq(T) /\ x \in T
    <2>1. \A i \in 1 .. Len(a) : a[i] \in T
      OBVIOUS
    <2> QED BY <2>1, Narrowed
  <1> HIDE DEF T
  <1>1. /\ b \in Seq(T) /\ Len(b) = Len(a) + 1 /\ Len(a) \in Nat
        /\ b[Len(a) + 1] = x /\ \A i \in 1 .. Len(a) : b[i] = a[i]
    BY <1>0
  <1> HIDE DEF b
  <1>2. Last(b) = x /\ b # <<>>
    BY <1>1 DEF Last
  <1>3. Front(b) = a
    <2> DEFINE l == SubSeq(b, 1, Len(b) - 1)
    <2>1. l \in Seq(T) /\ Len(l) = Len(a) /\ \A i \in 1 .. Len(a) : l[i] = b[i]
      BY <1>1
    <2> HIDE DEF l
    <2>2. l = a
      BY <1>0, <1>1, <2>1, SeqEqual
    <2> QED BY <2>2 DEF Front, l
  <1> QED BY <1>2, <1>3 DEF b

(* A stream whose items were all read: no timeout is among them. *)
LEMMA AllRead ==
  ASSUME received' \in Seq(Items)
  PROVE  ReadItems' = received'
  <1>1. "timeout" \notin Items
    BY DEF Items
  <1>2. received' # <<>> => Last(received') \in Items
    BY DEF Last
  <1> QED BY <1>1, <1>2 DEF ReadItems

(* The verdict on a pump that timed out, by the channel or beside it. *)
LEMMA TimeoutVerdict ==
  ASSUME NEW read \in Seq(Items), TimedOut', Whole(read)',
         received' = read \/ received' = Append(read, "timeout")
  PROVE  Verdict("timeout")'
  <1>1. ReadItems' = read
    <2>1. CASE received' = read
      BY <2>1, AllRead
    <2>2. CASE received' = Append(read, "timeout")
      BY <2>2, FrontOfAppend DEF ReadItems
    <2> QED BY <2>1, <2>2
  <1>2. Whole(ReadItems)'
    BY <1>1 DEF Whole
  <1>3. /\ ~(why' = "terminal" /\ Last(arrived') = "fatal")
        /\ why' \notin {"eof", "abort"}
    BY DEF TimedOut
  <1> QED BY <1>2, <1>3 DEF Verdict

(* The item that ends the stream is the last there is. *)
LEMMA ReadLast ==
  ASSUME FlowTypes, FlowInv, RecvItem, Head(channel) \in {"fatal", "timeout"}
  PROVE  /\ pump' = "end"
         /\ \E f \in {"fatal", "timeout"} : f = Head(channel) /\ Verdict(f)'
  <1> DEFINE x == Head(channel)
             n == Len(received) + 1
  <1>1. /\ UNCHANGED <<pump, why, arrived, overflow, pending>>
        /\ channel # <<>> /\ channel' = Tail(channel)
        /\ received' = Append(received, x)
    BY DEF RecvItem
  <1>2. /\ n \in 1 .. Len(Sent) /\ Sent[n] = x
        /\ n = Len(Sent) => received' = Sent
    BY <1>1, SentMoved
  <1>3. "timeout" \notin Items /\ IsTerminalItem("fatal") /\ ~IsTerminalItem("timeout")
    BY DEF Items, IsTerminalItem
  <1>4. arrived \in Seq(Items) /\ \A i \in 1 .. Len(arrived) : arrived[i] \in Items
    BY DEF FlowTypes
  <1> HIDE DEF x, n
  <1>5. x \in {"fatal", "timeout"}
    BY DEF x
  <1>6. ~Plain(Sent)
    BY <1>2, <1>3, <1>5 DEF Plain
  <1>7. pump = "end" /\ (why = "terminal" \/ TimedOut)
    <2>1. pump \notin {"poll", "send"} /\ why \notin {"eof", "abort"}
      BY <1>6 DEF FlowInv
    <2> QED BY <2>1 DEF FlowInv, FlowTypes, Reasons, TimedOut
  <1>8. CASE why = "terminal"
    <2>1. /\ Sent = arrived /\ arrived # <<>>
          /\ \A i \in 1 .. Len(arrived) - 1 : ~IsTerminalItem(arrived[i])
      BY <1>8 DEF FlowInv
    <2>2. x = "fatal"
      BY <1>2, <1>3, <1>4, <1>5, <2>1
    <2>3. n = Len(arrived)
      <3>1. n \notin 1 .. Len(arrived) - 1
        BY <1>2, <1>3, <2>1, <2>2
      <3>2. Len(arrived) \in Nat /\ n \in 1 .. Len(arrived)
        BY <1>2, <1>4, <2>1
      <3> QED BY <3>1, <3>2
    <2>4. received' = arrived /\ Last(arrived) = "fatal" /\ ~TimedOut
      BY <1>2, <1>8, <2>1, <2>2, <2>3 DEF Last, TimedOut
    <2>5. ReadItems' = arrived /\ Whole(ReadItems)'
      BY <1>1, <1>8, <2>4 DEF ReadItems, Whole, HeldBack
    <2>6. Verdict("fatal")'
      BY <1>1, <1>8, <2>4, <2>5 DEF Verdict, TimedOut
    <2> QED BY <1>1, <1>7, <2>2, <2>6 DEF x
  <1>9. CASE TimedOut
    <2>1. PICK read \in Seq(Items) : CutShort(read)
      BY <1>9 DEF FlowInv
    <2>2. ~overflow /\ Sent = Append(read, "timeout")
      BY <1>6, <2>1 DEF CutShort, FlowTypes
    <2>3. /\ Len(Sent) = Len(read) + 1 /\ Len(read) \in Nat
          /\ \A i \in 1 .. Len(read) : Sent[i] = read[i]
      BY <2>2
    <2>4. n = Len(Sent)
      <3>1. n \notin 1 .. Len(read)
        BY <1>2, <1>3, <1>5, <2>1, <2>3 DEF CutShort, Plain
      <3> QED BY <1>2, <2>3, <3>1
    <2>5. received' = Append(read, "timeout") /\ x = "timeout"
      <3>1. Sent[Len(Sent)] = "timeout"
        BY <2>2, FrontOfAppend DEF Last
      <3> QED BY <1>2, <2>2, <2>4, <3>1
    <2>6. Verdict("timeout")'
      <3>1. TimedOut' /\ Whole(read)'
        BY <1>1, <1>9, <2>1 DEF CutShort, TimedOut, Whole, HeldBack
      <3> QED BY <2>5, <3>1, TimeoutVerdict
    <2> QED BY <1>1, <1>7, <2>5, <2>6 DEF x
  <1> QED BY <1>7, <1>8, <1>9

(* The channel is empty and its sender gone: everything handed over was    *)
(* read, and the last part tells why the pump ended.                       *)
LEMMA ReadClosed ==
  ASSUME FlowTypes, FlowInv, StepInv, RecvClosed
  PROVE  /\ pump' = "end" /\ todo' # <<>>
         /\ \E f \in {"timeout", "error", "finish"} : f = Last(todo') /\ Verdict(f)'
  <1>1. /\ UNCHANGED <<pump, why, arrived, received, pending>> /\ pump = "end"
        /\ channel = <<>>
    BY DEF RecvClosed
  <1>2. /\ arrived \in Seq(Items) /\ received \in Seq(Items \cup {"timeout"})
    BY DEF FlowTypes
  <1>3. Sent = received
    BY <1>1, <1>2 DEF Sent
  <1>4. CASE TimedOut
    <2>1. PICK read \in Seq(Items) : CutShort(read)
      BY <1>4 DEF FlowInv
    <2>2. overflow /\ received = read
      <3>1. CASE ~overflow
        <4>1. received = Append(read, "timeout")
          BY <1>3, <2>1, <3>1 DEF CutShort
        <4>2. received[Len(received)] = "timeout" /\ received # <<>>
          BY <4>1, FrontOfAppend DEF Last
        <4>3. Len(received) \in 1 .. Len(received)
          BY <1>2, <4>2
        <4> QED BY <4>2, <4>3 DEF StepInv
      <3>2. CASE overflow
        BY <1>3, <2>1, <3>2 DEF CutShort
      <3> QED BY <3>1, <3>2
    <2>3. todo' = <<"timeout">>
      BY <2>2 DEF RecvClosed
    <2>4. todo' # <<>> /\ Last(todo') = "timeout"
      BY <2>3 DEF Last
    <2>5. Verdict("timeout")'
      <3>1. TimedOut' /\ Whole(read)'
        BY <1>1, <1>4, <2>1 DEF CutShort, TimedOut, Whole, HeldBack
      <3> QED BY <1>1, <2>2, <3>1, TimeoutVerdict
    <2> QED BY <1>1, <2>4, <2>5
  <1>5. CASE ~TimedOut
    <2>1. /\ why \in {"eof", "terminal", "abort"} /\ ~overflow
          /\ why \in {"eof", "terminal"} => received = arrived
          /\ why \in {"eof", "abort"} => Plain(received)
      BY <1>1, <1>3, <1>5 DEF FlowInv, FlowTypes, Reasons, TimedOut
    <2>2. ~TimedOut' /\ Whole(ReadItems)'
      <3>1. Whole(received)
        BY <1>3, <2>1 DEF FlowInv, Whole, HeldBack
      <3>2. ReadItems' = received
        <4>1. received # <<>> => Len(received) \in 1 .. Len(received)
          BY <1>2
        <4>2. received # <<>> => Last(received) # "timeout"
          BY <4>1 DEF Last, StepInv
        <4> QED BY <1>1, <4>2 DEF ReadItems
      <3> QED BY <1>1, <1>5, <3>1, <3>2 DEF TimedOut, Whole, HeldBack
    <2>3. /\ ~step.terminal /\ ~step.sawOutput => todo' = <<"error">>
          /\ step.terminal \/ step.sawOutput => todo' = <<"finish-step", "finish">>
      BY <2>1 DEF RecvClosed
    <2>4. /\ todo' = <<"error">> => todo' # <<>> /\ Last(todo') = "error"
          /\ todo' = <<"finish-step", "finish">> =>
               todo' # <<>> /\ Last(todo') = "finish"
      BY DEF Last
    <2>5. CASE why = "terminal"
      <3>1. arrived # <<>> /\ IsTerminalItem(Last(arrived))
        BY <2>5 DEF FlowInv
      <3>2. Len(arrived) \in 1 .. Len(arrived) /\ Last(arrived) = arrived[Len(arrived)]
        BY <1>2, <3>1 DEF Last
      <3>3. Last(arrived) # "fatal"
        BY <2>1, <2>5, <3>2 DEF StepInv
      <3>4. step.terminal
        BY <2>1, <2>5, <3>1, <3>2, <3>3 DEF StepInv, IsTerminalItem
      <3>5. todo' # <<>> /\ Last(todo') = "finish"
        BY <2>3, <2>4, <3>4
      <3>6. Verdict("finish")'
        BY <1>1, <2>2, <2>5, <3>3 DEF Verdict
      <3> QED BY <1>1, <3>5, <3>6
    <2>6. CASE why \in {"eof", "abort"}
      <3>1. Plain(received)
        BY <2>1, <2>6
      <3>2. (\E i \in 1 .. Len(received) : received[i] \in OutputItems \cup {"error"}) <=>
              step.terminal \/ step.sawOutput
        <4>1. \A i \in 1 .. Len(received) : received[i] \notin {"finish", "refused"}
          BY <3>1 DEF Plain, IsTerminalItem
        <4>2. step.terminal <=> \E i \in 1 .. Len(received) : received[i] = "error"
          BY <4>1 DEF StepInv
        <4>3. step.sawOutput <=> \E i \in 1 .. Len(received) : received[i] \in OutputItems
          BY DEF StepInv
        <4> QED BY <4>2, <4>3
      <3>3. DOMAIN received' = 1 .. Len(received)
        BY <1>1, <1>2
      <3>4. CASE step.terminal \/ step.sawOutput
        <4>1. todo' # <<>> /\ Last(todo') = "finish"
          BY <2>3, <2>4, <3>4
        <4>2. \E i \in DOMAIN received' : received'[i] \in OutputItems \cup {"error"}
          BY <1>1, <3>2, <3>3, <3>4
        <4>3. Verdict("finish")'
          BY <1>1, <2>2, <2>6, <4>2 DEF Verdict
        <4> QED BY <1>1, <4>1, <4>3
      <3>5. CASE ~step.terminal /\ ~step.sawOutput
        <4>1. todo' # <<>> /\ Last(todo') = "error"
          BY <2>3, <2>4, <3>5
        <4>2. ~\E i \in DOMAIN received' : received'[i] \in OutputItems \cup {"error"}
          BY <1>1, <3>2, <3>3, <3>5
        <4>3. Verdict("error")'
          BY <1>1, <2>2, <2>6, <4>2 DEF Verdict
        <4> QED BY <1>1, <4>1, <4>3
      <3> QED BY <3>4, <3>5
    <2> QED BY <2>1, <2>5, <2>6
  <1> QED BY <1>4, <1>5

(* Once the generator has returned only what is left is yielded. *)
LEMMA ReturnStep ==
  ASSUME OutcomeInv, OutcomeInv', EndInv, Next
  PROVE  ReturnInv'
  <1> USE DEF EndInv
  <1> SUFFICES ASSUME consumer' \in {"return", "done"}, FinalPart' # "abort"
               PROVE  pump' = "end" /\ Verdict(FinalPart)'
    BY DEF ReturnInv
  <1>1. CASE UNCHANGED <<consumer, todo, out, pump, why, received, arrived, pending>>
    <2>1. pump = "end" /\ Verdict(FinalPart)
      BY <1>1 DEF ReturnInv, FinalPart
    <2> QED BY <1>1, <2>1 DEF Verdict, FinalPart, ReadItems, TimedOut, Whole, HeldBack
  <1>2. CASE PumpStep \/ ProviderEnds \/ \E item \in Kinds : ProviderItem(item)
    <2>1. UNCHANGED <<consumer, todo, out>> /\ pump # "end"
      BY <1>2 DEF PumpStep, PumpAborted, OperationTimeout, ChunkTimeout,
        SendPending, PumpKilled, ProviderEnds, ProviderItem
    <2> QED BY <2>1 DEF ReturnInv, FinalPart
  <1>3. CASE Tick \/ Abort
    BY <1>1, <1>3 DEF Tick, Abort
  <1>4. CASE Yield
    <2>1. /\ UNCHANGED <<consumer, pump, why, received, arrived, pending>>
          /\ todo # <<>> /\ todo' = Tail(todo) /\ out' = Append(out, Head(todo))
      BY <1>4 DEF Yield
    <2>2. /\ out \in Seq(Parts) /\ todo \in Seq(Parts) /\ consumer = "return"
          /\ Len(todo) \in {1, 2}
      <3>1. /\ consumer = "return" /\ out \in Seq(Parts) /\ todo \in Seq(Parts)
            /\ Len(todo) <= 2
        BY <2>1 DEF OutcomeInv, OutTypes, EndingsAreLast
      <3>2. Len(todo) \in Nat /\ Len(todo) # 0
        BY <2>1, <3>1
      <3>3. \A n \in Nat : n # 0 /\ n <= 2 => n \in {1, 2}
        OBVIOUS
      <3> QED BY <3>1, <3>2, <3>3, Zenon
    <2>3. FinalPart' = FinalPart
      <3>1. CASE Len(todo) = 1
        <4>1. todo' = <<>> /\ Head(todo) = todo[1] /\ Head(todo) \in Parts
          BY <2>1, <2>2, <3>1
        <4>2. Last(out') = todo[1]
          BY <2>1, <2>2, <4>1, FrontOfAppend
        <4> QED BY <2>1, <3>1, <4>1, <4>2 DEF FinalPart, Last
      <3>2. CASE Len(todo) = 2
        <4>1. todo'[1] = todo[2] /\ Len(todo') = 1
          BY <2>1, <2>2, <3>2, TailOfTwo
        <4>2. todo' # <<>>
          BY <4>1
        <4> QED BY <2>1, <3>2, <4>1, <4>2 DEF FinalPart, Last
      <3> QED BY <2>2, <3>1, <3>2
    <2>4. pump = "end" /\ Verdict(FinalPart)
      BY <2>1, <2>2, <2>3 DEF ReturnInv
    <2> QED BY <2>1, <2>3, <2>4 DEF Verdict, ReadItems, TimedOut, Whole, HeldBack
  <1>5. CASE EndOfStream
    <2>1. /\ UNCHANGED <<todo, out, pump, why, received, arrived, pending>>
          /\ consumer = "return"
      BY <1>5 DEF EndOfStream
    <2>2. pump = "end" /\ Verdict(FinalPart)
      BY <2>1 DEF ReturnInv, FinalPart
    <2> QED BY <2>1, <2>2 DEF Verdict, FinalPart, ReadItems, TimedOut, Whole, HeldBack
  <1>6. CASE DropStream \/ RecvPending
    BY <1>6 DEF DropStream, RecvPending
  <1>7. CASE PollAbort
    <2>1. todo' = <<"abort">>
      BY <1>7 DEF PollAbort
    <2>2. todo' # <<>> /\ Last(todo') = "abort"
      BY <2>1 DEF Last
    <2> QED BY <2>2 DEF FinalPart
  <1>8. CASE RecvItem
    <2>1. /\ Head(channel) \in {"fatal", "timeout"} /\ todo' = <<Head(channel)>>
          /\ why' = why /\ Reading
      BY <1>8 DEF RecvItem, Reading
    <2>2. PICK f \in {"fatal", "timeout"} : f = Head(channel) /\ Verdict(f)'
      BY <1>8, <2>1, ReadLast
    <2>3. pump' = "end"
      BY <1>8, <2>1, ReadLast
    <2>4. FinalPart' = f
      <3>1. todo' # <<>> /\ Last(todo') = f
        BY <2>1, <2>2 DEF Last
      <3> QED BY <3>1 DEF FinalPart
    <2> QED BY <2>2, <2>3, <2>4 DEF Verdict
  <1>9. CASE RecvClosed
    <2>1. why' = why /\ Reading
      BY <1>9 DEF RecvClosed, Reading
    <2>2. PICK f \in {"timeout", "error", "finish"} : f = Last(todo') /\ Verdict(f)'
      BY <1>9, <2>1, ReadClosed
    <2>3. pump' = "end" /\ todo' # <<>>
      BY <1>9, <2>1, ReadClosed
    <2>4. FinalPart' = f
      BY <2>2, <2>3 DEF FinalPart
    <2> QED BY <2>2, <2>3, <2>4 DEF Verdict
  <1> QED BY <1>2, <1>3, <1>4, <1>5, <1>6, <1>7, <1>8, <1>9 DEF Next, Poll

LEMMA EndInvStep ==
  ASSUME OutcomeInv, OutcomeInv', EndInv, Next
  PROVE  EndInv'
  <1>1. FlowTypes' /\ ReturnInv'
    BY FlowTypesStep, ReturnStep DEF EndInv
  <1>2. ASSUME Reading' PROVE FlowInv' /\ StepInv'
    <2>1. CASE PumpStep \/ ProviderEnds \/ \E item \in Kinds : ProviderItem(item)
      <3>1. UNCHANGED <<consumer, received, step>>
        BY <2>1 DEF PumpStep, PumpAborted, OperationTimeout, ChunkTimeout,
          SendPending, PumpKilled, ProviderEnds, ProviderItem
      <3>2. Reading
        BY <1>2, <3>1 DEF Reading
      <3> QED BY <2>1, <3>1, <3>2, PumpFlow DEF EndInv, StepInv
    <2>2. CASE RecvItem
      <3>1. Reading /\ consumer' = "loop"
        BY <1>2, <2>2 DEF RecvItem, Reading
      <3> QED BY <2>2, <3>1, ReadOn DEF EndInv
    <2>3. CASE EndOfStream \/ DropStream \/ RecvClosed
      BY <1>2, <2>3 DEF EndOfStream, DropStream, RecvClosed, Reading
    <2>4. CASE Tick \/ Abort \/ PollAbort \/ RecvPending \/ Yield
      <3>1. UNCHANGED <<pump, why, pending, arrived, channel, overflow, received, step>>
        BY <2>4 DEF Tick, Abort, PollAbort, RecvPending, Yield
      <3>2. Reading
        BY <1>2, <2>4 DEF Tick, Abort, PollAbort, RecvPending, Yield, Reading
      <3> QED BY <3>1, <3>2 DEF EndInv, FlowInv, StepInv, Sent, CutShort,
              TimedOut, Whole, HeldBack
    <2> QED BY <2>1, <2>2, <2>3, <2>4 DEF Next, Poll
  <1> QED BY <1>1, <1>2 DEF EndInv

(* generate.rs: the end a consumer reads is the end the pump met: of what  *)
(* arrived only an item that waited for room at an operation timeout or an *)
(* abort is missing, a timeout is never swallowed by a full channel, and a *)
(* stream that just stops is a finish exactly when it had output or an     *)
(* error part; for any capacity, deadlines and items.                      *)
THEOREM EndsAreFaithful == Spec => []EndMatchesCause
  <1>1. Init => OutcomeInv /\ EndInv
    <2> SUFFICES ASSUME Init PROVE EndInv
      BY OutcomeInit
    <2>1. /\ pump = "poll" /\ why = "running" /\ arrived = <<>> /\ channel = <<>>
          /\ consumer = "loop" /\ received = <<>> /\ pending = "none"
          /\ step = [started |-> FALSE, terminal |-> FALSE, sawOutput |-> FALSE]
      BY DEF Init
    <2>2. overflow = FALSE
      BY DEF Init
    <2>3. /\ arrived \in Seq(Items) /\ channel \in Seq(Items \cup {"timeout"})
          /\ received \in Seq(Items \cup {"timeout"}) /\ Sent = <<>>
          /\ Len(arrived) = 0 /\ Len(received) = 0
      BY <2>1 DEF Sent
    <2>4. /\ step \in [started : BOOLEAN, terminal : BOOLEAN, sawOutput : BOOLEAN]
          /\ ~step.terminal /\ ~step.sawOutput
      BY <2>1
    <2>5. FlowTypes
      BY <2>1, <2>2, <2>3, <2>4 DEF FlowTypes, Reasons
    <2>6. FlowInv
      BY <2>1, <2>2, <2>3 DEF FlowInv, TimedOut, Plain
    <2>7. StepInv
      BY <2>3, <2>4 DEF StepInv
    <2>8. ReturnInv
      BY <2>1 DEF ReturnInv
    <2> QED BY <2>5, <2>6, <2>7, <2>8 DEF EndInv
  <1>2. OutcomeInv /\ OutcomeInv' /\ EndInv /\ [Next]_vars => EndInv'
    <2>1. ASSUME OutcomeInv, EndInv, UNCHANGED vars PROVE EndInv'
      <3>1. UNCHANGED <<pump, why, pending, arrived, channel, overflow,
                        consumer, todo, step, received, out>>
        BY <2>1 DEF vars
      <3>2. FlowTypes'
        BY <2>1, <3>1 DEF EndInv, FlowTypes
      <3>3. Reading' => FlowInv'
        BY <2>1, <3>1 DEF EndInv, Reading, FlowInv, Sent, CutShort, TimedOut,
          Whole, HeldBack
      <3>4. Reading' => StepInv'
        BY <2>1, <3>1 DEF EndInv, Reading, StepInv
      <3>5. ReturnInv'
        BY <2>1, <3>1 DEF EndInv, ReturnInv, FinalPart, Verdict, ReadItems,
          TimedOut, Whole, HeldBack
      <3> QED BY <3>2, <3>3, <3>4, <3>5 DEF EndInv
    <2> QED BY <2>1, EndInvStep
  <1>3. OutcomeInv /\ [Next]_vars => OutcomeInv'
    BY OutcomeInvStep
  <1>4. OutcomeInv /\ EndInv => EndMatchesCause
    <2> SUFFICES ASSUME OutcomeInv, EndInv, Ended, Last(out) # "abort"
                 PROVE  Verdict(Last(out))
      BY DEF EndMatchesCause, Verdict, Whole
    <2>1. consumer = "done" /\ todo = <<>>
      BY DEF Ended, OutcomeInv, EndingsAreLast
    <2> QED BY <2>1 DEF EndInv, ReturnInv, FinalPart
  <1> QED BY <1>1, <1>2, <1>3, <1>4, PTL DEF Spec
=============================================================================
