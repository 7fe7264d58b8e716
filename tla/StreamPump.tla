----------------------------- MODULE StreamPump -----------------------------
(***************************************************************************)
(* The consumption phase of stream_text: a pump task drives the provider   *)
(* stream into a bounded channel and keeps the deadlines; the returned     *)
(* stream reads the channel, turns parts into the user's parts and reports *)
(* aborts; RecordingOutcomeStream observes what the user is handed.        *)
(*                                                                         *)
(* Time is a bounded clock.  A deadline that is not configured is Never.   *)
(* The range errors of TimeoutDeadline are left out: the same durations    *)
(* were validated before the call (timeout.rs OperationTimeout::new).      *)
(***************************************************************************)
EXTENDS Naturals, Sequences, SequencesExt

CONSTANTS Capacity,   \* STREAM_PUMP_CHANNEL_CAPACITY
          MaxItems,   \* bound on the items the provider yields
          MaxTime,    \* bound on the clock
          OpDeadlines, FirstDeadlines, ChunkDurations, \* configured times
          Kinds       \* the items the provider may yield

Never == MaxTime + 1

(* What an item is to this code: a StreamStart, a part without output, a   *)
(* delta, a file to download, an end or a delta whose start never came, an *)
(* error part, a recoverable frame error, a finish (in order, or breaking  *)
(* the tool choice) and a non-recoverable error.                           *)
Items == {"warn", "meta", "text", "file", "stray", "stray text", "error",
          "bad", "finish", "refused", "fatal"}
OutputItems == {"text", "file", "stray text"}

ASSUME PumpAssumption ==
    /\ Capacity \in Nat \ {0} /\ MaxItems \in Nat /\ MaxTime \in Nat
    /\ OpDeadlines \cup FirstDeadlines \cup ChunkDurations \subseteq 1 .. Never
    /\ Kinds \subseteq Items

VARIABLES
    now, aborted,      \* the clock; the caller's AbortSignal
    config,            \* the configured op deadline and chunk duration
    pump,              \* "poll", "send" (waits for room) or "end"
    why,               \* why the pump ended (history)
    pending, sendStarted, chunkAt,
    waited,            \* time spent awaiting the provider since chunkAt was
                       \* armed, and what it was armed for (history)
    arrived,           \* items the provider yielded (history)
    channel, overflow, \* the channel; overflow_error
    consumer,          \* "loop", "recv", "return", "done" or "dropped"
    todo, step,        \* parts still to yield; StreamStep
    received, out,     \* items read and parts yielded (history)
    suspended, outcomes \* RecordingOutcomeStream: pending, what it recorded

time == <<now, aborted, config>>
pumpVars == <<pump, why, pending, sendStarted, chunkAt, waited, arrived>>
consumerVars == <<consumer, todo, step, received>>
outcomeVars == <<out, suspended, outcomes>>
vars == <<time, pumpVars, channel, overflow, consumerVars, outcomeVars>>

IsTerminalItem(item) == item \in {"finish", "refused", "fatal"}
IsOutputChunk(item) == item \in OutputItems

Init ==
    /\ now = 0 /\ aborted = FALSE
    /\ config \in [op : OpDeadlines, chunk : ChunkDurations]
    /\ pump = "poll" /\ why = "running" /\ pending = "none"
    /\ sendStarted = 0
    /\ chunkAt \in FirstDeadlines
    /\ waited = [spent |-> 0, budget |-> chunkAt]
    /\ arrived = <<>> /\ channel = <<>> /\ overflow = FALSE
    /\ consumer = "loop" /\ todo = <<"start">>
    /\ step = [started |-> FALSE, terminal |-> FALSE, sawOutput |-> FALSE]
    /\ received = <<>> /\ out = <<>> /\ suspended = FALSE /\ outcomes = <<>>

-----------------------------------------------------------------------------
(* The environment: the clock, and the caller's abort.                     *)

Tick ==
    /\ now < MaxTime
    /\ now' = now + 1
    /\ waited' = IF pump = "poll" THEN [waited EXCEPT !.spent = @ + 1]
                 ELSE waited
    /\ UNCHANGED <<aborted, config, pump, why, pending, sendStarted, chunkAt,
                   arrived, channel, overflow, consumerVars, outcomeVars>>

Abort ==
    /\ ~aborted
    /\ aborted' = TRUE
    /\ UNCHANGED <<now, config, pumpVars, channel, overflow, consumerVars,
                   outcomeVars>>

-----------------------------------------------------------------------------
(* The pump task.  Its selects are biased: abort, the operation deadline,  *)
(* the chunk deadline, the provider.                                       *)

ReceiverGone == consumer \in {"done", "dropped"}

EndPump(reason) == pump' = "end" /\ why' = reason

SendTerminalErrDropped ==
    IF ReceiverGone \/ Len(channel) = Capacity THEN UNCHANGED <<channel, overflow>>
    ELSE channel' = Append(channel, "timeout") /\ UNCHANGED overflow

SendTerminalErr ==
    IF ReceiverGone THEN UNCHANGED <<channel, overflow>>
    ELSE IF Len(channel) < Capacity
    THEN channel' = Append(channel, "timeout") /\ UNCHANGED overflow
    ELSE overflow' = TRUE /\ UNCHANGED channel

PumpAborted ==
    /\ pump \in {"poll", "send"} /\ aborted
    /\ EndPump("abort")
    /\ UNCHANGED <<time, pending, sendStarted, chunkAt, waited, arrived,
                   channel, overflow, consumerVars, outcomeVars>>

OperationTimeoutUntilOutput ==
    /\ pump \in {"poll", "send"} /\ ~aborted /\ now >= config.op
    /\ ~\E i \in DOMAIN arrived : IsOutputChunk(arrived[i])
    /\ SendTerminalErr
    /\ EndPump("operation timeout")
    /\ UNCHANGED <<time, pending, sendStarted, chunkAt, waited, arrived,
                   consumerVars, outcomeVars>>

OperationTimeout ==
    /\ pump \in {"poll", "send"} /\ ~aborted /\ now >= config.op
    /\ SendTerminalErr
    /\ EndPump("operation timeout")
    /\ UNCHANGED <<time, pending, sendStarted, chunkAt, waited, arrived,
                   consumerVars, outcomeVars>>

ChunkTimeout ==
    /\ pump = "poll" /\ ~aborted /\ now < config.op /\ now >= chunkAt
    /\ SendTerminalErr
    /\ EndPump("chunk timeout")
    /\ UNCHANGED <<time, pending, sendStarted, chunkAt, waited, arrived,
                   consumerVars, outcomeVars>>

AfterSendChargesConsumer(item, blocked) ==
    /\ IF IsTerminalItem(item) THEN EndPump("terminal")
       ELSE pump' = "poll" /\ why' = why
    /\ IF IsOutputChunk(item)
       THEN /\ chunkAt' = now + config.chunk
            /\ waited' = [spent |-> 0, budget |-> config.chunk]
       ELSE UNCHANGED <<chunkAt, waited>>

(* What follows a successful send: a terminal item ends the pump, an       *)
(* output chunk re-arms the chunk deadline, and the time another item was  *)
(* blocked is not charged to the provider.                                 *)
AfterSend(item, blocked) ==
    /\ IF IsTerminalItem(item) THEN EndPump("terminal")
       ELSE pump' = "poll" /\ why' = why
    /\ IF IsOutputChunk(item)
       THEN /\ chunkAt' = now + config.chunk
            /\ waited' = [spent |-> 0, budget |-> config.chunk]
       ELSE chunkAt' = chunkAt + blocked /\ UNCHANGED waited

ProviderItem(item) ==
    /\ pump = "poll" /\ ~aborted /\ now < config.op /\ now < chunkAt
    /\ Len(arrived) < MaxItems
    /\ arrived' = Append(arrived, item)
    /\ \/ /\ ReceiverGone
          /\ EndPump("closed")
          /\ UNCHANGED <<pending, sendStarted, chunkAt, waited, channel>>
       \/ /\ ~ReceiverGone /\ Len(channel) < Capacity
          /\ channel' = Append(channel, item)
          /\ AfterSend(item, 0)
          /\ UNCHANGED <<pending, sendStarted>>
       \/ /\ ~ReceiverGone /\ Len(channel) = Capacity
          /\ pump' = "send" /\ pending' = item /\ sendStarted' = now
          /\ UNCHANGED <<why, chunkAt, waited, channel>>
    /\ UNCHANGED <<time, overflow, consumerVars, outcomeVars>>

ProviderEnds ==
    /\ pump = "poll" /\ ~aborted /\ now < config.op /\ now < chunkAt
    /\ EndPump("eof")
    /\ UNCHANGED <<time, pending, sendStarted, chunkAt, waited, arrived,
                   channel, overflow, consumerVars, outcomeVars>>

SendPending ==
    /\ pump = "send" /\ ~aborted /\ now < config.op
    /\ \/ /\ ReceiverGone
          /\ EndPump("closed")
          /\ UNCHANGED <<chunkAt, waited, channel>>
       \/ /\ ~ReceiverGone /\ Len(channel) < Capacity
          /\ channel' = Append(channel, pending)
          /\ AfterSend(pending, now - sendStarted)
    /\ pending' = "none"
    /\ UNCHANGED <<time, sendStarted, arrived, overflow, consumerVars,
                   outcomeVars>>

(* AbortOnDrop, once the returned stream has ended or was dropped.         *)
PumpKilled ==
    /\ pump # "end" /\ ReceiverGone
    /\ EndPump("killed")
    /\ UNCHANGED <<time, pending, sendStarted, chunkAt, waited, arrived,
                   channel, overflow, consumerVars, outcomeVars>>

-----------------------------------------------------------------------------
(* The returned stream.  One poll of its select reads the abort signal     *)
(* first and the channel after it: two steps, the pump may run between.    *)

PollAbort ==
    /\ consumer = "loop" /\ todo = <<>>
    /\ IF aborted THEN todo' = <<"abort">> /\ consumer' = "return"
       ELSE consumer' = "recv" /\ UNCHANGED todo
    /\ UNCHANGED <<time, pumpVars, channel, overflow, step, received,
                   outcomeVars>>

OpenStep(item) ==
    IF item = "warn" \/ step.started THEN <<>> ELSE <<"start-step">>

StepAfter(item) ==
    [started |-> step.started \/ item # "warn",
     terminal |-> step.terminal \/ item \in {"finish", "refused", "error"},
     sawOutput |-> step.sawOutput \/ IsOutputChunk(item)]

(* The parts an item is turned into; a file's download may fail.           *)
PartsOf(item) ==
    CASE item \in {"warn", "finish"} -> {<<>>}
      [] item \in {"stray", "stray text"} -> {<<"part", "error">>}
      [] item \in {"error", "refused"} -> {<<"error">>}
      [] item = "file" -> {<<"part">>, <<"error">>}
      [] OTHER -> {<<"part">>}

RecvItem ==
    /\ consumer = "recv" /\ channel # <<>>
    /\ channel' = Tail(channel)
    /\ received' = Append(received, Head(channel))
    /\ LET item == Head(channel)
       IN  IF item \in {"bad", "fatal", "timeout"}
           THEN /\ todo' = <<item>>
                /\ consumer' = IF item = "bad" THEN "loop" ELSE "return"
                /\ UNCHANGED step
           ELSE /\ \E parts \in PartsOf(item) :
                       todo' = OpenStep(item) \o parts
                /\ step' = StepAfter(item)
                /\ consumer' = "loop"
    /\ UNCHANGED <<time, pumpVars, overflow, outcomeVars>>

RecvClosed ==
    /\ consumer = "recv" /\ channel = <<>> /\ pump = "end"
    /\ consumer' = "return"
    /\ overflow' = FALSE
    /\ IF overflow THEN todo' = <<"timeout">>
       ELSE IF ~step.terminal /\ ~step.sawOutput THEN todo' = <<"error">>
       ELSE todo' = <<"finish-step", "finish">>
    /\ UNCHANGED <<time, pumpVars, channel, step, received, outcomeVars>>

RecvPending ==
    /\ consumer = "recv" /\ channel = <<>> /\ pump # "end"
    /\ consumer' = "loop"
    /\ UNCHANGED <<time, pumpVars, channel, overflow, todo, step, received,
                   outcomeVars>>

RecordForgetsError(outcome) ==
    /\ suspended' = FALSE
    /\ outcomes' = IF outcomes = <<>> THEN Append(outcomes, outcome) ELSE outcomes

(* RecordingOutcomeStream::poll_next sees every part on its way out.       *)
Record(outcome) ==
    /\ suspended' = FALSE
    /\ outcomes' = IF outcomes = <<>>
                   THEN Append(outcomes, IF suspended THEN "error" ELSE outcome)
                   ELSE outcomes

Observe(part) ==
    CASE part = "finish" -> Record("success")
      [] part \in {"fatal", "timeout"} -> Record("error")
      [] part \in {"error", "bad"} ->
            /\ suspended' = (suspended \/ outcomes = <<>>)
            /\ UNCHANGED outcomes
      [] OTHER -> UNCHANGED <<suspended, outcomes>>

Yield ==
    /\ consumer # "dropped" /\ todo # <<>>
    /\ out' = Append(out, Head(todo))
    /\ todo' = Tail(todo)
    /\ Observe(Head(todo))
    /\ UNCHANGED <<time, pumpVars, channel, overflow, consumer, step, received>>

(* The generator returns: its locals are dropped, the user reads the end.  *)
EndOfStream ==
    /\ consumer = "return" /\ todo = <<>>
    /\ consumer' = "done"
    /\ channel' = <<>>
    /\ Record("incomplete")
    /\ UNCHANGED <<time, pumpVars, overflow, todo, step, received, out>>

DropStream ==
    /\ consumer # "dropped"
    /\ consumer' = "dropped"
    /\ channel' = <<>>
    /\ IF outcomes = <<>> THEN Record("cancelled")
       ELSE UNCHANGED <<suspended, outcomes>>
    /\ UNCHANGED <<time, pumpVars, overflow, todo, step, received, out>>

-----------------------------------------------------------------------------
PumpStep ==
    \/ PumpAborted \/ OperationTimeout \/ ChunkTimeout \/ SendPending
    \/ PumpKilled
Poll ==
    PollAbort \/ RecvItem \/ RecvClosed \/ RecvPending \/ Yield \/ EndOfStream

Next ==
    \/ Tick \/ Abort \/ PumpStep \/ Poll \/ DropStream \/ ProviderEnds
    \/ \E item \in Kinds : ProviderItem(item)

Spec == Init /\ [][Next]_vars

(* Timers fire, the runtime runs the pump, and the user polls the stream.  *)
(* The provider owes nothing.                                              *)
FairSpec == Spec /\ WF_vars(Tick) /\ WF_vars(PumpStep) /\ WF_vars(Poll)

-----------------------------------------------------------------------------
Ended == consumer = "done"
(* What was read of the provider: a timeout comes from the pump, and last.  *)
ReadItems == IF received # <<>> /\ Last(received) = "timeout"
             THEN Front(received) ELSE received
TimedOut == why \in {"operation timeout", "chunk timeout"}

(* An item that still waited for room when the pump stopped. *)
HeldBack == why \in {"operation timeout", "abort"} /\ pending # "none"

(* The end the user reads is the end the pump met (generate.rs, pump and   *)
(* stream).  Every item the provider sent was read, in order, but for the  *)
(* one that waited for room in a full channel when the operation deadline  *)
(* or the abort stopped the pump: that one is dropped, a finish included.  *)
(* A timeout, even one that found the channel full, is read last; a finish *)
(* or a fatal error ends the stream as it came; a provider that just stops *)
(* gives a finish exactly when there was output or an error part to keep,  *)
(* and so does an abort that the stream did not see for itself (one it saw *)
(* is reported as a part, and nothing is promised of what was buffered).   *)
EndMatchesCause ==
    (Ended /\ Last(out) # "abort") =>
        /\ arrived = IF HeldBack THEN Append(ReadItems, pending) ELSE ReadItems
        /\ Last(out) =
             CASE TimedOut -> "timeout"
               [] why = "terminal" /\ Last(arrived) = "fatal" -> "fatal"
               [] why \in {"eof", "abort"} /\ ~\E i \in DOMAIN received :
                    received[i] \in OutputItems \cup {"error"} -> "error"
               [] OTHER -> "finish"

(* docs/ai-sdk-request-pipeline.md, 8.1: output that has arrived and is not *)
(* yet consumed is delivered as it is before the timeout, which comes after *)
(* it as the terminal error.                                               *)
ArrivedOutputIsDelivered ==
    Ended /\ Last(out) = "timeout" =>
        \A i \in DOMAIN arrived :
            IsOutputChunk(arrived[i]) => i \in DOMAIN ReadItems

(* Consumer backpressure is never charged to the provider: when the first  *)
(* chunk or chunk deadline fires, the pump has spent at least that long    *)
(* awaiting the provider since the deadline was armed.                     *)
ProviderTimeOnly == why = "chunk timeout" => waited.spent >= waited.budget

(* The recorded outcome tells what the user was handed                     *)
(* (RecordingOutcomeStream): exactly one, a success only for a stream that *)
(* finished with no error in it, an error whenever one was handed out,     *)
(* incomplete only for a reported abort, cancelled only for a dropped one. *)
OutcomeMatchesStream ==
    LET Saw(parts) == \E i \in DOMAIN out : out[i] \in parts
        errors == {"error", "bad", "fatal", "timeout"}
    IN  /\ ReceiverGone => Len(outcomes) = 1
        /\ Len(outcomes) <= 1
        /\ outcomes = <<"success">> <=> (Saw({"finish"}) /\ ~Saw(errors))
        /\ outcomes # <<>> => (outcomes = <<"error">> <=> Saw(errors))
        /\ outcomes = <<"incomplete">> => Last(out) = "abort"
        /\ outcomes = <<"cancelled">> => consumer = "dropped"

(* An operation deadline, or an abort, ends every stream the user keeps    *)
(* polling, whatever the provider does and however full the channel is.    *)
StreamEnds == (config.op < Never \/ aborted) ~> ReceiverGone

(* No pump outlives its stream (AbortOnDrop, TrySendError::Closed).        *)
PumpStops == ReceiverGone ~> (pump = "end")

(* A deadline or an abort ends the stream, and the pump ends with it.      *)
StreamSettles == StreamEnds /\ PumpStops

=============================================================================
