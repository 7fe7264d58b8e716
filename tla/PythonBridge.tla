---------------------------- MODULE PythonBridge -----------------------------
(***************************************************************************)
(* The stream bridge of the Python binding, bindings/python/src/bridge.rs. *)
(*                                                                         *)
(* A tokio worker dispatches the stream and pumps its events into a        *)
(* bounded channel; __next__ drains it in slices of 20 ms on a Python      *)
(* thread; close, cancel and the collector may run on other threads.  The  *)
(* terminal has a slot of its own, and Task::cancel both fires the abort   *)
(* signal and aborts the worker at its next await.                         *)
(*                                                                         *)
(* The worker shares the Queue, so its receiver closes only in close(),    *)
(* when the worker is over (ClosedAfterWorker): the branches of pump for a *)
(* closed channel have no action.  Neither has the branch for an event     *)
(* above MAX_FRAME_BYTES, which FrameStream has refused before.            *)
(***************************************************************************)
EXTENDS FrameStream

CONSTANTS
  Items, Bytes      \* QUEUE_ITEMS and QUEUE_BYTES, which hold a single event

VARIABLES
  start,        \* StreamIterator: "waiting", "open", "refused" or "dropped"
  accepted,     \* what the worker answered to start
  pump,         \* where the worker is
  held,         \* the event it holds: <<seq, size>>
  outcome,      \* the terminal it left its loop with
  kill,         \* JoinHandle::abort was called: "no" or "yes"
  queue,        \* the channel: <<seq, size>>
  free,         \* permits left in the byte semaphore
  receiver,     \* "open", or "closed" by close()
  terminal,     \* Queue.terminal: "None", "Ok", "Error" or "Aborted"
  reader,       \* where the one admitted call of __next__ is
  got,          \* the event it took from the channel
  closer,       \* where a call of close() is
  yielded,      \* the numbers of the events Python was given
  told,         \* the outcome that __next__ reported last
  discarded     \* "yes" once an event was taken from the channel in vain

workerVars == <<accepted, pump, held, outcome>>
queueVars == <<queue, free, receiver>>
readVars == <<reader, got, yielded, told>>
pyVars == <<frameVars, start, workerVars, kill, queueVars, terminal, readVars,
            closer, discarded>>

PyInit ==
  /\ FrameInit
  /\ start = "waiting" /\ accepted = "none"
  /\ pump = "dispatch" /\ held = <<0, 0>> /\ outcome = "None" /\ kill = "no"
  /\ queue = <<>> /\ free = Bytes /\ receiver = "open" /\ terminal = "None"
  /\ reader = "idle" /\ got = <<0, 0>> /\ closer = "idle"
  /\ yielded = <<>> /\ told = "None" /\ discarded = "no"

-----------------------------------------------------------------------------
(* The worker *)

(* dispatch::stream is refused, or accepted; if nobody waits for the      *)
(* answer any more the stream is dropped at once.                         *)
WorkerDispatch ==
  /\ pump = "dispatch"
  /\ \/ /\ accepted' = "error" /\ pump' = "drop" /\ events' = "gone"
     \/ /\ start = "waiting"
        /\ accepted' = "ok" /\ pump' = "next"
        /\ UNCHANGED events
     \/ /\ start # "waiting"
        /\ pump' = "drop"
        /\ UNCHANGED <<accepted, events>>
  /\ UNCHANGED <<signal, seq, start, held, outcome, kill, queueVars, terminal,
                 readVars, closer, discarded>>

(* Leaving the loop of pump.  The terminal is published in a later step:  *)
(* a reader that sees the abort may look before that.                     *)
Break(result) == outcome' = result /\ pump' = "publish"

(* How an End frame becomes a terminal. *)
TerminalOf(frame) ==
  CASE frame.outcome = "Success"   -> "Ok"
    [] frame.outcome = "Error"     -> "Error"
    [] frame.outcome = "Cancelled" -> "Aborted"

PumpNext(up) ==
  /\ pump = "next"
  /\ \/ /\ signal = "aborted"
        /\ Break("Aborted")
        /\ UNCHANGED <<events, seq, held>>
     \/ /\ signal = "quiet"
        /\ FramePoll(up)
        /\ LET frame == PolledFrame(up) IN
           \/ /\ frame.type = "Event"
              /\ held' = <<frame.seq, frame.size>> /\ pump' = "permit"
              /\ UNCHANGED outcome
           \/ /\ frame.type = "End"
              /\ Break(TerminalOf(frame))
              /\ UNCHANGED held
  /\ UNCHANGED <<signal, start, accepted, kill, queueVars, terminal, readVars,
                 closer, discarded>>

(* The byte budget, raced against the abort signal. *)
PumpPermit ==
  /\ pump = "permit"
  /\ \/ signal = "aborted" /\ Break("Aborted") /\ UNCHANGED free
     \/ /\ signal = "quiet" /\ held[2] <= free
        /\ free' = free - held[2] /\ pump' = "send"
        /\ UNCHANGED outcome
  /\ UNCHANGED <<frameVars, start, accepted, held, kill, queue, receiver,
                 terminal, readVars, closer, discarded>>

HasRoom == Len(queue) < Items

(* The permit goes with a delivery that is not sent. *)
FreeAfterDrop == free + held[2]

(* sender.send, raced against the abort signal. *)
SendIgnoresAbort == FALSE
SendSeesAbort == signal = "aborted"

PumpSend ==
  /\ pump = "send"
  /\ \/ /\ SendSeesAbort
        /\ Break("Aborted")
        /\ free' = FreeAfterDrop
        /\ UNCHANGED queue
     \/ /\ ~SendSeesAbort /\ HasRoom
        /\ queue' = Append(queue, held) /\ pump' = "next"
        /\ UNCHANGED <<outcome, free>>
  /\ UNCHANGED <<frameVars, start, accepted, held, kill, receiver, terminal,
                 readVars, closer, discarded>>

PumpPublish ==
  /\ pump = "publish"
  /\ terminal' = outcome
  /\ pump' = "drop"
  /\ UNCHANGED <<frameVars, start, accepted, held, outcome, kill, queueVars,
                 readVars, closer, discarded>>

(* The runtime drops an aborted task at an await, or before its first     *)
(* poll: no terminal is published.                                        *)
WorkerKilled ==
  /\ kill = "yes" /\ pump \in {"dispatch", "next", "permit", "send"}
  /\ pump' = "drop"
  /\ free' = IF pump = "send" THEN FreeAfterDrop ELSE free
  /\ UNCHANGED <<frameVars, start, accepted, held, outcome, kill, queue,
                 receiver, terminal, readVars, closer, discarded>>

(* The parameters of pump are dropped from the last to the first: the     *)
(* sender, then the stream; after them the CompletionGuard.                *)
WorkerDropSender ==
  /\ pump = "drop"
  /\ pump' = "senderless"
  /\ UNCHANGED <<frameVars, start, accepted, held, outcome, kill, queueVars,
                 terminal, readVars, closer, discarded>>

WorkerDropStream ==
  /\ pump = "senderless"
  /\ pump' = "ended"
  /\ signal' = SignalAfterDrop /\ events' = "gone"
  /\ UNCHANGED <<seq, start, accepted, held, outcome, kill, queueVars,
                 terminal, readVars, closer, discarded>>

WorkerDone ==
  /\ pump = "ended"
  /\ pump' = "done"
  /\ UNCHANGED <<frameVars, start, accepted, held, outcome, kill, queueVars,
                 terminal, readVars, closer, discarded>>

-----------------------------------------------------------------------------
(* Task and StreamIterator *)

(* Task::cancel *)
CancelKillsOnly == kill' = "yes" /\ UNCHANGED signal
TaskCancel == kill' = "yes" /\ signal' = "aborted"

(* Drop for Task *)
TaskDrop ==
  \/ pump = "done" /\ UNCHANGED <<signal, kill>>
  \/ pump # "done" /\ TaskCancel

(* StreamIterator::start gets the answer of the worker. *)
StartAnswered ==
  /\ start = "waiting" /\ accepted # "none"
  /\ \/ /\ accepted = "ok" /\ start' = "open"
        /\ UNCHANGED <<signal, kill>>
     \/ /\ accepted = "error" /\ start' = "refused"
        /\ TaskDrop
  /\ UNCHANGED <<events, seq, workerVars, queueVars, terminal, readVars,
                 closer, discarded>>

(* A Python signal, or the abort seen at the end of a slice. *)
StartGivesUp ==
  /\ start = "waiting"
  /\ start' = "refused"
  /\ TaskCancel
  /\ UNCHANGED <<events, seq, workerVars, queueVars, terminal, readVars,
                 closer, discarded>>

(* __next__; a second one is refused by the consuming flag. *)
NextCall ==
  /\ start = "open" /\ reader = "idle"
  /\ reader' = "check"
  /\ UNCHANGED <<frameVars, start, workerVars, kill, queueVars, terminal, got,
                 yielded, told, closer, discarded>>

(* check_cancelled: live cancellation wins, a settled success stands. *)
CheckIgnoresTerminal == signal = "aborted"
CancelledNow == signal = "aborted" /\ terminal # "Ok"

CancelledOutcome == IF terminal = "None" THEN "Aborted" ELSE terminal

NextCheck ==
  /\ reader = "check"
  /\ \/ /\ CancelledNow
        /\ told' = CancelledOutcome /\ reader' = "idle"
     \/ /\ ~CancelledNow
        /\ reader' = "recv"
        /\ UNCHANGED told
  /\ UNCHANGED <<frameVars, start, workerVars, kill, queueVars, terminal, got,
                 yielded, closer, discarded>>

(* One slice of receiver.recv(): an event, the end, or a timeout. *)
SenderGone == pump \in {"senderless", "ended", "done"}

NextRecv ==
  /\ reader = "recv"
  /\ \/ /\ queue # <<>>
        /\ got' = Head(queue) /\ queue' = Tail(queue) /\ reader' = "popped"
     \/ /\ queue = <<>>
        /\ SenderGone \/ receiver = "closed"
        /\ reader' = "eof"
        /\ UNCHANGED <<got, queue>>
     \/ /\ queue = <<>> /\ ~SenderGone /\ receiver = "open"
        /\ reader' = "slept"
        /\ UNCHANGED <<got, queue>>
  /\ UNCHANGED <<frameVars, start, workerVars, kill, free, receiver, terminal,
                 yielded, told, closer, discarded>>

(* The delivery in hand is dropped: its permit returns, its event is lost. *)
DropGot ==
  /\ free' = IF reader = "popped" THEN free + got[2] ELSE free
  /\ discarded' = IF reader = "popped" THEN "yes" ELSE discarded

(* py.check_signals() raises KeyboardInterrupt. *)
NextInterrupted ==
  /\ reader \in {"popped", "eof", "slept"}
  /\ reader' = "idle"
  /\ TaskCancel
  /\ DropGot
  /\ UNCHANGED <<events, seq, start, workerVars, queue, receiver, terminal,
                 got, yielded, told, closer>>

(* What a drained channel means. *)
EofIsStop == "Stop"
EofOutcome ==
  CASE terminal = "None" -> "Lost"
    [] terminal = "Ok"   -> "Stop"
    [] OTHER             -> terminal

(* The second check_cancelled, then the result of the slice. *)
NextResult ==
  /\ reader \in {"popped", "eof", "slept"}
  /\ \/ /\ CancelledNow
        /\ told' = CancelledOutcome /\ reader' = "idle"
        /\ DropGot
        /\ UNCHANGED yielded
     \/ /\ ~CancelledNow /\ reader = "popped"
        /\ yielded' = Append(yielded, got[1])
        /\ free' = free + got[2] /\ reader' = "idle"
        /\ UNCHANGED <<told, discarded>>
     \/ /\ ~CancelledNow /\ reader = "eof"
        /\ told' = EofOutcome /\ reader' = "idle"
        /\ UNCHANGED <<yielded, free, discarded>>
     \/ /\ ~CancelledNow /\ reader = "slept"
        /\ reader' = "check"
        /\ UNCHANGED <<told, yielded, free, discarded>>
  /\ UNCHANGED <<frameVars, start, workerVars, kill, queue, receiver, terminal,
                 got, closer>>

(* cancel(), or a Python signal during join(). *)
Cancel ==
  /\ start = "open" /\ kill = "no"
  /\ TaskCancel
  /\ UNCHANGED <<events, seq, start, workerVars, queueVars, terminal, readVars,
                 closer, discarded>>

(* close(): cancel, wait for the worker, drain. *)
Close ==
  /\ start = "open" /\ closer = "idle"
  /\ TaskCancel
  /\ closer' = "wait"
  /\ UNCHANGED <<events, seq, start, workerVars, queueVars, terminal, readVars,
                 discarded>>

(* The worker is over, or the wait of five seconds ends close() before.   *)
CloseProceeds == IF pump = "done" THEN "drain" ELSE "idle"

CloseWaited ==
  /\ closer = "wait"
  /\ \/ closer' = CloseProceeds
     \/ closer' = "idle"    \* check_signals raised, the worker over or not
  /\ UNCHANGED <<frameVars, start, workerVars, kill, queueVars, terminal,
                 readVars, discarded>>

(* The bytes of the entries in the channel. *)
QueuedBytes == TotalBytes(queue)

CloseDrain ==
  /\ closer = "drain"
  /\ closer' = "idle"
  /\ receiver' = "closed"
  /\ queue' = <<>> /\ free' = free + QueuedBytes
  /\ discarded' = IF queue = <<>> THEN discarded ELSE "yes"
  /\ UNCHANGED <<frameVars, start, workerVars, kill, terminal, readVars>>

(* The iterator is collected; nobody uses it. *)
Drop ==
  /\ start = "open" /\ reader = "idle" /\ closer = "idle"
  /\ start' = "dropped"
  /\ TaskDrop
  /\ UNCHANGED <<events, seq, workerVars, queueVars, terminal, readVars,
                 closer, discarded>>

(* Abort.cancel() of the caller's Abort object. *)
ExternalAbort ==
  /\ signal = "quiet"
  /\ signal' = "aborted"
  /\ UNCHANGED <<events, seq, start, workerVars, kill, queueVars, terminal,
                 readVars, closer, discarded>>

-----------------------------------------------------------------------------
WorkerNext ==
  \/ WorkerDispatch \/ (\E up \in Answers : PumpNext(up)) \/ PumpPermit
  \/ PumpSend \/ PumpPublish \/ WorkerKilled \/ WorkerDropSender
  \/ WorkerDropStream \/ WorkerDone

ReadNext ==
  NextCall \/ NextCheck \/ NextRecv \/ NextInterrupted \/ NextResult

PyNext ==
  \/ WorkerNext \/ ReadNext \/ StartAnswered \/ StartGivesUp
  \/ Cancel \/ Close \/ CloseWaited \/ CloseDrain \/ Drop \/ ExternalAbort

PySpec == PyInit /\ [][PyNext]_pyVars

(***************************************************************************)
(* Fairness.  Tokio runs ready tasks, and a Python thread inside a call of *)
(* the iterator keeps running.  The upstream may stay silent: only the     *)
(* abort must get pump past it.  Nobody has to call the iterator.          *)
(***************************************************************************)
PyFairness ==
  /\ WF_pyVars(WorkerDispatch) /\ WF_pyVars(PumpPermit) /\ WF_pyVars(PumpSend)
  /\ WF_pyVars(signal = "aborted" /\ \E up \in Answers : PumpNext(up))
  /\ WF_pyVars(PumpPublish) /\ WF_pyVars(WorkerKilled)
  /\ WF_pyVars(WorkerDropSender) /\ WF_pyVars(WorkerDropStream)
  /\ WF_pyVars(WorkerDone)
  /\ WF_pyVars(StartAnswered)
  /\ WF_pyVars(NextCheck) /\ WF_pyVars(NextRecv) /\ WF_pyVars(NextResult)
  /\ WF_pyVars(CloseWaited) /\ WF_pyVars(CloseDrain)

PyFairSpec == PySpec /\ PyFairness

-----------------------------------------------------------------------------
(* Properties *)

(* A drained channel always comes with a terminal: a worker that was      *)
(* killed before it published one has left the abort signal behind, so    *)
(* "worker lost stream terminal" is never raised.                         *)
NoLostTerminal == told # "Lost"

(* The channel and the byte budget hold, and every permit is free, in the *)
(* channel, or held by the event being sent or returned.                  *)
PermitsAreBalanced ==
  /\ Len(queue) <= Items /\ free >= 0
  /\ Bytes = free + QueuedBytes
               + (IF pump = "send" THEN held[2] ELSE 0)
               + (IF reader = "popped" THEN got[2] ELSE 0)

(* Events come in order; one is missing only after a Python signal, a     *)
(* cancellation or close() threw it away.                                 *)
EventsInOrder ==
  /\ \A i, j \in 1 .. Len(yielded) : i < j => yielded[i] < yielded[j]
  /\ discarded = "no" => \A i \in 1 .. Len(yielded) : yielded[i] = i - 1

(* StopIteration is raised only of a stream that ended by itself, and     *)
(* after its last event unless events were thrown away.                   *)
StopIsComplete ==
  told = "Stop" => /\ terminal = "Ok" /\ events = "gone"
                   /\ discarded = "no" => Len(yielded) = seq

(* The channel is closed under no worker. *)
ClosedAfterWorker == receiver = "closed" => pump = "done"

(* bridge.rs: events in order, a stop after the last of them only, budgets *)
(* balanced, and nothing drained before the worker ended.                  *)
ReadsAreSound ==
  PermitsAreBalanced /\ EventsInOrder /\ StopIsComplete /\ ClosedAfterWorker

(* "Cancellation after a settled terminal preserves its outcome": once    *)
(* the terminal is published every __next__ that reports an outcome       *)
(* reports that one.                                                      *)
SettledOutcomePreserved ==
  [][/\ terminal = "Ok" => told' \in {told, "Stop"}
     /\ terminal \in {"Error", "Aborted"} => told' \in {told, terminal}]_pyVars

(* A stream has one terminal: an outcome that __next__ has reported is    *)
(* followed by no event and by no other outcome.                          *)
OneTerminal ==
  [][told # "None" => told' = told /\ yielded' = yielded]_pyVars

(* The abort signal ends the worker wherever it waits, and no worker is   *)
(* left behind by an iterator that was refused or collected.              *)
WorkerEnds ==
  signal = "aborted" \/ start \in {"refused", "dropped"} ~> pump = "done"

(* Neither an abort nor the end of the worker leaves a __next__ waiting. *)
CallsReturn ==
  reader # "idle" /\ (signal = "aborted" \/ pump = "done") ~> reader = "idle"

(* An abort ends the worker, and a pending call returns with it.           *)
CallsSettle == WorkerEnds /\ CallsReturn
=============================================================================
