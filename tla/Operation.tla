------------------------------ MODULE Operation ------------------------------
(***************************************************************************)
(* A realtime transcription operation: aimux-ops/src/operation.rs.         *)
(*                                                                         *)
(* Callers push audio chunks, close the input and read transcription       *)
(* parts; a driver task runs the provider's stream; the provider polls the *)
(* audio.  They all meet in one mutex-protected State.  Every critical     *)
(* section of the code is one action here, together with the wake() that   *)
(* follows it: no await separates the two, and a waiter arms its Notified  *)
(* (or registers its waker) before it takes the lock, so a waiter that     *)
(* checks in between sees the new state itself.                            *)
(*                                                                         *)
(* The provider is external: it may connect, yield, fail or stop whenever  *)
(* it is polled, and it polls the audio while its stream is polled.  A     *)
(* chunk is the push call that carries it, a part is its position in the   *)
(* provider's stream.                                                      *)
(***************************************************************************)
EXTENDS Integers, Sequences, FiniteSets, SequencesExt

CONSTANTS
  Pushes,       \* the calls of push and try_push, each made at most once
  Lengths,      \* the chunk lengths callers use, oversize ones included
  PartSizes,    \* the wire sizes of the provider's parts, oversize included
  MaxParts,     \* bound: how many parts the provider yields
  InputItems, InputBytes, OutputItems, OutputBytes, ItemBytes, \* limits
  SeqMax,       \* u64::MAX, the last admission sequence
  Requests      \* which of "cancel", "close", "terminate", "abort" are made

(* OperationLimits::validate refuses a limit of zero. *)
ASSUME LimitsAssumption ==
  /\ InputItems \in Nat \ {0} /\ InputBytes \in Nat \ {0}
  /\ OutputItems \in Nat \ {0} /\ OutputBytes \in Nat \ {0}
  /\ ItemBytes \in Nat \ {0}
  /\ SeqMax \in Nat /\ MaxParts \in Nat
  /\ Lengths \subseteq Nat /\ PartSizes \subseteq Nat

(* The waiters that are not push calls. *)
Reader == "reader"
Driver == "driver"
Audio  == "audio"

ASSUME WaiterAssumption == {Reader, Driver, Audio} \cap Pushes = {}

VARIABLES
  \* struct State
  input,                \* InputState: "Open" or "Closed"
  done_sequence,        \* the sequence of InputState::Closed
  consumer,             \* ConsumerState
  admission_sequence, send_sequence, completed_admissions,
  input_queue, input_bytes,
  output_queue, output_bytes,
  terminal,             \* the outcome of the terminal summary, or "None"
  terminal_error,       \* Terminal.error: "Some" until it is taken, "None"
  cleanup_failure,
  \* the callers, the driver task and the provider
  parked,               \* waiters whose last check failed, not woken since
  push, ticket, length, \* each push call: where it is, Admission, bytes
  reader,               \* the one call of next that holds the reader lock
  driver,               \* where run_driver is
  part_bytes,           \* the size of the part it holds
  audio,                \* the provider's AudioStream: "live" or "ended"
  user_abort,           \* the caller's AbortSignal: "quiet" or "fired"
  closer, terminator,   \* a consumer_close and a terminate in progress
  cleanup,              \* the JoinHandle: kept, being joined, disposed of
  owner,                \* the last Arc<Operation>
  \* history
  admitted,             \* push calls in admission order
  delivered,            \* push calls whose chunk the provider received
  yielded,              \* how many parts the provider yielded
  received,             \* parts that next returned
  error_reads, ended_reads

inputVars == <<input, done_sequence, admission_sequence, send_sequence,
               completed_admissions, ticket, length, admitted>>
queueVars == <<input_queue, input_bytes>>
outputVars == <<output_queue, output_bytes>>
terminalVars == <<terminal, terminal_error>>
readVars == <<reader, received, error_reads, ended_reads>>
driverVars == <<driver, part_bytes, yielded, user_abort>>
audioVars == <<audio, delivered>>
lifeVars == <<closer, terminator, cleanup, cleanup_failure, owner>>
vars == <<inputVars, queueVars, outputVars, terminalVars, readVars,
          driverVars, audioVars, lifeVars, consumer, parked, push>>

Init ==
  /\ input = "Open" /\ done_sequence = 0 /\ consumer = "Open"
  /\ admission_sequence = 0 /\ send_sequence = 0 /\ completed_admissions = {}
  /\ input_queue = <<>> /\ input_bytes = 0
  /\ output_queue = <<>> /\ output_bytes = 0
  /\ terminal = "None" /\ terminal_error = "None"
  /\ cleanup_failure = "None"
  /\ parked = {}
  /\ push = [p \in Pushes |-> "idle"]
  /\ ticket = [p \in Pushes |-> 0] /\ length = [p \in Pushes |-> 0]
  /\ reader = "idle" /\ driver = "start" /\ part_bytes = 0 /\ audio = "live"
  /\ user_abort = "quiet"
  /\ closer = "idle" /\ terminator = "idle" /\ cleanup = "kept"
  /\ owner = "starting"
  /\ admitted = <<>> /\ delivered = <<>> /\ yielded = 0 /\ received = <<>>
  /\ error_reads = 0 /\ ended_reads = 0

-----------------------------------------------------------------------------
(* Shared *)

(* notify_waiters and input_waker.wake(): nobody stays parked. *)
Wake == parked' = {}

(* The first terminal result is stored, the queued audio dropped. *)
Store(outcome, error) ==
  /\ terminal' = outcome
  /\ terminal_error' = error
  /\ input_queue' = <<>> /\ input_bytes' = 0
  /\ Wake

FinishOverwrites(outcome) == Store(outcome, IF outcome = "Error" THEN "Some" ELSE "None")

Finish(outcome) ==
  \/ terminal = "None" /\ Store(outcome, IF outcome = "Error" THEN "Some" ELSE "None")
  \/ terminal # "None" /\ UNCHANGED <<terminalVars, queueVars, parked>>

(* The abort signal fires with the store: it is set iff Cancelled is. *)
CancelShared ==
  \/ terminal = "None" /\ Store("Cancelled", "Some")
  \/ terminal # "None" /\ UNCHANGED <<terminalVars, queueVars, parked>>

(* A caller can use the operation while it holds a reference. *)
Held == owner = "held"

-----------------------------------------------------------------------------
(* Input: push, try_push, input_done *)

InputOpen == input = "Open" /\ terminal = "None"
LengthOk(n) == n <= ItemBytes /\ n <= InputBytes
InputRoom(n) ==
  Len(input_queue) < InputItems /\ input_bytes + n <= InputBytes

(* A call that is refused before admission leaves nothing behind. *)
Refuse(p) ==
  /\ push' = [push EXCEPT ![p] = "refused"]
  /\ UNCHANGED <<inputVars, queueVars, parked>>

(* The next admission sequence goes to p. *)
Admit(p, n) ==
  /\ admission_sequence' = admission_sequence + 1
  /\ ticket' = [ticket EXCEPT ![p] = admission_sequence]
  /\ length' = [length EXCEPT ![p] = n]
  /\ admitted' = Append(admitted, p)
  /\ UNCHANGED <<input, done_sequence, completed_admissions>>

(* push, up to the Admission. *)
Push(p, n) ==
  /\ Held /\ push[p] = "idle"
  /\ \/ /\ LengthOk(n) /\ InputOpen /\ admission_sequence < SeqMax
        /\ Admit(p, n)
        /\ push' = [push EXCEPT ![p] = "waiting"]
        /\ UNCHANGED <<send_sequence, queueVars, parked>>
     \/ /\ ~(LengthOk(n) /\ InputOpen /\ admission_sequence < SeqMax)
        /\ Refuse(p)
  /\ UNCHANGED <<outputVars, terminalVars, readVars, driverVars, audioVars,
                 lifeVars, consumer>>

(* One turn of the loop in push: fail, enqueue, or wait for a change. *)
CanSendOutOfTurn(p) == InputRoom(length[p])
CanSend(p) == send_sequence = ticket[p] /\ InputRoom(length[p])

PushSeesTerminal == terminal # "None"

PushTurn(p) ==
  /\ push[p] = "waiting" /\ p \notin parked
  /\ \/ /\ PushSeesTerminal
        /\ push' = [push EXCEPT ![p] = "dropping"]
        /\ UNCHANGED <<queueVars, parked>>
     \/ /\ ~PushSeesTerminal /\ CanSend(p)
        /\ input_queue' = Append(input_queue, p)
        /\ input_bytes' = input_bytes + length[p]
        /\ push' = [push EXCEPT ![p] = "sent"]
        /\ UNCHANGED parked
     \/ /\ ~PushSeesTerminal /\ ~CanSend(p)
        /\ parked' = parked \cup {p}
        /\ UNCHANGED <<queueVars, push>>
  /\ UNCHANGED <<inputVars, outputVars, terminalVars, readVars, driverVars,
                 audioVars, lifeVars, consumer>>

(* The caller drops a push future at its only await point. *)
AbandonPush(p) ==
  /\ push[p] = "waiting" /\ p \in parked
  /\ push' = [push EXCEPT ![p] = "dropping"]
  /\ parked' = parked \ {p}
  /\ UNCHANGED <<inputVars, queueVars, outputVars, terminalVars, readVars,
                 driverVars, audioVars, lifeVars, consumer>>

AdvanceSendOnce(completed) ==
  /\ send_sequence' = IF send_sequence \in completed THEN send_sequence + 1
                                                     ELSE send_sequence
  /\ completed_admissions' = completed \ {send_sequence}

(* The loop of Admission::drop: step over every completed sequence. *)
AdvanceSend(completed) ==
  \E n \in send_sequence .. admission_sequence :
    /\ \A m \in send_sequence .. (n - 1) : m \in completed
    /\ n \notin completed
    /\ send_sequence' = n
    /\ completed_admissions' = {m \in completed : m >= n}

(* The Admission goes when push returns or its future is dropped. *)
DropAdmission(p) ==
  /\ push[p] \in {"sent", "dropping"}
  /\ AdvanceSend(completed_admissions \cup {ticket[p]})
  /\ push' = [push EXCEPT ![p] = IF @ = "sent" THEN "ok" ELSE "gone"]
  /\ Wake
  /\ UNCHANGED <<input, done_sequence, admission_sequence, ticket, length,
                 admitted, queueVars, outputVars, terminalVars, readVars,
                 driverVars, audioVars, lifeVars, consumer>>

(* try_push: admission and enqueue in one critical section. *)
TryPushFits(n) ==
  /\ LengthOk(n) /\ InputOpen
  /\ admission_sequence = send_sequence /\ InputRoom(n)
  /\ admission_sequence < SeqMax

TryPush(p, n) ==
  /\ Held /\ push[p] = "idle"
  /\ \/ /\ TryPushFits(n)
        /\ Admit(p, n)
        /\ send_sequence' = admission_sequence + 1
        /\ input_queue' = Append(input_queue, p)
        /\ input_bytes' = input_bytes + n
        /\ push' = [push EXCEPT ![p] = "ok"]
        /\ Wake
     \/ ~TryPushFits(n) /\ Refuse(p)
  /\ UNCHANGED <<outputVars, terminalVars, readVars, driverVars, audioVars,
                 lifeVars, consumer>>

(* The boundary of InputState::Closed: admissions before it may complete. *)
CloseBoundaryAtSend == send_sequence
CloseBoundaryAtLast == admission_sequence - 1
CloseBoundary == admission_sequence

CloseInput ==
  /\ input' = "Closed"
  /\ done_sequence' = IF input = "Open" THEN CloseBoundary
                                        ELSE done_sequence
  /\ Wake
  /\ UNCHANGED <<admission_sequence, send_sequence, completed_admissions,
                 ticket, length, admitted>>

InputDone ==
  /\ Held
  /\ CloseInput
  /\ UNCHANGED <<queueVars, outputVars, terminalVars, readVars, driverVars,
                 audioVars, lifeVars, consumer, push>>

(* AudioStream::poll_next.  The pop notifies the tasks, not the waker.    *)
(* The provider polls its audio in the poll of its own stream, which the  *)
(* driver makes: not while it connects or waits for room in the output.   *)
PopNotifies == parked' = parked \cap {Audio}

AudioPoll ==
  /\ driver = "poll" /\ audio = "live" /\ Audio \notin parked
  /\ \/ /\ terminal # "None"
        /\ audio' = "ended"
        /\ UNCHANGED <<queueVars, delivered, parked>>
     \/ /\ terminal = "None" /\ input_queue # <<>>
        /\ input_queue' = Tail(input_queue)
        /\ input_bytes' = input_bytes - length[Head(input_queue)]
        /\ delivered' = Append(delivered, Head(input_queue))
        /\ PopNotifies
        /\ UNCHANGED audio
     \/ /\ terminal = "None" /\ input_queue = <<>>
        /\ input = "Closed" /\ send_sequence = done_sequence
        /\ audio' = "ended"
        /\ UNCHANGED <<queueVars, delivered, parked>>
     \/ /\ terminal = "None" /\ input_queue = <<>>
        /\ ~(input = "Closed" /\ send_sequence = done_sequence)
        /\ parked' = parked \cup {Audio}
        /\ UNCHANGED <<queueVars, audio, delivered>>
  /\ UNCHANGED <<inputVars, outputVars, terminalVars, readVars, driverVars,
                 lifeVars, consumer, push>>

-----------------------------------------------------------------------------
(* Output: next, cancel, consumer_close *)

(* next takes the reader lock; a second reader is refused. *)
NextCall ==
  /\ Held /\ reader = "idle"
  /\ reader' = "waiting"
  /\ UNCHANGED <<inputVars, queueVars, outputVars, terminalVars, received,
                 error_reads, ended_reads, driverVars, audioVars, lifeVars,
                 consumer, parked, push>>

(* terminal.error.take() *)
KeepError == UNCHANGED terminal_error
TakeError == terminal_error' = "None"

(* One turn of its loop: a part, the terminal error, Ended, or wait. *)
NextTurn ==
  /\ reader = "waiting" /\ Reader \notin parked
  /\ \/ /\ output_queue # <<>>
        /\ output_queue' = Tail(output_queue)
        /\ output_bytes' = output_bytes - Head(output_queue)[2]
        /\ received' = Append(received, Head(output_queue)[1])
        /\ reader' = "idle"
        /\ Wake
        /\ UNCHANGED <<terminal_error, error_reads, ended_reads>>
     \/ /\ output_queue = <<>> /\ terminal # "None"
        /\ terminal_error = "Some"
        /\ TakeError
        /\ error_reads' = error_reads + 1
        /\ reader' = "idle"
        /\ UNCHANGED <<outputVars, received, ended_reads, parked>>
     \/ /\ output_queue = <<>> /\ terminal # "None"
        /\ terminal_error = "None"
        /\ ended_reads' = 1          \* Ended may be read again and again
        /\ reader' = "idle"
        /\ UNCHANGED <<outputVars, terminal_error, received, error_reads,
                       parked>>
     \/ /\ output_queue = <<>> /\ terminal = "None"
        /\ parked' = parked \cup {Reader}
        /\ UNCHANGED <<outputVars, terminal_error, readVars>>
  /\ UNCHANGED <<inputVars, queueVars, terminal, driverVars, audioVars,
                 lifeVars, consumer, push>>

(* The poll times out, or its caller goes away, while it waits. *)
NextTimeout ==
  /\ reader = "waiting" /\ Reader \in parked
  /\ reader' = "idle"
  /\ parked' = parked \ {Reader}
  /\ UNCHANGED <<inputVars, queueVars, outputVars, terminalVars, received,
                 error_reads, ended_reads, driverVars, audioVars, lifeVars,
                 consumer, push>>

Cancel ==
  /\ Held /\ "cancel" \in Requests
  /\ CancelShared
  /\ UNCHANGED <<inputVars, outputVars, readVars, driverVars, audioVars,
                 lifeVars, consumer, push>>

(* The second critical section of consumer_close. *)
AbandonOutput ==
  /\ consumer' = "Closed"
  /\ output_queue' = <<>> /\ output_bytes' = 0
  /\ Wake

ConsumerClose ==
  /\ Held /\ "close" \in Requests /\ closer = "idle"
  /\ CancelShared
  /\ closer' = "clearing"
  /\ UNCHANGED <<inputVars, outputVars, readVars, driverVars, audioVars,
                 terminator, cleanup, cleanup_failure, owner, consumer, push>>

ConsumerCloseClear ==
  /\ closer = "clearing"
  /\ AbandonOutput
  /\ closer' = "idle"
  /\ UNCHANGED <<inputVars, queueVars, terminalVars, readVars, driverVars,
                 audioVars, terminator, cleanup, cleanup_failure, owner, push>>

-----------------------------------------------------------------------------
(* run_driver *)

DriverFrame == UNCHANGED <<inputVars, readVars, audioVars, lifeVars, consumer,
                           push>>

(* do_stream returns None: start fails, and nothing is stored. *)
DriverUnsupported ==
  /\ driver = "start"
  /\ driver' = "unsupported"
  /\ UNCHANGED <<part_bytes, yielded, user_abort, queueVars, outputVars, terminalVars,
                 parked>>
  /\ DriverFrame

(* accepted.send: it fails when start's future is already gone. *)
DriverAccepted ==
  /\ driver = "start"
  /\ \/ /\ owner = "starting"
        /\ driver' = "connect"
        /\ UNCHANGED <<terminalVars, queueVars, parked>>
     \/ /\ owner # "starting"
        /\ driver' = "done"
        /\ CancelShared
  /\ UNCHANGED <<part_bytes, yielded, user_abort, outputVars>>
  /\ DriverFrame

DriverConnected ==
  /\ driver = "connect"
  /\ driver' = "room"
  /\ UNCHANGED <<part_bytes, yielded, user_abort, queueVars, outputVars, terminalVars,
                 parked>>
  /\ DriverFrame

(* wait_output_capacity *)
OutputRoomIgnoresBytes(n) == Len(output_queue) < OutputItems

OutputRoom(n) ==
  /\ Len(output_queue) < OutputItems
  /\ output_bytes + n <= OutputBytes
  /\ output_bytes < OutputBytes

DriverRoom(pc, n, next) ==
  /\ driver = pc /\ Driver \notin parked
  /\ \/ /\ terminal # "None"
        /\ driver' = "done"
        /\ Finish("Error")
     \/ /\ terminal = "None" /\ OutputRoom(n)
        /\ driver' = next
        /\ UNCHANGED <<terminalVars, queueVars, parked>>
     \/ /\ terminal = "None" /\ ~OutputRoom(n)
        /\ parked' = parked \cup {Driver}
        /\ UNCHANGED <<driver, terminalVars, queueVars>>
  /\ UNCHANGED <<part_bytes, yielded, user_abort, outputVars>>
  /\ DriverFrame

(* stream.next yields a part; part_size refuses one that is too large. *)
PartLimit == IF ItemBytes < OutputBytes THEN ItemBytes ELSE OutputBytes

DriverPart(n) ==
  /\ driver = "poll" /\ yielded < MaxParts
  /\ \/ /\ n <= PartLimit
        /\ yielded' = yielded + 1 /\ part_bytes' = n
        /\ driver' = "roomfor"
        /\ UNCHANGED <<terminalVars, queueVars, parked>>
     \/ /\ n > PartLimit
        /\ driver' = "done"
        /\ Finish("Error")
        /\ UNCHANGED <<yielded, part_bytes>>
  /\ UNCHANGED <<user_abort, outputVars>>
  /\ DriverFrame

(* The last critical section of the loop: append unless terminated. *)
AppendMissesTerminal == FALSE
AppendSeesTerminal == terminal # "None"

DriverAppend ==
  /\ driver = "append"
  /\ \/ /\ AppendSeesTerminal
        /\ driver' = "done"
        /\ Finish("Success")
        /\ UNCHANGED outputVars
     \/ /\ ~AppendSeesTerminal
        /\ output_queue' = Append(output_queue, <<yielded, part_bytes>>)
        /\ output_bytes' = output_bytes + part_bytes
        /\ driver' = "room"
        /\ Wake
        /\ UNCHANGED <<terminalVars, queueVars>>
  /\ UNCHANGED <<part_bytes, yielded, user_abort>>
  /\ DriverFrame

(* The stream ends (Success), or connect, the stream or a poll of the     *)
(* provider fails or panics (Error).                                      *)
DriverEnds(outcome) ==
  /\ driver = "poll" \/ (driver = "connect" /\ outcome = "Error")
  /\ driver' = "done"
  /\ Finish(outcome)
  /\ UNCHANGED <<part_bytes, yielded, user_abort, outputVars>>
  /\ DriverFrame

(* The driver is suspended at an await of the select. *)
DriverSuspended ==
  \/ driver \in {"connect", "poll"}
  \/ driver \in {"room", "roomfor"} /\ Driver \in parked

(* The first two branches of the select: our abort, or the user's. *)
AbortIgnoresCancel == user_abort = "fired"
AbortRequested == terminal = "Cancelled" \/ user_abort = "fired"

DriverAbort ==
  /\ DriverSuspended
  /\ AbortRequested
  /\ driver' = "done"
  /\ CancelShared
  /\ UNCHANGED <<part_bytes, yielded, user_abort, outputVars>>
  /\ DriverFrame

UserAbort ==
  /\ user_abort = "quiet" /\ "abort" \in Requests
  /\ user_abort' = "fired"
  /\ UNCHANGED <<driver, part_bytes, yielded, queueVars, outputVars, terminalVars, parked>>
  /\ DriverFrame

-----------------------------------------------------------------------------
(* start, terminate, drop *)

LifeFrame == UNCHANGED <<readVars, part_bytes, yielded, user_abort, audioVars, push>>

StartReturns ==
  /\ owner = "starting" /\ driver \notin {"start", "unsupported"}
  /\ owner' = "held"
  /\ UNCHANGED <<inputVars, queueVars, outputVars, terminalVars, driver,
                 closer, terminator, cleanup, cleanup_failure, consumer,
                 parked>>
  /\ LifeFrame

(* terminate: cancel, input_done, then take the task. *)
Terminate ==
  /\ Held /\ "terminate" \in Requests /\ terminator = "idle"
  /\ CancelShared
  /\ terminator' = "closing"
  /\ UNCHANGED <<inputVars, outputVars, driver, closer, cleanup,
                 cleanup_failure, owner, consumer>>
  /\ LifeFrame

TerminateClose ==
  /\ terminator = "closing"
  /\ CloseInput
  /\ terminator' = "taking"
  /\ UNCHANGED <<queueVars, outputVars, terminalVars, driver, closer,
                 cleanup, cleanup_failure, owner, consumer>>
  /\ LifeFrame

DriverFinished == driver \in {"done", "unsupported"}

(* A finished task needs no join; otherwise a cleanup task gets it. *)
TakeTask ==
  cleanup' = IF cleanup # "kept" THEN cleanup
             ELSE IF DriverFinished THEN "disposed" ELSE "joining"

TerminateTake ==
  /\ terminator = "taking"
  /\ TakeTask
  /\ terminator' = "joining"
  /\ UNCHANGED <<inputVars, queueVars, outputVars, terminalVars, driver,
                 closer, cleanup_failure, owner, consumer, parked>>
  /\ LifeFrame

TerminateReturns ==
  /\ terminator = "joining" /\ cleanup = "disposed"
  /\ terminator' = "returned"
  /\ UNCHANGED <<inputVars, queueVars, outputVars, terminalVars, driver,
                 closer, cleanup, cleanup_failure, owner, consumer, parked>>
  /\ LifeFrame

(* join_driver: the driver is joined, or aborted after five seconds. *)
CleanupJoin ==
  /\ cleanup = "joining" /\ DriverFinished
  /\ cleanup' = "disposed"
  /\ UNCHANGED <<inputVars, queueVars, outputVars, terminalVars, driver,
                 closer, terminator, cleanup_failure, owner, consumer, parked>>
  /\ LifeFrame

CleanupTimeout ==
  /\ cleanup = "joining" /\ ~DriverFinished
  /\ cleanup' = "disposed"
  /\ cleanup_failure' = "Some"
  /\ Wake
  /\ UNCHANGED <<inputVars, queueVars, outputVars, terminalVars, driver,
                 closer, terminator, owner, consumer>>
  /\ LifeFrame

(* The aborted task is dropped where it is suspended. *)
DriverDropped ==
  /\ cleanup_failure = "Some" /\ DriverSuspended
  /\ driver' = "done"
  /\ UNCHANGED <<inputVars, queueVars, outputVars, terminalVars, lifeVars,
                 consumer, parked>>
  /\ LifeFrame

(* No call is in progress, so the last reference can go. *)
Quiet ==
  /\ \A p \in Pushes : push[p] \notin {"waiting", "sent", "dropping"}
  /\ reader = "idle" /\ closer = "idle" /\ terminator \in {"idle", "returned"}

(* Drop for Operation: consumer_close, then hand the task to a cleanup.   *)
(* It also runs when start fails or its future is dropped.                *)
Drop ==
  /\ owner \in {"starting", "held"} /\ Quiet
  /\ CancelShared
  /\ owner' = "clearing"
  /\ UNCHANGED <<inputVars, outputVars, driver, closer, terminator, cleanup,
                 cleanup_failure, consumer>>
  /\ LifeFrame

DropClear ==
  /\ owner = "clearing"
  /\ AbandonOutput
  /\ owner' = "joining"
  /\ UNCHANGED <<inputVars, queueVars, terminalVars, driver, closer,
                 terminator, cleanup, cleanup_failure>>
  /\ LifeFrame

DropJoin ==
  /\ owner = "joining"
  /\ TakeTask
  /\ owner' = "dropped"
  /\ UNCHANGED <<inputVars, queueVars, outputVars, terminalVars, driver,
                 closer, terminator, cleanup_failure, consumer, parked>>
  /\ LifeFrame

-----------------------------------------------------------------------------
DriverTurn ==
  \/ DriverRoom("room", 0, "poll")
  \/ DriverRoom("roomfor", part_bytes, "append")
  \/ DriverAppend

DriverNext ==
  \/ DriverUnsupported \/ DriverAccepted \/ DriverConnected
  \/ DriverTurn
  \/ \E n \in PartSizes : DriverPart(n)
  \/ \E outcome \in {"Success", "Error"} : DriverEnds(outcome)
  \/ DriverAbort \/ DriverDropped

CallerNext ==
  \/ \E p \in Pushes, n \in Lengths : Push(p, n) \/ TryPush(p, n)
  \/ \E p \in Pushes : PushTurn(p) \/ AbandonPush(p) \/ DropAdmission(p)
  \/ InputDone \/ NextCall \/ NextTurn \/ NextTimeout
  \/ Cancel \/ ConsumerClose \/ ConsumerCloseClear \/ UserAbort

LifeNext ==
  \/ StartReturns
  \/ Terminate \/ TerminateClose \/ TerminateTake \/ TerminateReturns
  \/ CleanupJoin \/ CleanupTimeout
  \/ Drop \/ DropClear \/ DropJoin

Next == CallerNext \/ AudioPoll \/ DriverNext \/ LifeNext

Spec == Init /\ [][Next]_vars

(***************************************************************************)
(* Fairness.  What the runtime schedules is weakly fair: the turns of      *)
(* woken tasks, destructors, the cleanup timer.  The callers and the       *)
(* provider's stream are not: they may stop calling or yielding.  A        *)
(* provider whose stream is polled is assumed to poll its audio, and to    *)
(* return from its polls so that the select sees the abort.                *)
(***************************************************************************)
Fairness ==
  /\ \A p \in Pushes : WF_vars(PushTurn(p)) /\ WF_vars(DropAdmission(p))
  /\ WF_vars(AudioPoll) /\ WF_vars(NextTurn) /\ WF_vars(ConsumerCloseClear)
  /\ WF_vars(DriverUnsupported \/ DriverAccepted) /\ WF_vars(StartReturns)
  /\ WF_vars(DriverTurn) /\ WF_vars(DriverAbort) /\ WF_vars(DriverDropped)
  /\ WF_vars(TerminateClose) /\ WF_vars(TerminateTake)
  /\ WF_vars(TerminateReturns)
  /\ WF_vars(CleanupJoin) /\ WF_vars(CleanupTimeout)
  /\ WF_vars(DropClear) /\ WF_vars(DropJoin)

FairSpec == Spec /\ Fairness

-----------------------------------------------------------------------------
(* Types *)

Outcomes == {"None", "Success", "Error", "Cancelled"}

TypeInput ==
  /\ input \in {"Open", "Closed"} /\ done_sequence \in Nat
  /\ admission_sequence \in Nat /\ send_sequence \in Nat
  /\ completed_admissions \subseteq Nat
  /\ ticket \in [Pushes -> Nat] /\ length \in [Pushes -> Nat]
  /\ admitted \in Seq(Pushes)

TypeQueues ==
  /\ input_queue \in Seq(Pushes) /\ input_bytes \in Int
  /\ output_queue \in Seq(Nat \X Nat) /\ output_bytes \in Int

TypeCalls ==
  /\ push \in [Pushes -> {"idle", "waiting", "sent", "dropping", "ok",
                          "gone", "refused"}]
  /\ parked \subseteq Pushes \cup {Reader, Driver, Audio}

TypeResults ==
  /\ terminal \in Outcomes /\ terminal_error \in {"None", "Some"}
  /\ consumer \in {"Open", "Closed"}
  /\ reader \in {"idle", "waiting"} /\ received \in Seq(Nat)
  /\ error_reads \in Nat /\ ended_reads \in {0, 1}

TypeDriver ==
  /\ driver \in {"start", "unsupported", "connect", "room", "poll",
                 "roomfor", "append", "done"}
  /\ part_bytes \in Nat /\ yielded \in Nat
  /\ user_abort \in {"quiet", "fired"}
  /\ audio \in {"live", "ended"} /\ delivered \in Seq(Pushes)

TypeLife ==
  /\ closer \in {"idle", "clearing"}
  /\ terminator \in {"idle", "closing", "taking", "joining", "returned"}
  /\ cleanup \in {"kept", "joining", "disposed"}
  /\ cleanup_failure \in {"None", "Some"}
  /\ owner \in {"starting", "held", "clearing", "joining", "dropped"}

TypeOK ==
  TypeInput /\ TypeQueues /\ TypeCalls /\ TypeResults /\ TypeDriver /\ TypeLife

-----------------------------------------------------------------------------
(* Admission *)

Admitted(p) == push[p] \in {"waiting", "sent", "dropping", "ok", "gone"}
HoldsAdmission(p) == push[p] \in {"waiting", "sent", "dropping"}

(* Tickets number the admitted calls in the order they were admitted. *)
TicketsNumberCalls ==
  /\ Len(admitted) = admission_sequence
  /\ \A i \in 1 .. admission_sequence :
       Admitted(admitted[i]) /\ ticket[admitted[i]] = i - 1
  /\ \A p \in Pushes : Admitted(p) =>
       ticket[p] < admission_sequence /\ admitted[ticket[p] + 1] = p

(* Every sequence between send_sequence and admission_sequence is either  *)
(* completed or held by a push call still in progress, and send_sequence  *)
(* itself is held by one: the line can always move on.                    *)
SequencesAccountedFor ==
  /\ send_sequence <= admission_sequence /\ admission_sequence <= SeqMax
  /\ completed_admissions \subseteq
        (send_sequence + 1) .. (admission_sequence - 1)
  /\ \A n \in send_sequence .. (admission_sequence - 1) :
        n \notin completed_admissions
          <=> \E p \in Pushes : HoldsAdmission(p) /\ ticket[p] = n
  /\ \A p \in Pushes : HoldsAdmission(p) => send_sequence <= ticket[p]

(* Admission::drop and push keep the two sequences, the completed set and *)
(* the calls in progress in step, whatever order the calls end in.        *)
AdmissionCoherent == TicketsNumberCalls /\ SequencesAccountedFor

(* After input_done no push is admitted, and the provider is told the     *)
(* audio is over only when every admitted push has been sent and          *)
(* delivered, or was abandoned, or the operation is terminal.             *)
EndOfAudioIsComplete ==
  /\ input = "Closed" => done_sequence = admission_sequence
  /\ audio = "ended" /\ terminal = "None" =>
       /\ input = "Closed" /\ input_queue = <<>>
       /\ \A p \in Pushes : ~HoldsAdmission(p)

(* The audio of the operation, seen as a line of pushes: a push stands in *)
(* it until its chunk is queued or its caller stops waiting.              *)
AudioOrder == INSTANCE AudioLine WITH
  line <- admitted,
  standing <- {p \in Pushes : push[p] = "waiting"},
  queue <- input_queue

(* The tickets of push, try_push and Admission keep that order: no chunk  *)
(* overtakes an earlier one, none is delivered twice or after the end,    *)
(* and the end is announced only when nothing can follow.                 *)
AudioInAdmissionOrder == AudioOrder!LineSpec

(* The running sum of sizes ends at total. *)
AddsUpTo(sizes, total) ==
  \E sum \in [0 .. Len(sizes) -> 0 .. total] :
    /\ sum[0] = 0 /\ sum[Len(sizes)] = total
    /\ \A i \in 1 .. Len(sizes) : sum[i] = sum[i - 1] + sizes[i]

(* A chunk counts against the queues exactly while it is queued. *)
BytesMatchQueues ==
  /\ AddsUpTo([i \in 1 .. Len(input_queue) |-> length[input_queue[i]]],
              input_bytes)
  /\ AddsUpTo([i \in 1 .. Len(output_queue) |-> output_queue[i][2]],
              output_bytes)

(* Neither queue exceeds its budget, although the driver finds room and   *)
(* appends in different critical sections: the room is still there.       *)
WithinLimits ==
  /\ part_bytes <= PartLimit
  /\ driver = "append" => OutputRoom(part_bytes)
  /\ Len(input_queue) <= InputItems /\ input_bytes <= InputBytes
  /\ Len(output_queue) <= OutputItems /\ output_bytes <= OutputBytes

-----------------------------------------------------------------------------
(* Terminal result and output *)

(* Cancelling and clearing are two critical sections of consumer_close:   *)
(* nothing reappears in the output of a closed consumer.                  *)
ClosedConsumerStaysEmpty ==
  /\ consumer = "Closed" => output_queue = <<>> /\ terminal # "None"
  /\ closer = "clearing" \/ owner \notin {"starting", "held"}
       => terminal # "None"

(* A successful operation delivers, in order, every part the provider     *)
(* yielded, unless the consumer closed.                                   *)
SuccessDeliversAll ==
  terminal = "Success" /\ consumer = "Open" /\ closer = "idle" =>
    received \o [i \in 1 .. Len(output_queue) |-> output_queue[i][1]]
      = [i \in 1 .. yielded |-> i]

(* The error of a failed or cancelled operation is read at most once, and *)
(* Ended only after it; a successful one never reports an error.          *)
ErrorReadOnce ==
  /\ error_reads = (IF terminal \in {"Error", "Cancelled"}
                       /\ terminal_error = "None" THEN 1 ELSE 0)
  /\ ended_reads = 1 => terminal = "Success" \/ error_reads = 1

(* What next returns, whatever races with it: every part the driver        *)
(* yielded before a success, then one end; an error is read once; and the  *)
(* byte counters that gate both queues match what is queued.               *)
DeliveryIsSound ==
  SuccessDeliversAll /\ ErrorReadOnce /\ BytesMatchQueues

(* The first terminal result stands: no later finish or cancel rewrites   *)
(* it, and its error never comes back.                                    *)
TerminalIsFinal ==
  [][terminal # "None" =>
       /\ terminal' = terminal
       /\ (terminal_error = "None" => terminal_error' = "None")]_vars

-----------------------------------------------------------------------------
(* Liveness *)

(* The driver keeps coming back to the provider's stream, or ends: it is  *)
(* not held for ever by a connection or by an output that nobody reads.   *)
StreamIsPolled == []<>(driver = "poll" \/ DriverFinished)

(* Every admitted push returns: it is sent, or released by a terminal     *)
(* result, whatever the calls in front of it do, unless the driver cannot *)
(* poll the stream that takes the audio.                                  *)
PushesReturn ==
  StreamIsPolled => \A p \in Pushes : HoldsAdmission(p) ~> ~HoldsAdmission(p)

(* A reader is not left waiting when there is something to read. *)
ReadersAreServed ==
  reader = "waiting" /\ (output_queue # <<>> \/ terminal # "None")
    ~> reader = "idle"

(* After input_done the provider's audio stream ends, or the driver drops *)
(* it.                                                                    *)
AudioEnds ==
  StreamIsPolled =>
    (input = "Closed" /\ owner = "held" ~> audio = "ended" \/ DriverFinished)

(* A terminal operation, and one whose owner is gone, stops its driver. *)
DriverStops ==
  /\ terminal # "None" ~> DriverFinished
  /\ owner = "dropped" ~> DriverFinished

(* A terminate returns, also when its driver has to be given up. *)
TerminateEnds == terminator # "idle" ~> terminator = "returned"

(* Nobody waits for ever on an operation: readers, terminate and the       *)
(* driver do not, and pushes and the audio wait no longer than the driver  *)
(* is kept from the provider's stream.                                     *)
OperationProgresses ==
  PushesReturn /\ ReadersAreServed /\ AudioEnds /\ DriverStops /\ TerminateEnds
=============================================================================
