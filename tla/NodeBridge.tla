----------------------------- MODULE NodeBridge ------------------------------
(***************************************************************************)
(* The stream bridge of the Node binding, bindings/node/src/bridge.rs.     *)
(*                                                                         *)
(* A task (produce) polls the FrameStream and fills a bounded channel; the *)
(* futures of FrameIterator::next drain it; close runs on the JavaScript   *)
(* thread.  The terminal is kept outside the channel.  The channel and the *)
(* semaphore are tokio's: a reserved slot counts against the capacity, a   *)
(* dropped sender shows only when the channel is drained, and a closed     *)
(* receiver refuses reservations.                                          *)
(***************************************************************************)
EXTENDS FrameStream

CONSTANTS
  Items, Bytes      \* ITEMS and BYTES: the capacity of the channel

(* A single frame always fits: SINGLE is below BYTES. *)
ASSUME BridgeAssumption ==
  Items \in Nat \ {0} /\ Bytes \in Nat /\ ItemBytes <= Bytes

VARIABLES
  producer,     \* where produce is; it holds a slot between reserve and send
  held,         \* the event it holds: <<seq, size>>
  next_seq,     \* the number after the last frame it sent
  queue,        \* the channel: <<seq, size>>
  free,         \* permits left in the byte semaphore
  terminal,     \* the terminal slot: a frame, or NoFrame
  receiver,     \* "open", or "closed" by close()
  closed,       \* Bridge.closed: "no" or "yes"
  reader,       \* where the one admitted call of next is
  got,          \* the entry it took from the channel
  asked,        \* history: "open", or "late" if it was called after close()
  closer,       \* where a call of close() is
  yielded       \* the frames JavaScript was given

producerVars == <<producer, held, next_seq>>
channelVars == <<queue, free, receiver>>
readerVars == <<reader, got, asked, yielded>>
bridgeVars == <<frameVars, producerVars, channelVars, readerVars, terminal,
                closed, closer>>

NoFrame == [type |-> "None", seq |-> 0, outcome |-> "None"]

BridgeInit ==
  /\ FrameInit
  /\ producer = "reserve" /\ held = <<0, 0>> /\ next_seq = 0
  /\ queue = <<>> /\ free = Bytes /\ receiver = "open"
  /\ terminal = NoFrame /\ closed = "no"
  /\ reader = "idle" /\ got = <<0, 0>> /\ asked = "open" /\ closer = "idle"
  /\ yielded = <<>>

(* What produce has in its hands: a slot of the channel, an event, and the *)
(* event's permit.                                                         *)
HoldsSlot == producer \in {"poll", "permit", "send", "sending"}
HoldsEvent == producer \in {"permit", "send", "sending"}
HoldsPermit == producer \in {"send", "sending"}

(* next has taken an entry, and its permit, out of the channel. *)
HoldsEntry == reader \in {"got", "hand"}

-----------------------------------------------------------------------------
(* produce *)

(* Leaving the loop: the terminal is stored, then the locals are dropped. *)
Break(frame) ==
  /\ terminal' = Seen(frame)
  /\ producer' = "drop"

Cancelled(n) == Break(EndFrame(n, "Cancelled", Small))

(* A free slot in the channel. *)
HasSlot == Len(queue) < Items

(* sender.reserve(), raced against the abort signal.  The signal may fire *)
(* after the channel was found full, or tokio may make a free slot wait.  *)
ProduceReserve ==
  /\ producer = "reserve"
  /\ \/ /\ receiver = "open" /\ HasSlot
        /\ producer' = "poll"
        /\ UNCHANGED <<signal, terminal>>
     \/ /\ receiver = "closed"
        /\ signal' = "aborted"
        /\ Cancelled(next_seq)
     \/ /\ signal = "aborted"
        /\ Cancelled(next_seq)
        /\ UNCHANGED signal
  /\ UNCHANGED <<events, seq, held, next_seq, channelVars, readerVars,
                 closed, closer>>

(* stream.next() is ready: an event is held, End leaves the loop. *)
ProducePoll(up) ==
  /\ producer = "poll"
  /\ FramePoll(up)
  /\ LET frame == PolledFrame(up) IN
     \/ /\ ~Passes(frame.size)
        /\ signal' = "aborted"
        /\ Break(EndFrame(frame.seq, "Error", Small))
        /\ UNCHANGED held
     \/ /\ Passes(frame.size) /\ frame.type = "End"
        /\ Break(frame)
        /\ UNCHANGED <<signal, held>>
     \/ /\ Passes(frame.size) /\ frame.type = "Event"
        /\ held' = <<frame.seq, frame.size>>
        /\ producer' = "permit"
        /\ UNCHANGED <<signal, terminal>>
  /\ UNCHANGED <<next_seq, channelVars, readerVars, closed, closer>>

(* stream.next() was pending when the signal fired or the receiver closed. *)
ProducePollCancelled ==
  /\ producer = "poll"
  /\ signal = "aborted" \/ receiver = "closed"
  /\ signal' = "aborted"
  /\ Cancelled(next_seq)
  /\ UNCHANGED <<events, seq, held, next_seq, channelVars, readerVars,
                 closed, closer>>

(* The byte budget, raced against the abort signal. *)
ProducePermit ==
  /\ producer = "permit"
  /\ \/ /\ signal = "aborted"
        /\ Cancelled(held[1])
        /\ UNCHANGED free
     \/ /\ signal = "quiet" /\ held[2] <= free
        /\ free' = free - held[2]
        /\ producer' = "send"
        /\ UNCHANGED terminal
  /\ UNCHANGED <<frameVars, held, next_seq, queue, receiver, readerVars,
                 closed, closer>>

(* The last look at the signal; a signal that fires after it does not keep *)
(* the event out of the channel.                                           *)
LeakedPermit == free
FreeAfterLateAbort == free + held[2]

ProduceLook ==
  /\ producer = "send"
  /\ \/ /\ signal = "aborted"
        /\ Cancelled(held[1])
        /\ free' = FreeAfterLateAbort
     \/ /\ signal = "quiet"
        /\ producer' = "sending"
        /\ UNCHANGED <<free, terminal>>
  /\ UNCHANGED <<frameVars, held, next_seq, queue, receiver, readerVars,
                 closed, closer>>

(* slot.send, which a closed receiver does not refuse: the slot was taken  *)
(* before.                                                                 *)
SameSeq == held[1]
SeqAfterSend == held[1] + 1

ProduceSend ==
  /\ producer = "sending"
  /\ queue' = Append(queue, held)
  /\ next_seq' = SeqAfterSend
  /\ producer' = "reserve"
  /\ UNCHANGED <<frameVars, held, free, receiver, readerVars, terminal,
                 closed, closer>>

(* produce returns: the stream, the request and the sender are dropped. *)
ProduceDrop ==
  /\ producer = "drop"
  /\ producer' = "gone"
  /\ signal' = SignalAfterDrop
  /\ events' = "gone"
  /\ UNCHANGED <<seq, held, next_seq, channelVars, readerVars, terminal,
                 closed, closer>>

-----------------------------------------------------------------------------
(* FrameIterator: next, close, and the other holders of the signal *)

HoldsReceiver == reader \in {"recv", "got", "hand", "eof", "take"}

(* next() enters on the JavaScript thread; a second one is refused by     *)
(* the reading flag and changes nothing.                                  *)
NextCall ==
  /\ reader = "idle" /\ closer \in {"idle", "done"}
  /\ reader' = "check"
  /\ asked' = IF closer = "idle" THEN "open" ELSE "late"
  /\ UNCHANGED <<frameVars, producerVars, channelVars, got, yielded,
                 terminal, closed, closer>>

NextCheck ==
  /\ reader = "check"
  /\ reader' = IF closed = "yes" THEN "idle" ELSE "lock"
  /\ UNCHANGED <<frameVars, producerVars, channelVars, got, asked, yielded,
                 terminal, closed, closer>>

NextLock ==
  /\ reader = "lock"
  /\ reader' = "recv"
  /\ UNCHANGED <<frameVars, producerVars, channelVars, got, asked, yielded,
                 terminal, closed, closer>>

(* receiver.recv() yields an entry, or None once nothing can come. *)
NextRecv ==
  /\ reader = "recv"
  /\ \/ /\ queue # <<>>
        /\ got' = Head(queue) /\ queue' = Tail(queue)
        /\ reader' = "got"
     \/ /\ queue = <<>>
        /\ producer = "gone" \/ (receiver = "closed" /\ ~HoldsSlot)
        /\ reader' = "eof"
        /\ UNCHANGED <<got, queue>>
  /\ UNCHANGED <<frameVars, producerVars, free, receiver, asked, yielded,
                 terminal, closed, closer>>

(* The load of the flag after recv: a closed iterator drops the entry, and *)
(* its permit and the receiver lock go with the future.                    *)
NextGot ==
  /\ reader = "got"
  /\ \/ closed = "yes" /\ reader' = "idle" /\ free' = free + got[2]
     \/ closed = "no" /\ reader' = "hand" /\ UNCHANGED free
  /\ UNCHANGED <<frameVars, producerVars, queue, receiver, got, asked, yielded,
                 terminal, closed, closer>>

(* The entry is returned; close() may have run since the load. *)
NextHand ==
  /\ reader = "hand"
  /\ yielded' = Append(yielded, Seen(EventFrame(got[1], got[2])))
  /\ free' = free + got[2]
  /\ reader' = "idle"
  /\ UNCHANGED <<frameVars, producerVars, queue, receiver, got, asked, terminal,
                 closed, closer>>

(* closed.swap(true): only the first to swap goes on to the terminal. *)
NextEof ==
  /\ reader = "eof"
  /\ reader' = IF closed = "yes" THEN "idle" ELSE "take"
  /\ closed' = "yes"
  /\ UNCHANGED <<frameVars, producerVars, channelVars, got, asked, yielded,
                 terminal, closer>>

(* The terminal is taken out of its slot and returned. *)
NextTake ==
  /\ reader = "take"
  /\ yielded' = Append(yielded, terminal)
  /\ terminal' = NoFrame
  /\ reader' = "idle"
  /\ UNCHANGED <<frameVars, producerVars, channelVars, got, asked, closed,
                 closer>>

(* return(), throw() and collection of the iterator: set the flag, abort, *)
(* then drain the channel if no next holds the receiver.                  *)
CloseWithoutFlag == UNCHANGED closed
CloseFlags == closed' = "yes"

Close ==
  /\ closer \in {"idle", "done"}
  /\ CloseFlags
  /\ closer' = "abort"
  /\ UNCHANGED <<frameVars, producerVars, channelVars, readerVars, terminal>>

CloseWithoutAbort == UNCHANGED signal
CloseSignals == signal' = "aborted"

CloseAbort ==
  /\ closer = "abort"
  /\ CloseSignals
  /\ closer' = "drain"
  /\ UNCHANGED <<events, seq, producerVars, channelVars, readerVars,
                 terminal, closed>>

(* The bytes of the entries in the channel. *)
QueuedBytes == TotalBytes(queue)

CloseDrain ==
  /\ closer = "drain"
  /\ closer' = "done"
  /\ \/ HoldsReceiver /\ UNCHANGED channelVars
     \/ /\ ~HoldsReceiver
        /\ receiver' = "closed"
        /\ queue' = <<>> /\ free' = free + QueuedBytes
  /\ UNCHANGED <<frameVars, producerVars, readerVars, terminal, closed>>

(* The caller's Abort, environment cleanup, or another user of the signal. *)
ExternalAbort ==
  /\ signal = "quiet"
  /\ signal' = "aborted"
  /\ UNCHANGED <<events, seq, producerVars, channelVars, readerVars,
                 terminal, closed, closer>>

-----------------------------------------------------------------------------
ProducerNext ==
  \/ ProduceReserve \/ (\E up \in Answers : ProducePoll(up))
  \/ ProducePollCancelled \/ ProducePermit \/ ProduceLook \/ ProduceSend
  \/ ProduceDrop

ReaderNext ==
  \/ NextCall \/ NextCheck \/ NextLock \/ NextRecv
  \/ NextGot \/ NextHand \/ NextEof \/ NextTake

CloserNext == Close \/ CloseAbort \/ CloseDrain

BridgeNext == ProducerNext \/ ReaderNext \/ CloserNext \/ ExternalAbort

BridgeSpec == BridgeInit /\ [][BridgeNext]_bridgeVars

(***************************************************************************)
(* Fairness.  Tokio runs every task that is ready and JavaScript runs      *)
(* close() to its end.  Nobody has to call next() or close(), and the      *)
(* upstream may stay silent.                                               *)
(***************************************************************************)
BridgeFairness ==
  /\ WF_bridgeVars(ProduceReserve) /\ WF_bridgeVars(ProducePollCancelled)
  /\ WF_bridgeVars(ProducePermit) /\ WF_bridgeVars(ProduceLook)
  /\ WF_bridgeVars(ProduceSend) /\ WF_bridgeVars(ProduceDrop)
  /\ WF_bridgeVars(NextCheck) /\ WF_bridgeVars(NextLock)
  /\ WF_bridgeVars(NextRecv) /\ WF_bridgeVars(NextGot)
  /\ WF_bridgeVars(NextHand) /\ WF_bridgeVars(NextEof)
  /\ WF_bridgeVars(NextTake)
  /\ WF_bridgeVars(CloseAbort) /\ WF_bridgeVars(CloseDrain)

BridgeFairSpec == BridgeSpec /\ BridgeFairness

-----------------------------------------------------------------------------
(* Properties *)

(* The frames JavaScript reads follow the frame protocol: however close,  *)
(* abort, a full channel and the end of the stream race, no event is      *)
(* skipped or repeated, and the one terminal carries the next number.     *)
Iterator == INSTANCE FrameProtocol WITH out <- yielded
IteratorFollowsProtocol == Iterator!ProtocolSpec

Count(b) == IF b THEN 1 ELSE 0

(* The bridge is lossless: every event pulled from the upstream has been  *)
(* yielded, is in the channel, or is in the hands of produce or next,     *)
(* until someone aborts or closes; and it pulls no further ahead than the *)
(* channel is long.                                                       *)
Lossless ==
  /\ signal = "quiet" /\ closed = "no" =>
       seq = Len(yielded) + Count(HoldsEntry) + Len(queue) + Count(HoldsEvent)
  /\ Len(queue) + Count(HoldsSlot) <= Items

(* Every permit of the byte budget is free, in the channel, or held by    *)
(* the frame being sent or returned.                                      *)
BudgetIsBalanced ==
  /\ free >= 0
  /\ Bytes = free + QueuedBytes
               + (IF HoldsPermit THEN held[2] ELSE 0)
               + (IF HoldsEntry THEN got[2] ELSE 0)

(* Success is reported only of a stream that ended by itself and whose    *)
(* every event was read.                                                  *)
SuccessIsComplete ==
  \A i \in 1 .. Len(yielded) :
    yielded[i].outcome = "Success" => events = "gone" /\ i = seq + 1

(* bridge.rs: between the upstream and JavaScript no event and no byte of  *)
(* the budget is lost, and a success is told after the last event only.    *)
NothingIsLost == Lossless /\ BudgetIsBalanced /\ SuccessIsComplete

(* A next called after close() is given nothing, whatever was in the       *)
(* channel, on its way into it or stored as the terminal.  Only the one    *)
(* next that was pending when close() ran may still be given a frame: it   *)
(* may have loaded the flag before close() set it.                         *)
SilentAfterClose == [][yielded' # yielded => asked = "open"]_bridgeVars

(* An abort or a close reaches the producer, also one that waits for a    *)
(* slot, for bytes or for the upstream.                                   *)
AbortStopsProducer ==
  signal = "aborted" \/ closed = "yes" ~> producer = "gone"

(* No call of next waits for a producer that is gone. *)
ReadersReturn ==
  /\ reader # "idle" /\ (producer = "gone" \/ closed = "yes") ~> reader = "idle"
  /\ reader # "idle" /\ queue # <<>> ~> reader = "idle"

(* An abort or a close stops the producer and returns every pending next.  *)
BridgeSettles == AbortStopsProducer /\ ReadersReturn
=============================================================================
