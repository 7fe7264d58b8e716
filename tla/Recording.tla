------------------------------ MODULE Recording ------------------------------
(***************************************************************************)
(* JsonlRecorder: calls send their events over a bounded channel that      *)
(* drops the newest, one writer thread merges them per call and writes a   *)
(* line once the call's barrier is met, evicts calls when too many are     *)
(* pending, and writes the rest as incomplete when the recorder goes.      *)
(*                                                                         *)
(* An exchange of a call is known by its attempt and its index in it,      *)
(* which RecordingContext gives out once for all attempts and children of  *)
(* the call: here a number.  One that fails is recorded whole; one that is *)
(* answered is recorded as a skeleton, and updated when its body ends.     *)
(*                                                                         *)
(* The senders of a call are its operation (generate.rs and the HTTP layer *)
(* under it), sender 0, and the body of each exchange that was answered    *)
(* (http.rs), which may be read in another task.                           *)
(***************************************************************************)
EXTENDS Naturals, FiniteSets, Sequences, SequencesExt, Functions

CONSTANTS Calls,
          Exchanges,
          QueueMax,   \* JSONL_CHANNEL_CAPACITY
          PendingMax, \* JSONL_PENDING_MAX
          EvictedMax, \* JSONL_EVICTED_TRACK_MAX
          OperationEvents \* per call, what its operation sends, in order

(* The events: those of a call carry no exchange.                          *)
Input == <<"input", 0>>
Provider == <<"provider", 0>>
Session == <<"session", 0>>
Outcome == <<"outcome", 0>>
Closed == <<"closed", 0>>
Skeleton(e) == <<"exchange", e>> \* finalized: false
Failed(e) == <<"failed", e>>     \* finalized: true
Update(e) == <<"update", e>>

(* What the finalization of an observed body sends.                        *)
BodyEvents(e) == <<Update(e), Closed>>

Updates == {Update(e) : e \in Exchanges}
OperationFields ==
    {Input, Provider, Session, Outcome}
        \cup {Skeleton(e) : e \in Exchanges} \cup {Failed(e) : e \in Exchanges}
Fields == OperationFields \cup Updates

ASSUME RecordingAssumption ==
    /\ {QueueMax, PendingMax, EvictedMax} \subseteq Nat \ {0}
    /\ Exchanges \subseteq Nat \ {0}
    /\ OperationEvents \in [Calls -> Seq(OperationFields \cup {Closed})]
    \* The input first, the outcome last, each exchange once: only "closed"
    \* comes again.
    /\ \A c \in Calls : LET script == OperationEvents[c] IN
          /\ \A i, j \in DOMAIN script : i < j =>
                /\ script[j] # Input
                /\ script[i] \in {Outcome, script[j]} => script[j] = Closed
          /\ \A e \in Exchanges : {Skeleton(e), Failed(e)} \cap Range(script)
                # {Skeleton(e), Failed(e)}

VARIABLES
    sent,     \* per call and sender, the number of events sent
    marking,  \* senders that dropped an event and have yet to mark the call
    queue,
    lossy, inconsistent,      \* DamagedCalls
    pending, order, evicted,  \* the writer's calls, their order, the tracker
    writeError,
    flusher,  \* "idle", "sent", or what try_flush returned, "ok" or "error"
    writer,   \* "running", "closing" (senders gone) or "ended"
    lines,    \* per call, the lines that reached the file
    lost      \* events of each call that were dropped (history)

senders == <<sent, marking, lost>>
damaged == <<lossy, inconsistent>>
store == <<pending, order, evicted>>
file == <<writeError, lines>>
vars == <<senders, queue, damaged, store, file, flusher, writer>>

Senders == {0} \cup Exchanges
Script(c, s) == IF s = 0 THEN OperationEvents[c] ELSE BodyEvents(s)
Began(c, s) ==
    s # 0 => \E i \in 1 .. sent[c][0] : OperationEvents[c][i] = Skeleton(s)

Init ==
    /\ sent = [c \in Calls |-> [s \in Senders |-> 0]]
    /\ marking = {} /\ queue = <<>> /\ lossy = {} /\ inconsistent = {}
    /\ pending = <<>> /\ order = <<>> /\ evicted = <<>>
    /\ writeError = FALSE /\ flusher = "idle" /\ writer = "running"
    /\ lines = [c \in Calls |-> <<>>]
    /\ lost = [c \in Calls |-> {}]

-----------------------------------------------------------------------------
(* The senders.  A full channel drops the event; the mark follows it.      *)

Send(c, s) ==
    /\ writer = "running" /\ <<c, s>> \notin marking
    /\ Began(c, s) /\ sent[c][s] < Len(Script(c, s))
    /\ sent' = [sent EXCEPT ![c][s] = @ + 1]
    /\ LET event == Script(c, s)[sent[c][s] + 1]
       IN  IF Len(queue) < QueueMax
           THEN /\ queue' = Append(queue, <<event, c>>)
                /\ UNCHANGED <<marking, lost>>
           ELSE /\ marking' = marking \cup {<<c, s>>}
                /\ lost' = [lost EXCEPT ![c] = @ \cup {event}]
                /\ UNCHANGED queue
    /\ UNCHANGED <<damaged, store, file, flusher, writer>>

MarkLossy(c, s) ==
    /\ <<c, s>> \in marking
    /\ marking' = marking \ {<<c, s>>}
    /\ lossy' = lossy \cup {c}
    /\ UNCHANGED <<sent, lost, queue, inconsistent, store, file, flusher, writer>>

(* try_flush waits for room, then for the acknowledgement.                 *)
TryFlush ==
    /\ flusher = "idle" /\ writer = "running" /\ Len(queue) < QueueMax
    /\ queue' = Append(queue, <<"flush">>)
    /\ flusher' = "sent"
    /\ UNCHANGED <<senders, damaged, store, file, writer>>

FlushTimeout ==
    /\ flusher = "sent"
    /\ flusher' = "error"
    /\ UNCHANGED <<senders, queue, damaged, store, file, writer>>

(* The recorder is dropped and the writer joined.  Who sends holds it, so  *)
(* nothing is sent after: calls in flight were abandoned where they are.   *)
DropRecorder ==
    /\ writer = "running" /\ flusher # "sent" /\ marking = {}
    /\ writer' = "closing"
    /\ UNCHANGED <<senders, queue, damaged, store, file, flusher>>

-----------------------------------------------------------------------------
(* The writer's records.                                                   *)

Placeholder == [got |-> {}, closed |-> FALSE]
IsPending(c) == c \in DOMAIN pending
HasInput(rec) == Input \in rec.got
HasExchange(rec, e) == {Skeleton(e), Failed(e)} \cap rec.got # {}
Pend(rec) == Outcome \notin rec.got

(* An exchange that failed arrives finalized, a skeleton by its update.    *)
Finalized(rec, e) == {Failed(e), Update(e)} \cap rec.got # {}

ReadyWithOne(rec) ==
    /\ rec.closed /\ ~Pend(rec) /\ HasInput(rec)
    /\ (\E e \in Exchanges : HasExchange(rec, e)) =>
          \E e \in Exchanges : Finalized(rec, e)

Ready(rec) ==
    /\ rec.closed /\ ~Pend(rec) /\ HasInput(rec)
    /\ \A e \in Exchanges : HasExchange(rec, e) => Finalized(rec, e)

IsEmptyPlaceholder(rec) ==
    ~HasInput(rec) /\ \A e \in Exchanges : ~HasExchange(rec, e)
IsInactiveOrMissingInput(rec) == ~HasInput(rec) \/ rec.closed \/ ~Pend(rec)

(* write_line, for each of a set of lines: any write may fail.             *)
Line(c, rec, complete) == [call |-> c, got |-> rec.got, complete |-> complete]
WriteLinesQuietly(new) ==
    /\ \E kept \in SUBSET new :
          lines' = [c \in Calls |->
              lines[c] \o SetToSeq({line \in kept : line.call = c})]
    /\ UNCHANGED writeError

WriteLines(new) ==
    \/ /\ lines' = [c \in Calls |->
              lines[c] \o SetToSeq({line \in new : line.call = c})]
       /\ UNCHANGED writeError
    \/ /\ \E kept \in SUBSET new : kept # new /\
              lines' = [c \in Calls |->
                  lines[c] \o SetToSeq({line \in kept : line.call = c})]
       /\ writeError' = TRUE

(* pop_next_pending_eviction_id, as a position of the order: placeholders, *)
(* then stalled calls, then the oldest.                                    *)
FirstOf(ids, Test(_)) == SelectInSeq(ids, LAMBDA c : IsPending(c) /\ Test(pending[c]))
NextEviction(ids) ==
    LET empty == FirstOf(ids, IsEmptyPlaceholder)
        stalled == FirstOf(ids, IsInactiveOrMissingInput)
    IN  IF empty # 0 THEN empty ELSE IF stalled # 0 THEN stalled
        ELSE FirstOf(ids, LAMBDA rec : TRUE)

(* Ids of calls that are gone stay in the order until they reach its front *)
(* or it is twice as long as it should be.                                 *)
Live(ids, calls) ==
    LET at == {i \in DOMAIN ids : ids[i] \in calls}
        Nth(k) == CHOOSE i \in at : Cardinality({j \in at : j <= i}) = k
    IN  [k \in 1 .. Cardinality(at) |-> ids[Nth(k)]]
Trim(ids, calls) ==
    LET first == SelectInSeq(ids, LAMBDA c : c \in calls)
        rest == IF first = 0 THEN <<>> ELSE SubSeq(ids, first, Len(ids))
    IN  IF Len(rest) > 2 * PendingMax THEN Live(rest, calls) ELSE rest

(* An event for a call the writer evicted.                                 *)
Late(c) == ~IsPending(c) /\ c \in Range(evicted)

(* What an event does to the call's record: insert_exchange and            *)
(* apply_exchange_update find the exchange by its number.                  *)
Apply(rec, event) ==
    CASE event = Closed -> [rec EXCEPT !.closed = TRUE]
      [] \E e \in Exchanges : event = Update(e) /\ ~HasExchange(rec, e) -> rec
      [] OTHER -> [rec EXCEPT !.got = @ \cup {event}]

(* Whether it contradicts the record: an update whose exchange is missing, *)
(* or an exchange that is there already, which the numbers given out by    *)
(* RecordingContext rule out and the writer guards against.                *)
Unmatched(rec, event) == \E e \in Exchanges :
    \/ event = Update(e) /\ ~HasExchange(rec, e)
    \/ event \in {Skeleton(e), Failed(e)} /\ HasExchange(rec, e)

(* DamagedCalls::take, as what it makes of complete.                       *)
TakeComplete(c, marks) == c \notin marks /\ c \notin inconsistent

(* EvictedCallTracker::insert: the tracker and the marks after it.         *)
Track(old, kept) ==
    LET forgets == Len(evicted) >= EvictedMax
        forgotten == IF forgets THEN {Head(evicted)} \ kept ELSE {}
    IN  [evicted |-> Append(IF forgets THEN Tail(evicted) ELSE evicted, old),
         lossy |-> (lossy \cup {old}) \ forgotten]

(* evict_jsonl_pending_if_needed: the line, the calls, order, tracker and  *)
(* marks after it.                                                         *)
Evict ==
    LET ids == Trim(order, DOMAIN pending)
        at == NextEviction(ids)
        old == ids[at]
        kept == Restrict(pending, DOMAIN pending \ {old})
        tracker == Track(old, DOMAIN kept)
    IN  [lines |-> {Line(old, pending[old], FALSE)}, pending |-> kept,
         order |-> RemoveAt(ids, at),
         evicted |-> tracker.evicted, lossy |-> tracker.lossy]
Keep == [lines |-> {}, pending |-> pending, order |-> order,
         evicted |-> evicted, lossy |-> lossy]

(* entry_or_init: a new call makes room first.                             *)
Entry(c) ==
    LET room == IF Cardinality(DOMAIN pending) >= PendingMax THEN Evict
                ELSE [Keep EXCEPT !.order = Trim(@, DOMAIN pending)]
    IN  IF IsPending(c) THEN Keep
        ELSE [room EXCEPT !.order = Append(@, c),
                          !.pending = [x \in DOMAIN @ \cup {c} |->
                              IF x = c THEN Placeholder ELSE @[x]]]

Hold(c, entry, rec) ==
    /\ pending' = [entry.pending EXCEPT ![c] = rec]
    /\ order' = entry.order
    /\ lossy' = entry.lossy
    /\ WriteLines(entry.lines)

(* try_finalize: write the call once its barrier is met.                   *)
TryFinalize(c, entry, rec) ==
    IF Ready(rec)
    THEN /\ pending' = Restrict(entry.pending, DOMAIN entry.pending \ {c})
         /\ order' = Trim(entry.order, DOMAIN pending')
         /\ lossy' = entry.lossy \ {c}
         /\ WriteLines(entry.lines \cup
                {Line(c, rec, TakeComplete(c, entry.lossy))})
    ELSE Hold(c, entry, rec)

(* One event of a call: dropped when the call was evicted, ignored when it *)
(* closes a call that is gone, merged otherwise.                           *)
WriteEvent ==
    /\ writer # "ended" /\ queue # <<>> /\ Len(Head(queue)) = 2
    /\ queue' = Tail(queue)
    /\ LET event == Head(queue)[1]
           c == Head(queue)[2]
           entry == Entry(c)
           rec == Apply(entry.pending[c], event)
       IN  \/ /\ Late(c)
              /\ lossy' = lossy \cup {c}
              /\ lost' = [lost EXCEPT ![c] = @ \cup {event}]
              /\ UNCHANGED <<inconsistent, store, file>>
           \/ /\ ~Late(c) /\ event = Closed /\ ~IsPending(c)
              /\ UNCHANGED <<damaged, store, file, lost>>
           \/ /\ ~Late(c) /\ (event = Closed => IsPending(c))
              /\ evicted' = entry.evicted
              /\ inconsistent' = inconsistent \cup
                     (IF Unmatched(entry.pending[c], event) THEN {c} ELSE {})
              /\ IF event = Provider THEN Hold(c, entry, rec)
                 ELSE TryFinalize(c, entry, rec)
              /\ UNCHANGED lost
    /\ UNCHANGED <<sent, marking, flusher, writer>>

WriteFlushUnacknowledged ==
    /\ writer # "ended" /\ queue # <<>> /\ Head(queue) = <<"flush">>
    /\ queue' = Tail(queue)
    /\ UNCHANGED <<senders, damaged, store, file, flusher, writer>>

(* Flush: write_ready_all, then the sticky error is returned.  The         *)
(* acknowledgement of a caller that timed out is lost.                     *)
WriteFlush ==
    /\ writer # "ended" /\ queue # <<>> /\ Head(queue) = <<"flush">>
    /\ queue' = Tail(queue)
    /\ LET ready == {c \in DOMAIN pending : Ready(pending[c])}
       IN  /\ WriteLines({Line(c, pending[c], TakeComplete(c, lossy)) : c \in ready})
           /\ pending' = Restrict(pending, DOMAIN pending \ ready)
           /\ lossy' = lossy \ ready
    /\ order' = Live(order, DOMAIN pending')
    /\ flusher' = IF flusher # "sent" THEN flusher
                  ELSE IF writeError' THEN "error" ELSE "ok"
    /\ UNCHANGED <<senders, inconsistent, evicted, writer>>

(* Every sender is gone: the rest is written as incomplete.                *)
WriteRest ==
    /\ writer = "closing" /\ queue = <<>>
    /\ writer' = "ended"
    /\ WriteLines({Line(c, pending[c], FALSE) : c \in DOMAIN pending})
    /\ pending' = <<>>
    /\ UNCHANGED <<senders, queue, damaged, order, evicted, flusher>>

-----------------------------------------------------------------------------
Write == WriteEvent \/ WriteFlush \/ WriteRest

(* The writer has returned and nothing is left to do.                      *)
Stopped == writer = "ended" /\ UNCHANGED vars

Next ==
    \/ Write \/ TryFlush \/ FlushTimeout \/ DropRecorder \/ Stopped
    \/ \E c \in Calls, s \in Senders : Send(c, s) \/ MarkLossy(c, s)

Spec == Init /\ [][Next]_vars

(* The writer thread runs while there is something to receive: weak        *)
(* fairness of Write, with ENABLED Write spelled out for TLC.              *)
CanWrite == writer # "ended" /\ (queue # <<>> \/ writer = "closing")
FairSpec == Spec /\ ([]<>~CanWrite \/ []<><<Write>>_vars)

-----------------------------------------------------------------------------
SentBy(c) == UNION {{Script(c, s)[i] : i \in 1 .. sent[c][s]} : s \in Senders}
Queued(c) == {queue[i][1] : i \in {j \in 1 .. Len(queue) :
                 Len(queue[j]) = 2 /\ queue[j][2] = c}}

(* What the file has of a call.                                            *)
Filed(c) == UNION {line.got : line \in Range(lines[c])}

(* Everything a call sends: what was answered has a body that ends.        *)
Recorded(c) ==
    LET own == Range(OperationEvents[c])
    IN  own \cup {Update(e) : e \in {x \in Exchanges : Skeleton(x) \in own}}

(* A line marked complete has everything its call recorded, over all its   *)
(* attempts: each exchange, and of each that was answered the end of the   *)
(* body, whatever was dropped, evicted or forgotten meanwhile.  A call has *)
(* at most one (ready, DamagedCalls::take, try_finalize).                  *)
CompleteIsFaithful ==
    \A c \in Calls : \A i \in DOMAIN lines[c] : lines[c][i].complete =>
        /\ lines[c][i].got = Recorded(c) \ {Closed}
        /\ lost[c] \subseteq {Closed}
        /\ \A j \in DOMAIN lines[c] : lines[c][j].complete => i = j

(* What the writer took from the channel is in the file, held for its      *)
(* call, counted as dropped or marked as inconsistent; only a failed write *)
(* loses it, and then the error a flush returns is set (writer_loop,       *)
(* write_line, note_write_error).                                          *)
LossIsVisible ==
    \A c \in Calls : writeError \/
        SentBy(c) \subseteq
            {Closed} \cup lost[c] \cup Queued(c)
            \cup (IF IsPending(c) THEN pending[c].got ELSE {})
            \cup Filed(c)
            \cup (IF c \in inconsistent THEN Updates ELSE {})

(* The writer's memory is bounded for any sequence of unfinished calls,    *)
(* and every call it holds can be found for eviction.                      *)
MemoryBounded ==
    /\ Cardinality(DOMAIN pending) <= PendingMax
    /\ Len(evicted) <= EvictedMax
    /\ Len(order) <= 2 * PendingMax + 1
    /\ writer # "ended" => DOMAIN pending \subseteq Range(order)

(* The recorder stays within its bounds, and what the bounds cost shows in *)
(* the file.                                                               *)
LossIsBounded == LossIsVisible /\ MemoryBounded

(* A flush returns, and so does the drop of the recorder that joins the    *)
(* writer.                                                                 *)
RecorderReturns ==
    /\ flusher = "sent" ~> flusher # "sent"
    /\ writer = "closing" ~> writer = "ended"

=============================================================================
