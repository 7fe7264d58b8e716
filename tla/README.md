# A TLA+ verification of aimux

aimux is a Rust library that gives one interface to many AI providers. Text
generation, streaming and realtime transcription run in `aimux-core`;
`aimux-ops` turns them into named operations with handles, frames and streaming
operations; a C library and bindings for Node and Python (and, over the C
library, Go, Java, Kotlin, Swift, Flutter and C++) carry them to other
languages.

The protocols that are hard to test live where these layers meet: several
threads and tasks share a queue, a registry or a terminal slot, any of them may
be dropped or aborted at any moment, and every stream promises its reader
exactly one end. This directory models those protocols, checks them with TLC on
small instances and proves the central results with TLAPS.

## Inventory

| Component | State | Operations | What is hard | What makes it correct |
|---|---|---|---|---|
| Streaming operation, `aimux-ops/src/operation.rs` | input state and queue, admission and send sequence, output queue, terminal with its error, task handle | `push`, `try_push`, `input_done`, `next`, `cancel`, `consumer_close`, `terminate`, drop; the driver task; the audio stream the provider polls | any number of callers, a task and a provider under one mutex; abandoned futures; two-step closes; a five-second cleanup timer | audio keeps admission order and ends once; limits hold; the first terminal stands; nobody waits for ever |
| Frame stream, `aimux-ops/src/frame.rs` | upstream, abort signal, number | `poll_next`, drop | abort, oversize, exhaustion and the upstream's end compete for the one End | numbers without gap, one End, nothing after it |
| C adapter, `aimux-ffi/src/abi.rs` | the call and its callback | `aimux_stream`, `aimux_abort` | abort from another thread or from the callback | the callback sees the frame protocol; an abort ends the call |
| Node stream bridge, `bindings/node/src/bridge.rs` | bounded channel, byte semaphore, terminal slot, closed flag | `produce`, `next`, `close` | the producer waits in four places; close races a pending `next` for receiver and terminal | lossless, within budget, one terminal, nothing for a `next` called after close |
| Handle registry and Node realm, `aimux-ops/src/handle.rs`, `bindings/node/src/lib.rs` | entries by id and owner, id allocator; active calls and kept signals per environment | insert, remove, release_owner; call, drop_handle, cleanup | calls finish on tokio threads after their environment is gone | ids never repeat; foreign drops do nothing; teardown leaks nothing |
| Python stream bridge, `bindings/python/src/bridge.rs` | channel, byte semaphore, terminal slot, worker task | worker and pump, `__next__`, `cancel`, `close`, collection | the worker is killed at an await; Python signals interrupt a call | a terminal is never lost, never contradicted once published |
| Dispatch, `aimux-ops/src/dispatch.rs` | none of its own | call, stream, with the abort race | a provider that never answers | covered as part of the realm |
| Python interpreter owner, `bindings/python/src/lib.rs` | the weak owner of each interpreter, the objects that hold it, queued releases | create and drop objects, blocking calls, interruption | objects are dropped on any thread while workers of interrupted calls go on | one owner at a time, released after its last object |
| Generation and stream pump, `aimux-core/src/generate.rs` | a channel of 256 items, an overflow slot, three deadlines, an outcome | pump task, consumer, abort, drop | a deadline while the channel is full; slow consumers | the right end, after everything buffered; a truthful outcome; nothing outlives the stream |
| Retry, router, mixture of agents, `aimux-core/src/{retry,router,moa}.rs` | attempts, error history, children | call, back off, fall back, join, aggregate | abort during a backoff; loops nested in loops | attempts do not multiply; the strategy is followed; the call returns |
| Recording, `aimux-core/src/recording.rs` | event channel, lossy marks, pending calls, evicted ids, a file | record, mark, merge, finalize, evict, flush, drop | events dropped at a full channel, seen later by the writer; a body observed in another task | a complete line lost nothing; a loss shows; memory is bounded |
| Sessions, `aimux-core/src/session.rs` | recent prompts; sessions by recency | resolve, append, query, clear | resolving and appending are separate; two evictions | whole conversations, in order |
| Trace store, `aimux-core/src/trace/store.rs`, `layer.rs` | ring with generations, block index, counts per scope | start, look up, record, clear | colliding keys, wrapping generations, expiry, a stale index | a lookup finds what a search of the ring would |
| Provider streams, `aimux-providers/src/**/*language_model.rs`, `stream/` | a transformer's open blocks and pending calls; the guard's held calls | one handler per vendor event, flush | servers repeat, reorder, omit and break events | balanced blocks, a failure last, each tool call once and with its own arguments |
| Replay, media polling, the rest of providers and transport, SSE parser, wire limits, tools, other bindings | - | - | data conversion, network I/O, generated code | not modelled |

How they interact. A binding dispatches a request by name; a streaming request
yields an event stream, which `FrameStream` numbers and ends. The C library
polls the frame stream on the caller's thread; Node and Python each have a task
that moves its frames into a bounded channel and a terminal slot, and a reader
on the language's side. `transcription.start` puts an `Operation` into the
registry; later calls find it by id and owner. Abort signals run across all of
it: a caller, a close, a drop and the teardown of an environment fire them, and
every task selects on them.

Below the bindings, `generate_text` and `stream_text` run a retry loop around a
model, which may itself be a router or a mixture of agents over other models.
The stream a model returns is a pipe: a vendor's transformer turns wire events
into parts, in strict mode a guard checks them, and a pump task moves the result
into the channel the user reads. Beside it a call tells the recorder, the session
store and the trace store what happened, each behind its own lock or channel.

`PROJECT.json` lists the hazards, each at its line, with the properties that
cover it.

## Modules

| Module | Models | Composed with |
|---|---|---|
| `Operation` | `operation.rs`, whole | refines `AudioLine` |
| `AudioLine` | abstract: what a push promises its caller and the provider | |
| `OperationProofs` | theorems about `Operation` | |
| `FrameProtocol` | abstract: what an accepted stream promises its reader | |
| `FrameStream` | `frame.rs` | base of the three adapters below |
| `CStream` | `aimux_stream` and `aimux_abort` | `FrameStream`, refines `FrameProtocol` |
| `NodeBridge` | `bindings/node/src/bridge.rs` | `FrameStream`, refines `FrameProtocol` |
| `PythonBridge` | the stream part of `bindings/python/src/bridge.rs` | `FrameStream` |
| `FrameProofs` | theorems about the three readers, as `MCFrameConsumers` puts them side by side | |
| `HandleRegistry` | `handle.rs` | base of `NodeRealm` |
| `NodeRealm` | `Realm`, `Runtime.call`, `drop_handle`, environment cleanup, the dispatch of a call | `HandleRegistry` |
| `NodeRealmProofs` | theorems about `NodeRealm` | |
| `PythonOwner` | interpreter owners, their objects and calls, `bindings/python/src/lib.rs` | `HandleRegistry` |
| `PythonOwnerProofs` | theorem about `PythonOwner`, of which `MCNodeRealm` runs an instance | |
| `StreamPump` | pump, consumer and recorded outcome of `stream_text` | |
| `StreamPumpProofs` | theorems about `StreamPump` | |
| `Retry` | the loop of `retry.rs`, as a transition function | base of `Composite` |
| `Composite` | a call with its deadline, on a plain model, a router or a mixture of agents | `Retry`, once for the call and once per child |
| `CompositeProofs` | theorems about `Retry` and `Composite` | |
| `Recording` | `JsonlRecorder` and the body the HTTP layer observes | |
| `RecordingProofs` | theorems about `Recording` | |
| `Sessions`, `TraceStore` | `session.rs`; `trace/store.rs` with the calls of `trace/layer.rs` | |
| `StoreProofs` | theorems about `Sessions` and `TraceStore`, as `MCStores` runs them | |
| `PartProtocol` | abstract: what the consumer of a stream of parts may rely on | |
| `StrictParts` | `pipe_through` and the strict guard | base of the vendor modules |
| `AnthropicStream`, `GoogleStream`, `CohereStream`, `BedrockStream` | the transformer of each | `StrictParts` |
| `ChatStream` | OpenAI, OpenAI-compatible, Groq, Mistral and DeepSeek chat | `StrictParts`, `ChatToolCalls` |
| `CompletionStream` | the two legacy completion APIs | `StrictParts` |
| `ResponsesStream` | the Responses APIs of OpenAI, xAI and Hugging Face | `StrictParts` |
| `ToolCallArguments`, `ChatToolCalls` | when arguments are complete; which call a fragment belongs to | |
| `ToolCallFeed` | a provider that labels fragments in each documented way | `ChatToolCalls` |
| `MC...` | values for TLC, and the compositions described under Runs | |

Definitions keep the source's names. Operators such as `CloseBoundaryAtSend`
that stand just before the definition they vary are deliberate faults: with one
put in place of that definition the property named beside it in `PROJECT.json`
must fail.

### Operation

The variables of the first group are the fields of `State`; the others say where
each call, the driver and the destructors stand. One action is one critical
section of the mutex together with the `wake()` after it. No await lies between
the two, and every waiter arms its `Notified` (or registers its waker) before it
takes the lock, so a waiter that looks in between sees the new state itself.
`parked` holds the waiters whose last check failed and that were not woken
since: a lost wake-up is a waiter left in `parked` for ever. The pop of the audio
stream notifies tasks only; `wake()` also wakes the audio stream.

`push` is split where the code is: admission, one action per turn of its loop,
and the destructor of its admission, which also runs when the future is
abandoned. `consumer_close`, `terminate` and drop are several actions, because
they cancel, clear, take the task and join it in separate critical sections. The
abort signal that `cancel` fires is the same event as the terminal `Cancelled`,
stored under the same lock. A chunk is the push call that carries it; a part is
its position and its size. The provider is external: it may refuse, connect,
yield, fail, stop or stay silent whenever it is polled. It polls the audio it was
given from within its own transcript stream (`transcription_model.rs` of OpenAI,
xAI and ElevenLabs), and that stream is polled by the driver: `AudioPoll` needs
the driver at its poll. A driver that waits for room in the output therefore
takes no audio, and pushes behind a full input wait with it until the consumer
reads.

Left out: `status`, which only reads; the pointer checks of `push_raw`; the join
errors of a tokio runtime that is itself shutting down.

`AudioLine` is the promise the whole machinery exists for: admitted pushes form
a line; only its head may send; a push that is abandoned leaves the line; the
provider receives what was sent, once and in order; the audio ends when the line
has been closed and is empty, or when the operation ends.

### Frames and the C adapter

`PolledFrame` is `poll_next`: the abort comes first, then the upstream's answer;
an event without a number left or above the size limit ends the stream with an
error. Sizes are small numbers, `ItemBytes` is the limit; the number is taken
modulo `SeqMax + 1`, as a u64 would be. `CStream` is `deliver_frames` with its
callback. Its fallback for a stream without End is shown unreachable.

### NodeBridge

The producer's steps are its awaits and its looks at shared state: reserve a slot,
poll the stream, take bytes, look at the abort signal (`ProduceLook`), send.
`next` loads the closed flag (`NextGot`, `NextEof`) and hands the frame or the
terminal over (`NextHand`, `NextTake`) in separate steps, and `close` may fall
between them: a `next` that was pending then still gets its frame. The history
variable `asked` says whether the call came before the close. `next` and `close`
interleave with the producer and with each other. tokio's channel and semaphore
are assumed: a reserved slot counts as taken, a channel is drained before it
reports its end, a closed receiver refuses reservations. The producer leaves its
loop and publishes the terminal in one step, because the terminal is only read
after the sender is gone. A second concurrent `next` is refused without a change
of state and has no action. The branch of `produce` for an exhausted sequence is
not reachable: `FrameStream` never gives an event the last number.

### HandleRegistry and NodeRealm

A call is one of three kinds: it starts an Operation, creates another handle, or
drops one. The body of a call runs later, on tokio, so its request may find the
realm closed. Allocating an id and inserting the entry are separate steps; an
Operation is taken out under the lock and closed after it. A signal is named by
the call it was made for; the sharing of one Abort between calls, and the entry
of the Abort handle itself, are left out. `IdMax` is `u64::MAX`.

### PythonBridge

Unlike in Node, leaving the loop and publishing the terminal are two steps here,
because `__next__` may look at the slot in between. `Task::cancel` fires the
signal and aborts the worker; a worker killed at an await, or before its first
poll, publishes nothing. The worker shares the `Queue`, so the receiver is closed
only by `close`, after the worker is done (`ClosedAfterWorker`); the branches of
`pump` for a closed channel therefore have no action. A Python signal may
interrupt `__next__` after any slice and may lose the event just taken
(`discarded`).

### PythonOwner

An interpreter keeps a weak reference to its owner; the strong ones are its
objects: the module's guard, clients, aborts. `CurrentOwner` upgrades the
reference or makes a new owner. The drop of the last object queues
`release_owner` on the runtime, so the release happens later, when the
interpreter may have a new owner. A worker stops only at an await: between the
insertion of a handle and its return it cannot be stopped. A call with an object
of another interpreter is refused (`CallRefused`); the test upgrades or makes the
owner it compares with, and drops it again. A handle inserted
after the release of its owner stays in the registry; the properties are about
owners that are still held.

### StreamPump

Time is a bounded clock and `Tick` advances it; a deadline that is not
configured is `Never`. The pump's `select!` is biased, and so are the guards of
its branches: abort, operation deadline, chunk deadline, provider. An item
waiting for channel room is `pending`; the time it waits is given back to the
chunk deadline (`AfterSend`) and not to the operation's. A terminal error takes a
channel slot or else the overflow slot, which the consumer reads after the
channel has closed. An item still pending when the operation deadline or an abort
stops the pump is dropped (`HeldBack`), a finish too; see Findings. Items are
abstracted to what the consumer tells apart; a non-empty delta counts as output
for the first-chunk deadline even if no block is open for it.
`RecordingOutcomeStream` sees what the user is handed and records one outcome.

### Retry and Composite

A loop is a record, and `Retry` says what an answer or an abort makes of it.
`Composite` runs one loop for the call and one for each of its `size` children,
any number from 1 to `N`. The routing function is the user's: it may name any
child, or one that does not exist.
With fallback the router then walks the other children in array order; a router
of one child has nowhere to go. The last child of a mixture is its aggregator and
the others are its references, which may be none: the aggregator then runs at
once. Both failure modes await every reference.
`RunUntil` is the deadline and abort around the whole call. Prompts and answers
are abstracted to success, retryable, final, and exhausted errors.

### Recording

A call has several senders: the operation, and one response body per answered
exchange, each of which may be read in another task. Its exchanges are numbered
once over retries and children, as `RecordingContext` does; a failed exchange
arrives finalized, an answered one as a skeleton that its body completes later.
An event that finds the channel full is dropped and its call marked in a second
step (`MarkLossy`), so that a later event may overtake the mark. The writer is one
thread: each action of it takes one message and does all that follows from it,
finalizing, evicting, writing. A write may fail. A call is written once its
barrier is met (`Ready`): input, outcome, closed, and every exchange finalized;
the line is complete unless the call is damaged. An update without an exchange,
and a second record of one exchange, are inconsistent. The recorder may be
dropped at any time, with calls in flight.

### Sessions and TraceStore

A call resolves its session under one lock and appends itself under another.
Inference compares prompts as sequences of messages; a disabled inferer
(`enabled`) resolves nothing. In the trace store a body
is its chain of block hashes and `Low64` the part of a hash the index keeps, so
that keys may collide; generations are taken modulo `Generations`, as a u32
would be. A request looks up and appends in two critical sections; a failed
stream appends without a lookup. A request is not a call: the retries of a call
and the children of a composite one record under its id (`CallOf`). The eviction
of a record takes its call id off its session's list (`Retain`), and with it any
later record of the same call there, kept or not; the history variable `orphans`
holds those. The index keeps references to overwritten slots until it is rebuilt.

### Provider streams

A part is `<<what, kind, id>>`. A stage takes its next input once everything it
emitted has been taken, as the poll loop of `pipe_through` does. Every vendor
module has one action per wire event, with any of the small set of ids, indices,
reasons and chunks, in any order, and one for a broken event, for an error and
for the end of the body; it appends the parts the handler enqueues. Where a
handler loops over a list, a chunk's tool deltas or the deferred calls of a
message start, the event carries a sequence; several choices of a chunk are as
many chunks. The guard
(`StrictParts`) then passes, holds or fails. What the consumer has seen is kept
as `open`, `called` and `last`, and the stream refines `PartProtocol`.

Anthropic, Google, Cohere, Bedrock and the Responses vendors relay the ids of the
server: without the guard a server that repeats an event reaches the consumer
with it, so they are checked in strict mode. The chat and completion vendors
make up the ids and keep the protocol in both modes.

`ToolCallArguments` and `ChatToolCalls` are pure: fragments are sequences of
tokens, an optional field a set of at most one element. `ToolCallFeed` adds the
provider that divides and labels known calls, so that the assembled calls can be
compared with what was sent. Calls interleave where their labels tell them apart;
unlabelled ones, and calls that share an index, come one after the other.

## Runs

| Run | Instance | Shows |
|---|---|---|
| `op_safety` | 3 interchangeable pushes, 2 parts of 2 or 4 bytes (4 is oversize), queues of 2 items and 2 or 3 bytes, 3 sequence numbers, cancel, close and abort | admission, end of audio, limits, terminal, delivery; `AudioLine` is implemented |
| `op_live` | 2 pushes of 1 or 2 bytes, one item and one byte of room, cancel and terminate | no wake-up is lost: readers are served, pushes return and the audio ends while the driver polls, the driver stops, terminate returns |
| `frame_readers` | frames of 1, 2 and 3 bytes (3 is oversize), a channel of 2 frames and 3 bytes, 4 numbers | C, Node and Python readers: frame protocol, nothing lost, aborts and closes settle |
| `py_one_terminal` | all limits 1 | violated, see Findings |
| `node_realm` | 2 environments, 2 calls of every kind, 1 id; 2 interpreters, 2 objects, 2 calls, 3 owners, 2 ids | teardown leaves nothing and finishes; unique ids; coherent handles and signals; one owner per interpreter, and a held owner's handles stay |
| `stream_pump` | 2 items of every kind, a channel of 1, deadlines of 1 or 2 or none, 2 ticks | the end matches its cause, provider time only, truthful outcome, everything settles |
| `stream_delivery` | text and a finish, an operation deadline only | violated, see Findings |
| `composite` | 1 to 3 children, 2 retries, five strategies | bounded attempts, strategy followed, the call returns |
| `fail_fast` | 1 to 3 members, 1 retry | violated, see Findings |
| `recorder` | a call with a failed and an answered exchange and one abandoned before its outcome, a channel of 1 event, a table of 1 call, 1 remembered eviction | complete is faithful, loss shows, memory is bounded, flush and drop return |
| `call_stores` | 4 calls, 2 sessions of 2 calls; 4 requests, two of them attempts of one call and one its child in another session, a ring of 2 slots, 2 scopes of 1, colliding keys, 2 generations, a clock of 2 readings | sound sessions, exact lookups, counts and lists |
| `provider_streams` | one stream of each of 14 vendors, 2 indices, 1 tool id, 2 pending calls, 2 blocks, 2 deferred calls, both modes; 3 calls in every labelling; every text of up to 6 tokens in every division | `PartProtocol` is implemented; fragments find their call; completeness does not depend on the division |

Four runs put several sub-systems side by side: `frame_readers` (three readers of
one frame stream), `node_realm` (the owners of handles in Node and in Python),
`call_stores` (two stores) and `provider_streams` (seven transformers, and the
two questions about tool calls). A behaviour chooses one of them in its first
state and the others never move, because in the program they share nothing. Each
property is about the one its module describes. The state space is the sum of the
parts, not their product.

Why the bounds are enough. Three pushes are the fewest with one in front, one
abandoned in the middle and one behind. Queues of two items let a queue be empty,
partly filled and full; the byte limits are chosen so that items and bytes run
out independently of each other, and one size is always above the item limit.
The small sequence, id and generation limits reach exhaustion and wrapping, which
no test of a u64 or a u32 does. Two environments are needed for a foreign drop.
In the liveness runs one slot is the hardest case: every step waits for another.
A pump channel of one item is full as soon as one item is unread, and two ticks
order any two of the three deadlines either way. Three children give a fallback a
child before and one after the primary, and a mixture two references that differ;
one child is the router without a fallback and the mixture without references.
A failed and a retried exchange are the fewest that tell "all finalized" from
"one finalized", and two attempts of one call the fewest that `Retain` confuses.
A table of one call makes every second call an eviction. Two slots and two
generations bring a stale index entry back to the generation it names. Two
indices and one id let a server repeat a block, use two at once, and give two
blocks one id. Six tokens hold a nested value, and a string with an escape and a
bracket in it. `SYMMETRY` is used in `op_safety` and `call_stores` only, which
check no liveness; what is permuted starts alike, in `call_stores` the two scopes
and the two attempts of the retried call.

Deadlock is an error in `recorder` and `call_stores`; elsewhere the
system may stop: a dropped operation, a returned call, an ended stream and a
torn-down environment.

## Fairness

Weak fairness is given to what a runtime schedules by itself: turns of woken
tasks, destructors, timers, the JavaScript thread's own steps, the slices of a
running Python call. Callers, upstreams and providers are not fair: they may stop
calling or never answer. Six assumptions deserve notice.

- `Operation`: whenever the driver polls the transcript stream, the provider polls
  the audio in turn and returns, so that the `select!` of the driver sees an
  abort. That the driver polls is not assumed: it may wait for a connection, or
  for room in an output that nobody reads. `PushesReturn` and `AudioEnds` are
  therefore about behaviours in which it comes back to its poll or ends
  (`StreamIsPolled`); in the others a push may wait until someone reads or
  cancels.
- `CStream`, `PythonBridge`: polling is fair only once the signal has fired; a
  silent upstream is allowed until then.
- `NodeRealm`: creating an ordinary handle is local and fair; starting an
  Operation is not, since the provider may hang. Its abort ends the call.
- `StreamPump`: the clock advances, the runtime runs the pump, and the user polls
  the stream until it drops it. The provider owes nothing; so only a stream with
  an operation deadline, or an aborted one, is claimed to end.
- `Composite`: providers answer, with success or with any error. Without that
  assumption only a call with a deadline returns.
- `Recording`: the writer thread runs while it has something to do. This is weak
  fairness of `Write`, spelled `[]<>~CanWrite \/ []<><<Write>>_vars`, since TLC
  is quicker with a state predicate than with `ENABLED`.

## Proofs

All theorems hold for every value of the constants that satisfies the modules'
named assumptions; TLC evaluates each of them in the runs.

| Assumption | Says | Because |
|---|---|---|
| `LimitsAssumption` | the limits are positive | `OperationLimits::validate` |
| `WaiterAssumption`, `RealmAssumption` | the names of waiters, and of environments, are not those of calls | they are different things |
| `IdAssumption` | there is at least one id | a u64 counter that starts at 1 |
| `FrameAssumption` | sizes are numbers, the item limit is positive | `limits::ITEM_BYTES` |
| `BridgeAssumption` | the channel has a slot, and a single frame fits the byte budget | `SINGLE` is below `BYTES` |
| `PumpAssumption` | the channel has a slot, deadlines lie ahead, items are of the known kinds | a channel of 256 items |
| `RetryAssumption`, `CompositeAssumption` | a retry count; at least one child | a router without children is refused, and a mixture has its aggregator |
| `SessionsAssumption` | capacities are positive, a prompt is a sequence of messages, and the ids callers pass are their own | constructors assert the capacities; a caller that passed an id `resolve` made up would join strangers to that session |
| `TraceAssumption` | capacities are positive, every request has a call and a session, `Chains` are the bodies with at least one block, and 0, which stands for an empty slot, is no scope | constructors assert the capacities; a request without blocks is looked up and recorded with the empty chain, which the actions add |
| `RecordingAssumption` | capacities are positive; an operation sends its input first and its outcome last, an exchange has one record, a skeleton or a failure, and only `closed` comes again | constants of `recording.rs`; the order of the calls in `generate.rs` and `http.rs`; `RecordingContext` numbers the exchanges of a call once, over attempts and children |

| Theorem | Argument |
|---|---|
| `TypeCorrect` | `TypeOK` is inductive in six parts; lemmas name, for each group of variables, the only actions that write it |
| `AdmissionIsCoherent` | tickets number the admitted pushes in order, and every sequence from `send_sequence` up to `admission_sequence` is either completed or held; the second fact is what lets `DropAdmission` skip a run of completed ones |
| `TerminalNeverRewritten` | `Finish` and `CancelShared` are the only writers, and both are guarded |
| `ClosedConsumersStayEmpty` | strengthened by: a consumer between its two critical sections already has a terminal, and an append looks at the terminal |
| `QueuesStayWithinLimits` | strengthened by: while the driver is about to append, the room it found is still there, since only the driver adds to the output |
| `EndOfAudioIsNeverEarly` | from coherence: once the send sequence reaches the closing boundary, every admitted ticket is below it |
| `OperationImplementsAudioLine` | the line is the sequence of admitted pushes that still hold their admission, the sent ones are delivered or queued; the head of the line is the push whose ticket is up, by coherence |
| `DeliveryStaysSound` | strengthened by: what is queued was sent, so its length is fixed; the parts read and queued are `1..yielded`, less the one in the driver's hands, until a terminal or a close; an unread error belongs to its terminal. The byte counters are sums: `AddsUpTo` says that some running sum of the queue ends in the counter, and two lemmas say what an append and a pop do to it |
| `RealmTypeCorrect` | inductive, per action |
| `TeardownLeavesNothing` | strengthened by: only cleanup closes an environment; a call that inserts after the release stands at `remember` and finds it closed |
| `HandleIdsAreUnique` | strengthened by: a call about to insert has an allocated id; ids are below `next_id` until the allocator is exhausted, and it never leaves zero again |
| `HandlesStayCoherent` | strengthened (`HandleInv`) by: a drop is recorded before it takes effect; what JavaScript knows was returned by a call; from its insertion on a call's entry is live, closed or about to be closed; only late calls release twice; a kept signal's handle is live or its drop is under way. Needs that ids are unique |
| `NestedLoopsDoNotMultiply`, `StrategiesAreFollowed`, `CompositeTypes` | one invariant: a loop's phase tells its attempts and successes (`Counted`); around a composite the outer loop makes one attempt, because no result of a child loop is retryable unless it had no retries; beside the primary, children ran in order and each after the one before it failed; an aggregator ran after its references, if there are any. For any `size` from 1 to `N` |
| `ProviderTimeIsCharged` | while the pump polls, deadline plus time spent is the clock plus the budget; while it waits for room the same holds of the moment it began to wait (`ClockInv`) |
| `OutcomeIsTruthful` | the parts handed out and those still to be yielded determine the outcome that may be recorded (`OutcomeInv`) |
| `EndsAreFaithful` | what was read, the channel, the item that waits and the overflow slot together are what arrived, in order (`FlowInv`), so that the item held back is all that can be missing; the consumer's step says which end it prepares |
| `OwnersStaySafe` | strengthened (`OwnerInv`) by: an owner whose release is queued is held by nobody and cannot come back, a waiting call holds its owner, ids belong to one handle, a queued drop names no handle that Python knows |
| `NodeLosesNothing`, `IteratorRefinesProtocol`, `ClosedIsSilent` | until it is closed, the frames yielded, held by `next`, queued and held by `produce` have consecutive numbers, and the stored terminal has the next (`NodeCounts`); slots and permits are conserved; a success has the last number. A `next` called after the close never gets past the flag: whoever holds a frame or the right to the terminal was asked while the stream was open |
| `CallbackRefinesProtocol` | while the call polls, the callback was given exactly `seq` events |
| `TerminalIsNeverLost`, `PythonReadsAreSound`, `SettledOutcomesStand` | what a worker leaves behind at each place where it can be killed (`WorkerInv`); the numbers from Python's to the worker's increase, and are consecutive unless one was thrown away (`OrderInv`, `GaplessInv`); permits are conserved; a drained channel stays drained (`StopInv`) |
| `SessionsStaySound` | what is remembered under a made-up id extends the prompt of the call it was made for; `touch` moves one id and repeats none; the evicted id is never the new one; the kept calls are a suffix of those given |
| `StoreStaysExact` | strengthened (`TraceInv`) by: every block of a record in the ring is led to by an index entry with the record's own generation, slot and depth (`IndexLeads`), so a stale entry can only add candidates, which are compared in full; a request that is kept is done, so that none is kept twice (`RecordedOnce`); what a session lists are the kept records of its own less the orphans. The count of a scope is a cardinality of slots, and an append changes it at one slot |
| `CompleteStaysFaithful` | strengthened (`RecorderInv`) by: a field of a call, and each record and body of an exchange, is in one place only, the channel, the pending record or among the lost (`Placed`); as long as a call's input is queued or held, all its operation sent is too, or the call is marked, or the mark of its last event is the sender's next step (`Marked`); the channel holds the input before the rest and only body events behind the outcome (`QueueInOrder`). Hence a call that meets its barrier without a mark has everything, the body of each exchange included, and has lost nothing (`ReadyIsWhole`), and once it is written nothing but closes is to come of it (`CompleteIsSettled`) |
| `LossStaysBounded` | the same invariant. The order queue is longer than the pending table, since ids of written calls stay in it until it is compacted: no id is in it three times, and twice only while its call is pending again and its input is spent (`Few`), so that a compaction leaves at most two per pending call |

Each inductive invariant was first checked by TLC on the instance of its run. The
theorems of `FrameProofs` and `StoreProofs` are about the composition the run
checks, where a behaviour has one of the readers, or one of the stores.

Sums and positions. The prover has no induction over sequences and cannot look
into a fold or `SelectSeq`. Sums are therefore recursive functions (`Sums`,
`AddsUpTo`), and what they compute is shown by the least position where it would
fail. `ReadItems` and `Touch` are written without selections for the same reason.

Only model-checked:

- everything about liveness and fairness (`OperationProgresses`, `AbortReturns`,
  `BridgeSettles`, `CallsSettle`, `TeardownFinishes`, `StreamSettles`,
  `CallReturns`, `RecorderReturns`), which the prover cannot do;
- `CompleteIsExact` and `CallsAreReassembled`: what recursive scans compute;
- `PartsFollowProtocol`, the refinement of `PartProtocol` by each vendor's stage
  under the guard, which is not proved yet.

## Findings

`docs/api/python.md` says a stream has one terminal. In the Python bridge the
worker leaves its loop first and publishes its terminal afterwards
(`bindings/python/src/bridge.rs`, `pump`). When another thread cancels in
between, a `__next__` that looks then finds the slot empty and the signal fired,
and raises Aborted; a later `__next__` finds the published terminal and reports
the stream's own outcome. `py_one_terminal` is the trace. What does hold is
`SettledOutcomePreserved`: once the terminal is published it is never
contradicted.

`docs/ai-sdk-request-pipeline.md` (8.1) says that output which has arrived but was
not yet consumed is delivered before a timeout. What is in the channel is; the
item that the pump holds while the channel is full is not (`generate.rs`, `pump`):
the operation deadline is in the same `select!` as the wait for room, and when it
fires the item is dropped, text or finish. `stream_delivery` is the trace;
`EndMatchesCause` says that this one item is all that is missing.

`moa.rs` says of `FailFast` that the call fails as soon as any reference errs. The
code joins all references and only then looks at their results, so the others are
retried to their end first. `fail_fast` is the trace.

Behaviour met while modelling that departs from what one might expect, but that
no line of the repository clearly denies; the models contain it as it is:

- `generate.rs`: an abort that finds the consumer with a terminal item at hand is
  not reported; the stream ends with that item. A stream whose provider just
  stops after some output is finished and recorded as a success.
- `recording.rs`: calls still in flight are evicted at the table's limit; the mark
  of a lossy event outlives a call that was already written; a dropped trailing
  "closed" after a complete line changes nothing.
- `session.rs`: a session that comes back after its eviction counts its steps from
  0 again.
- `trace/store.rs`: references to overwritten slots stay in the index until it is
  rebuilt; the generation check is not needed for exactness, since every match is
  compared in full. The eviction of one record unlists every record of the same
  call in its session, those still kept too.
- `bindings/python/src/lib.rs`: a worker may insert its handle after the owner was
  released; the entry then stays.
- `stream/strict.rs`: the guard looks up completed calls when a part of an input
  block arrives, not when a call does; that a call comes once relies on the input
  block the vendor opens for it. A second message in an Anthropic stream, after a
  finish, is passed on.
- Mistral's flush reports the finish `other` after a stream error, and so does the
  OpenAI Responses transformer after a broken annotation, where the other vendors
  report `error`. For xAI `response.done` is not a terminal event.

## Not modelled

- Request building, response conversion and catalogues of some fifty vendors: the
  bulk of the repository's lines. It is conversion of data, statement by
  statement, without state that outlives a call; a model would be a second copy
  of it. This is why the map covers a small share of all lines: it covers the
  code that keeps state between two steps.
- The Open Responses transformer: it emits tool calls without an input block, so
  that a server that repeats an item repeats the call, which `PartProtocol` rules
  out. The items of OpenAI's own tools in `ResponsesStream`: they are complete
  calls and results of the provider, passed through.
- Calls with an empty prompt in `Recording` (their barrier is never met), the ring
  recorder, redaction, the line format.
- Replay, which matches recorded requests one after the other; video polling; the
  SSE parser (character-level text); WebSocket and HTTP transport; wire limits and
  envelopes (serialization); the bindings over the C library; code generation, the
  command line and viewers.

## Plan

1. Proof: the guard implements `PartProtocol` for every vendor stage.
2. The ring recorder; the polling loop of video jobs over `Retry`; the credit
   protocol of the Flutter binding.
3. Open Responses and the tool items of OpenAI, once the protocol says what a
   consumer may expect of calls without input.
