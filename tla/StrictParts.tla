----------------------------- MODULE StrictParts -----------------------------
(***************************************************************************)
(* A provider stream and the guard of strict stream mode, aimux-providers/ *)
(* src/stream/strict.rs, joined the way pipe_through joins transformers    *)
(* (aimux-provider-utils/src/transform_stream.rs): a stage takes its next  *)
(* input once everything it emitted has been taken.  The vendor stage is   *)
(* in the modules that extend this one.  A part is <<what, kind, id>>;     *)
(* open, called and last are what the consumer has seen.                   *)
(***************************************************************************)
EXTENDS Naturals, Sequences

CONSTANTS
    Modes,          \* the values of strict_stream, a subset of BOOLEAN
    Vendors,        \* the providers whose streams are modelled
    Indices,        \* the indices servers give blocks and output items
    ToolIds,        \* the ids servers give tool calls
    Reasons         \* finish reasons, a subset of {"ok", "tools", "error"}

VARIABLES
    strict,
    name,           \* the vendor of this stream
    vendor,         \* the vendor stage: "open", "closed" or "flushed"
    emitted,        \* what the vendor has queued
    guard,          \* StrictParts
    gate,           \* the guard stage: "open", "closed" or "flushed"
    queue,          \* what the guard has queued
    open, called, last, turn

seenVars == <<open, called, last, turn>>
guardVars == <<strict, name, guard, gate, queue>>
pipeVars == <<strict, name, vendor, emitted, guard, gate, queue, seenVars>>

Part(what) == <<what, "none", "none">>
Failure == Part("failed")
FinishWith(reason) == <<"finish", reason, "none">>
ClientCall(t) == <<"call", "client", t>>
InputOf(t) == << <<"start", "tool", t>>, <<"delta", "tool", t>>, <<"end", "tool", t>> >>

(* status: "settled" is finished or errored, which are read together.     *)
FreshGuard ==
    [open |-> {}, completed |-> {}, held |-> <<>>, status |-> "running"]

PipeInit ==
    /\ strict \in Modes /\ name \in Vendors /\ vendor = "open" /\ emitted = <<Part("other")>>
    /\ guard = FreshGuard
    /\ gate = "open" /\ queue = <<>>
    /\ open = {} /\ called = {} /\ last = Part("none") /\ turn = 0

(* The vendor stage may take its next event.                               *)
VendorReady == vendor = "open" /\ emitted = <<>> /\ queue = <<>> /\ gate = "open"

(* The parts of a transformer's call and whether it goes on: a record with *)
(* its state, so that handlers compose.  A closed controller queues        *)
(* nothing.                                                                *)
EnqueueAll(c, parts) == IF c.ends = "closed" THEN c ELSE [c EXCEPT !.parts = @ \o parts]
Enqueue(c, part) == EnqueueAll(c, <<part>>)
Close(c) == [c EXCEPT !.ends = "closed"]
Error(c, part) == Close(Enqueue(c, part))

Emit(parts, ends) ==
    /\ emitted' = parts /\ vendor' = ends /\ last' = Part("none") /\ turn' = 0
    /\ UNCHANGED <<guardVars, open, called>>

-----------------------------------------------------------------------------
IsBlock(part) == part[1] \in {"start", "delta", "end"}
BlockOf(part) == <<part[2], part[3]>>

(* track, and the check of completed_calls before it: the part breaks the  *)
(* life cycle of its block.                                                *)
Breaks(part) ==
    /\ IsBlock(part)
    /\ \/ part[2] = "tool" /\ part[3] \in guard.completed
       \/ part[1] = "start" /\ BlockOf(part) \in guard.open
       \/ part[1] # "start" /\ BlockOf(part) \notin guard.open

Tracked(part) ==
    CASE part[1] = "start" -> guard.open \cup {BlockOf(part)}
      [] part[1] = "end" -> guard.open \ {BlockOf(part)}
      [] OTHER -> guard.open

(* fail, after which nothing is taken from the vendor and nothing of the   *)
(* guard is read again.                                                    *)
FailGuard ==
    /\ guard' = [FreshGuard EXCEPT !.status = "failed"]
    /\ queue' = <<Failure>> /\ gate' = "closed" /\ emitted' = <<>>

(* Mutant: the calls are delivered whatever the finish reason.             *)
HeldAlways(part) == guard.held
HeldUnlessError(part) == IF part[2] = "error" THEN <<>> ELSE guard.held

(* StrictParts::transform of a part that is in order.                      *)
Pass(part) ==
    /\ gate' = gate
    /\ CASE part[1] = "call" /\ part[2] = "client" ->
              /\ guard' = [guard EXCEPT !.completed = @ \cup {part[3]},
                                        !.held = Append(@, part)]
              /\ queue' = <<>>
         [] part[1] = "finish" ->
              /\ guard' = [guard EXCEPT !.status = "settled", !.held = <<>>]
              /\ queue' = Append(HeldUnlessError(part), part)
         [] part[1] = "error" ->
              /\ guard' = [guard EXCEPT !.status = "settled"] /\ queue' = <<part>>
         [] OTHER ->
              /\ guard' = [guard EXCEPT !.open = Tracked(part)] /\ queue' = <<part>>

(* The guard takes the next part; with strict_stream off there is none.    *)
GuardPart ==
    /\ emitted # <<>> /\ queue = <<>> /\ gate = "open"
    /\ LET part == Head(emitted) IN
       \/ strict /\ (part[1] = "failed" \/ Breaks(part)) /\ FailGuard
       \/ /\ emitted' = Tail(emitted)
          /\ \/ ~strict /\ queue' = <<part>> /\ UNCHANGED <<guard, gate>>
             \/ strict /\ part[1] # "failed" /\ ~Breaks(part) /\ Pass(part)
    /\ UNCHANGED <<strict, name, vendor, seenVars>>

Unfinished == guard.status = "running"

(* StrictParts::flush.                                                     *)
GuardFlush ==
    /\ emitted = <<>> /\ queue = <<>> /\ vendor # "open" /\ gate = "open"
    /\ IF strict /\ Unfinished
         THEN FailGuard
         ELSE gate' = "flushed" /\ UNCHANGED <<guard, queue, emitted>>
    /\ UNCHANGED <<strict, name, vendor, seenVars>>

(* The consumer takes an item.                                             *)
Deliver ==
    /\ queue # <<>> /\ queue' = Tail(queue)
    /\ LET part == Head(queue) IN
       /\ open' = CASE part[1] = "start" -> open \cup {BlockOf(part)}
                    [] part[1] = "end" -> open \ {BlockOf(part)}
                    [] OTHER -> open
       /\ called' = IF part[1] = "call" /\ part[2] = "client"
                      THEN called \cup {part[3]} ELSE called
       /\ last' = part /\ turn' = 1 - turn
    /\ UNCHANGED <<strict, name, vendor, emitted, guard, gate>>

PipeNext == GuardPart \/ GuardFlush \/ Deliver

-----------------------------------------------------------------------------
Consumer == INSTANCE PartProtocol

(* The parts a consumer gets follow the protocol of strict.rs:4-18,        *)
(* whatever the provider sends.                                            *)
PartsFollowProtocol == Consumer!ProtocolSpec
=============================================================================
