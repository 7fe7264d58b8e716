--------------------------- MODULE ResponsesStream ---------------------------
(***************************************************************************)
(* The Responses streams of OpenAI, xAI and Hugging Face, each in its      *)
(* responses/responses_language_model.rs under aimux-providers/src: output *)
(* items that are added, extended and done.  OpenAI's text has one block   *)
(* per content part and its reasoning one per summary part; xAI ends a     *)
(* text block when the next part of its item starts and reopens it for a   *)
(* late delta; Hugging Face relays the items.  The items of OpenAI's own   *)
(* tools are left out.                                                     *)
(***************************************************************************)
EXTENDS StrictParts, SequencesExt

CONSTANTS
    Outputs,        \* the output indices
    Items,          \* the ids output items are added with
    Aliases,        \* the ids events name items by, Items among them
    PartIndices     \* content_index and summary_index: 0 .. n

VARIABLE responses

ResponsesVendors == {"openai_responses", "xai", "huggingface"}

ResponsesFresh ==
    [reason |-> "none", terminal |-> "no", errored |-> "no", called |-> "no",
     names |-> [o \in Outputs |-> "none"],      \* output_ids
     ongoing |-> [o \in Outputs |-> "none"],    \* ongoing_tool_calls
     block |-> [m \in Aliases |-> <<>>],          \* text_blocks: <<content index>> or none
     summary |-> [m \in Aliases |-> <<>>],        \* summary_parts, one status per index
     refused |-> {}, blocks |-> <<>>, filled |-> {}, seen |-> {}, thinking |-> {},
     store |-> "no", parts |-> <<>>, ends |-> "open"]

ResponsesInit ==
    \E store \in {"no", IF name = "openai_responses" THEN "yes" ELSE "no"} :
       responses = [ResponsesFresh EXCEPT !.store = store]

-----------------------------------------------------------------------------
(* OpenAI.  An event names its item by id and by output index; the id the  *)
(* item was added with wins.                                               *)
ItemOf(r, m, o) == IF r.names[o] = "none" THEN m ELSE r.names[o]

(* The text block of an item; its first one has the item's id.             *)
TextBlockOf(r, m) == IF r.block[m] = <<>> THEN <<m, 0>> ELSE <<m, r.block[m][1]>>

MessageAdded(r, m, o) ==
    Enqueue([r EXCEPT !.names[o] = m, !.block[m] = <<0>>], <<"start", "text", <<m, 0>> >>)

TextDeltaOf(r, m, o) == Enqueue(r, <<"delta", "text", TextBlockOf(r, ItemOf(r, m, o))>>)

ContentPartAdded(r, m, o, index) ==
    LET i == ItemOf(r, m, o) IN
    IF r.block[i] = <<>> \/ index <= r.block[i][1] THEN r
    ELSE EnqueueAll([r EXCEPT !.block[i] = <<index>>],
                    << <<"end", "text", TextBlockOf(r, i)>>, <<"start", "text", <<i, index>> >> >>)

(* A refusal is text: its deltas, or all of it at the end if none came.    *)
(* Items are modelled with one refusal each.                               *)
Refusal(r, m, o, what) ==
    LET i == ItemOf(r, m, o) IN
    CASE what = "delta" -> TextDeltaOf([r EXCEPT !.refused = @ \cup {i}], m, o)
      [] what = "done" /\ i \notin r.refused -> TextDeltaOf(r, m, o)
      [] OTHER -> r

MessageDone(r, m, o) ==
    LET i == ItemOf(r, m, o) IN
    Enqueue([r EXCEPT !.names[o] = "none", !.block[i] = <<>>], <<"end", "text", TextBlockOf(r, i)>>)

(* The status of the summary parts: "active", "ready" (can-conclude),      *)
(* "concluded", or "none" for a part not seen.                             *)
SummaryStart == [n \in PartIndices |-> IF n = 0 THEN "active" ELSE "none"]

ReasoningAdded(r, m, o) ==
    Enqueue([r EXCEPT !.names[o] = m, !.summary[m] = SummaryStart],
            <<"start", "reasoning", <<m, 0>> >>)

InSummary(r, i, states) == {n \in PartIndices : r.summary[i][n] \in states}

(* Ends of the parts in a set of states, in the order of a HashMap.        *)
Conclude(r, i, states) ==
    EnqueueAll([r EXCEPT !.summary[i] =
                   [n \in PartIndices |-> IF n \in InSummary(r, i, states) THEN "concluded" ELSE @[n]]],
               SetToSeq({<<"end", "reasoning", <<i, n>> >> : n \in InSummary(r, i, states)}))

SummaryPartAdded(r, m, o, index) ==
    LET i == ItemOf(r, m, o)
        after == Conclude(r, i, {"ready"})
    IN  IF index = 0 \/ r.summary[i] = <<>> THEN r
        ELSE Enqueue([after EXCEPT !.summary[i][index] = "active"],
                     <<"start", "reasoning", <<i, index>> >>)

SummaryDelta(r, m, o, index) ==
    Enqueue(r, <<"delta", "reasoning", <<ItemOf(r, m, o), index>> >>)

SummaryPartDone(r, m, o, index) ==
    LET i == ItemOf(r, m, o) IN
    CASE r.summary[i] = <<>> -> r
      [] r.summary[i] # <<>> /\ r.store = "yes" ->
           Enqueue([r EXCEPT !.summary[i][index] = "concluded"],
                   <<"end", "reasoning", <<i, index>> >>)
      [] OTHER -> [r EXCEPT !.summary[i][index] = "ready"]

ReasoningDone(r, m, o) ==
    LET i == ItemOf(r, m, o)
        ended == IF r.summary[i] = <<>> THEN r ELSE Conclude(r, i, {"active", "ready"})
    IN  [ended EXCEPT !.names[o] = "none", !.summary[i] = <<>>]

-----------------------------------------------------------------------------
(* Function calls, of OpenAI and xAI by output index; custom tool calls    *)
(* take the same way.                                                      *)
FunctionAdded(r, t, o) ==
    Enqueue([r EXCEPT !.ongoing[o] = IF name = "huggingface" THEN @ ELSE t],
            <<"start", "tool", t>>)

ArgumentsDelta(r, o) ==
    IF r.ongoing[o] = "none" THEN r ELSE Enqueue(r, <<"delta", "tool", r.ongoing[o]>>)

FunctionDone(r, t, o) ==
    EnqueueAll([r EXCEPT !.ongoing[o] = "none",
                         !.called = IF name = "huggingface" THEN @ ELSE "yes"],
               << <<"end", "tool", t>>, ClientCall(t) >>)

(* Hugging Face may send the output of the call with it.                   *)
FunctionAnswered(r, t, o) == Enqueue(FunctionDone(r, t, o), Part("other"))

-----------------------------------------------------------------------------
(* xAI.  start_text_block ends the open blocks of the item first.          *)
StartTextBlock(r, m, index) ==
    LET mine == SelectSeq(r.blocks, LAMBDA b : b[1] = m)
        rest == SelectSeq(r.blocks, LAMBDA b : b[1] # m)
    IN  EnqueueAll([r EXCEPT !.blocks = Append(rest, <<m, index>>)],
                   [n \in DOMAIN mine |-> <<"end", "text", mine[n]>>]
                     \o << <<"start", "text", <<m, index>> >> >>)

OutputTextDelta(r, m, index) ==
    LET filled == [r EXCEPT !.filled = @ \cup {<<m, index>>}]
        started == IF <<m, index>> \in ToSet(r.blocks) THEN filled
                   ELSE StartTextBlock(filled, m, index)
    IN  Enqueue(started, <<"delta", "text", <<m, index>> >>)

(* The text of a message item, for the part no delta has written.          *)
MessageItem(r, m, index) == IF <<m, index>> \in r.filled THEN r ELSE OutputTextDelta(r, m, index)

StartThinking(r, m) ==
    IF m \in r.thinking THEN r
    ELSE Enqueue([r EXCEPT !.thinking = @ \cup {m}], <<"start", "reasoning", <<m, 0>> >>)
ThinkingDelta(r, m) == Enqueue(StartThinking(r, m), <<"delta", "reasoning", <<m, 0>> >>)
ThinkingDone(r, m) ==
    [Enqueue(StartThinking(r, m), <<"end", "reasoning", <<m, 0>> >>) EXCEPT !.thinking = @ \ {m}]

(* A tool of the server: its input and its call once, its result when done.*)
ServerTool(r, t, done) ==
    LET result == IF done THEN <<Part("other")>> ELSE <<>> IN
    IF t \in r.seen THEN EnqueueAll(r, result)
    ELSE EnqueueAll([r EXCEPT !.seen = @ \cup {t}], InputOf(t) \o <<Part("other")>> \o result)

-----------------------------------------------------------------------------
(* Hugging Face.                                                           *)
Relay(r, what, kind, m) == Enqueue(r, <<what, kind, <<m, 0>> >>)

-----------------------------------------------------------------------------
(* completed and incomplete: a finish reason, unless OpenAI's stream saw   *)
(* an error; xAI keeps an earlier reason when there is no status, and has  *)
(* response.done, which is no terminal event to strict stream mode.        *)
ReasonOf(r, status) == IF r.called = "yes" THEN "tools" ELSE status

Completed(r, status, terminal) ==
    [r EXCEPT !.terminal = IF terminal THEN "yes" ELSE @,
              !.reason = CASE name = "openai_responses" ->
                                IF r.errored = "yes" THEN @ ELSE ReasonOf(r, "ok")
                           [] name = "xai" ->
                                IF status = "none" THEN @ ELSE ReasonOf(r, status)
                           [] name = "huggingface" ->
                                IF status = "none" THEN "ok" ELSE status]

Incomplete(r) ==
    [r EXCEPT !.terminal = "yes",
              !.reason = CASE name = "openai_responses" ->
                                IF r.errored = "yes" THEN @ ELSE "ok"
                           [] name = "xai" -> "ok"
                           [] name = "huggingface" -> @]

(* failed: an error unless it names a reason, and a part for its error;    *)
(* OpenAI reports one error; Hugging Face reads it as an error event.      *)
ResponseFailed(r, named, error) ==
    LET ended == [r EXCEPT !.terminal = "yes", !.reason = IF named THEN "ok" ELSE "error"] IN
    IF ~error \/ (name = "openai_responses" /\ r.errored = "yes") THEN ended
    ELSE Enqueue([ended EXCEPT !.errored = IF name = "xai" THEN @ ELSE "yes"], Part("error"))

FinishResponses(r) ==
    EnqueueAll(r, [n \in DOMAIN r.blocks |-> <<"end", "text", r.blocks[n]>>]
                    \o <<FinishWith(r.reason)>>)

(* An error event ends the streams of xAI and Hugging Face.                *)
ResponseError(r) ==
    LET seen == Enqueue([r EXCEPT !.reason = "error", !.terminal = "yes", !.errored = "yes"],
                        Part("error"))
    IN  IF name = "openai_responses" THEN seen ELSE Close(FinishResponses(seen))

(* An event that does not parse.  Hugging Face hands it on as an error     *)
(* item, at which the guard fails.                                         *)
ResponseUnparsable(r) ==
    CASE name = "openai_responses" ->
           Enqueue([r EXCEPT !.errored = "yes", !.reason = "error"], Part("error"))
      [] name = "xai" -> Enqueue([r EXCEPT !.errored = "yes"], Part("error"))
      [] name = "huggingface" -> Enqueue([r EXCEPT !.reason = "error"], Failure)

(* An annotation OpenAI's stream cannot read leaves the finish reason.     *)
AnnotationError(r) == Enqueue([r EXCEPT !.errored = "yes"], Part("error"))

ResponsesBreak(r) ==
    IF name = "openai_responses" THEN ResponseUnparsable(r) ELSE Error(r, Failure)

TerminalSeen(r) ==
    CASE name = "openai_responses" -> r.reason # "none" \/ r.errored = "yes"
      [] name = "xai" -> r.terminal = "yes" \/ r.errored = "yes"
      [] name = "huggingface" -> r.terminal = "yes"

FlushResponses(r) ==
    IF strict /\ ~TerminalSeen(r) THEN Enqueue(r, Failure) ELSE FinishResponses(r)

-----------------------------------------------------------------------------
ResponsesTransformed(r) ==
    /\ VendorReady /\ Emit(r.parts, r.ends)
    /\ responses' = IF r.ends = "open" THEN [r EXCEPT !.parts = <<>>] ELSE ResponsesFresh

OpenAIItem(m, o) ==
    \/ m \in Items /\ ResponsesTransformed(MessageAdded(responses, m, o))
    \/ ResponsesTransformed(TextDeltaOf(responses, m, o))
    \/ ResponsesTransformed(MessageDone(responses, m, o))
    \/ m \in Items /\ ResponsesTransformed(ReasoningAdded(responses, m, o))
    \/ ResponsesTransformed(ReasoningDone(responses, m, o))
    \/ \E what \in {"delta", "done"} : ResponsesTransformed(Refusal(responses, m, o, what))
    \/ \E index \in PartIndices :
          \/ ResponsesTransformed(ContentPartAdded(responses, m, o, index))
          \/ ResponsesTransformed(SummaryPartAdded(responses, m, o, index))
          \/ ResponsesTransformed(SummaryDelta(responses, m, o, index))
          \/ ResponsesTransformed(SummaryPartDone(responses, m, o, index))

XaiItem(m) ==
    \/ \E index \in PartIndices :
          \/ ResponsesTransformed(OutputTextDelta(responses, m, index))
          \/ ResponsesTransformed(MessageItem(responses, m, index))
    \/ ResponsesTransformed(StartThinking(responses, m))
    \/ ResponsesTransformed(ThinkingDelta(responses, m))
    \/ ResponsesTransformed(ThinkingDone(responses, m))
    \/ \E t \in ToolIds, done \in BOOLEAN : ResponsesTransformed(ServerTool(responses, t, done))

HuggingFaceItem(m) ==
    \E what \in {"start", "delta", "end"}, kind \in {"text", "reasoning"} :
       ResponsesTransformed(Relay(responses, what, kind, m))

FunctionItem(o) ==
    \/ \E t \in ToolIds :
          \/ ResponsesTransformed(FunctionAdded(responses, t, o))
          \/ ResponsesTransformed(FunctionDone(responses, t, o))
          \/ name = "huggingface" /\ ResponsesTransformed(FunctionAnswered(responses, t, o))
    \/ name # "huggingface" /\ ResponsesTransformed(ArgumentsDelta(responses, o))

(* Metadata, sources and preliminary results.                              *)
ResponsesOther == ResponsesTransformed(Enqueue(responses, Part("other")))

ResponsesEnd ==
    \/ \E status \in {"none", "ok", "tools", "error"}, terminal \in {TRUE, name # "xai"} :
          (status = "error" => name = "huggingface") /\
          ResponsesTransformed(Completed(responses, status, terminal))
    \/ ResponsesTransformed(Incomplete(responses))
    \/ /\ name # "huggingface"
       /\ \E named, error \in BOOLEAN :
             ResponsesTransformed(ResponseFailed(responses, named, error))
    \/ ResponsesTransformed(ResponseError(responses))
    \/ ResponsesTransformed(ResponseUnparsable(responses))
    \/ name = "openai_responses" /\ ResponsesTransformed(AnnotationError(responses))
    \/ ResponsesTransformed(ResponsesBreak(responses))
    \/ ResponsesTransformed([FlushResponses(responses) EXCEPT !.ends = "flushed"])

ResponsesNext ==
    \/ \E m \in Aliases, o \in Outputs : name = "openai_responses" /\ OpenAIItem(m, o)
    \/ \E m \in Items : name = "xai" /\ XaiItem(m)
    \/ \E m \in Items : name = "huggingface" /\ HuggingFaceItem(m)
    \/ \E o \in Outputs : FunctionItem(o)
    \/ ResponsesOther \/ ResponsesEnd
=============================================================================
