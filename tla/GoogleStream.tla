---------------------------- MODULE GoogleStream -----------------------------
(***************************************************************************)
(* GoogleLanguageModelStream, aimux-providers/src/google/language_model.rs:*)
(* the chunks of a Gemini stream turned into parts.  Blocks are numbered   *)
(* here, tool calls named by the server; the arguments of a call may       *)
(* stream in partialArgs, one call within another.  A chunk is modelled    *)
(* with at most one content part: several are several chunks.              *)
(***************************************************************************)
EXTENDS StrictParts, SequencesExt

CONSTANT MaxBlocks      \* bound: text and reasoning blocks of a stream

VARIABLE google

GoogleFresh ==
    [text |-> <<>>, reasoning |-> <<>>,     \* the open block, <<number>> or none
     counter |-> 0, finish |-> "none", usage |-> "no", blocked |-> "no",
     active |-> <<>>,                       \* calls still streaming, innermost last
     called |-> "no", parts |-> <<>>, ends |-> "open"]

GoogleInit == google = GoogleFresh

EndOpen(g, kind) ==
    IF g[kind] = <<>> THEN g
    ELSE Enqueue([g EXCEPT ![kind] = <<>>], <<"end", kind, g[kind]>>)
EndBoth(g) == EndOpen(EndOpen(g, "text"), "reasoning")

StartOpen(g, kind) ==
    IF g[kind] # <<>> THEN g
    ELSE Enqueue([g EXCEPT ![kind] = <<g.counter>>, !.counter = @ + 1],
                 <<"start", kind, <<g.counter>> >>)
SendDelta(g, kind) == Enqueue(g, <<"delta", kind, g[kind]>>)

Thought(g) == SendDelta(StartOpen(EndOpen(g, "text"), "reasoning"), "reasoning")
Answer(g) == SendDelta(StartOpen(EndOpen(g, "reasoning"), "text"), "text")

-----------------------------------------------------------------------------
(* A functionCall part: a name or not, partialArgs or not (with text,      *)
(* without, wrong, or no array) of which some continue or none does,       *)
(* willContinue, args or not, and whether closing the arguments adds text. *)
YesNo == {"yes", "no"}
FunctionCalls ==
    {f \in [name : YesNo, id : ToolIds, partial : {"none", "text", "empty", "bad", "odd"},
            more : YesNo, cont : {"none", "yes", "no"}, args : YesNo, closing : YesNo] :
        /\ f.more = "yes" => f.partial \in {"text", "empty"}
        /\ f.args = "yes" => f.partial = "none"}

FinishStreamingToolCall(g, f) ==
    IF g.active = <<>> THEN g
    ELSE LET t == Last(g.active)
             closing == IF f.closing = "yes" THEN << <<"delta", "tool", t>> >> ELSE <<>>
         IN  EnqueueAll([g EXCEPT !.active = Front(@), !.called = "yes"],
                        closing \o << <<"end", "tool", t>>, ClientCall(t) >>)

PartialArgs(g, f) ==
    CASE f.partial \in {"none", "odd"} \/ g.active = <<>> -> g
      [] f.partial = "bad" -> Error(g, Part("error"))
      [] OTHER ->
           LET sent == IF f.partial = "empty" THEN g
                       ELSE Enqueue(g, <<"delta", "tool", Last(g.active)>>)
           IN  IF f.cont = "yes" \/ f.more = "yes" THEN sent
               ELSE FinishStreamingToolCall(sent, f)

StreamedCall(g, f) ==
    PartialArgs(IF f.name = "no" THEN g
                ELSE Enqueue([g EXCEPT !.active = Append(@, f.id)],
                             <<"start", "tool", f.id>>), f)

CompleteCall(g, f) ==
    LET delta == IF f.args = "yes" THEN << <<"delta", "tool", f.id>> >> ELSE <<>> IN
    EnqueueAll([g EXCEPT !.called = "yes"],
               << <<"start", "tool", f.id>> >> \o delta
                 \o << <<"end", "tool", f.id>>, ClientCall(f.id) >>)

FunctionCall(g, f) ==
    CASE f.partial # "none" \/ (f.name = "yes" /\ f.cont = "yes") -> StreamedCall(g, f)
      [] f.partial = "none" /\ f.name = "no" /\ f.args = "no" /\ f.cont = "none" ->
           FinishStreamingToolCall(g, f)
      [] f.partial = "none" /\ f.name = "yes" /\ f.cont # "yes" -> CompleteCall(g, f)
      [] OTHER -> g

(* Provider-executed calls and their results are parts of no block.        *)
ContentParts ==
    {<<"none">>, <<"thought">>, <<"text">>, <<"signed">>, <<"file">>, <<"provider">>}
    \cup {<<"call", f>> : f \in FunctionCalls}

ContentPart(g, part) ==
    CASE part[1] = "none" -> g
      [] part[1] = "thought" -> Thought(g)
      [] part[1] = "text" -> Answer(g)
      [] part[1] = "signed" -> EndOpen(Answer(g), "text")
      [] part[1] = "file" -> Enqueue(EndBoth(g), Part("other"))
      [] part[1] = "provider" -> Enqueue(g, Part("other"))
      [] part[1] = "call" -> FunctionCall(EndBoth(g), part[2])

-----------------------------------------------------------------------------
(* parse_finish_reason of STOP and of MALFORMED_FUNCTION_CALL.             *)
GoogleReason(g, finish) ==
    CASE finish = "none" -> g.finish
      [] finish = "stop" -> IF g.called = "yes" THEN "tools" ELSE "ok"
      [] finish = "malformed" -> "error"

(* transform_chunk: usage, a prompt block, which settles the finish reason *)
(* and drops all content after it, then the part and the finish reason.    *)
TransformGoogle(g, chunk) ==
    LET seen == [g EXCEPT !.usage = IF chunk.usage = "yes" THEN "yes" ELSE @,
                          !.blocked = IF chunk.blocked = "yes" THEN "yes" ELSE @,
                          !.finish = IF chunk.blocked = "yes" /\ g.blocked = "no"
                                       THEN "ok" ELSE @]
        after == ContentPart(seen, chunk.part)
    IN  IF seen.blocked = "yes" THEN seen
        ELSE [after EXCEPT !.finish = GoogleReason(after, chunk.finish)]

FinishGoogle(g, reason) == Enqueue(EndBoth(g), FinishWith(reason))

GoogleTransformed(g) ==
    /\ Emit(g.parts, g.ends)
    /\ google' = IF g.ends = "open" THEN [g EXCEPT !.parts = <<>>] ELSE GoogleFresh

(* The turn ends with the finish reason and the usage, in either order.    *)
GoogleChunk(chunk) ==
    LET after == TransformGoogle(google, chunk) IN
    /\ after.counter <= MaxBlocks
    /\ GoogleTransformed(IF after.usage = "yes" /\ after.finish # "none"
                           THEN Close(FinishGoogle(after, after.finish)) ELSE after)

GoogleErrorEvent ==
    GoogleTransformed(Close(FinishGoogle(Enqueue(google, Part("error")), "error")))

GoogleFailed(recoverable) ==
    LET after == Enqueue(google, Part("error")) IN
    GoogleTransformed(IF recoverable THEN after ELSE Close(after))

GoogleEof ==
    GoogleTransformed([(IF strict /\ google.finish = "none" THEN Error(google, Failure)
                        ELSE FinishGoogle(google, google.finish)) EXCEPT !.ends = "flushed"])

(* The content of a chunk that blocks the prompt is dropped.               *)
GoogleChunks ==
    [usage : YesNo, blocked : {"no"}, part : ContentParts,
     finish : {"none", "stop", "malformed"}]
    \cup [usage : YesNo, blocked : {"yes"}, part : {<<"text">>}, finish : {"none", "stop"}]

GoogleNext ==
    /\ VendorReady
    /\ \/ \E chunk \in GoogleChunks : GoogleChunk(chunk)
       \/ \E recoverable \in BOOLEAN : GoogleFailed(recoverable)
       \/ GoogleErrorEvent \/ GoogleEof
=============================================================================
