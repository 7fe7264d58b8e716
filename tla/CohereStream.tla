---------------------------- MODULE CohereStream -----------------------------
(***************************************************************************)
(* CohereChatStream, aimux-providers/src/cohere/chat_language_model.rs:    *)
(* the events of a Cohere chat stream turned into parts.                   *)
(***************************************************************************)
EXTENDS StrictParts

VARIABLE cohere

CohereFresh == [tool |-> "none", reasoning |-> "no", reason |-> "none"]

CohereInit == cohere = CohereFresh

(* The parts of one event, the state after it, and how the stream goes on. *)
CohereSends(parts, after, ends) ==
    /\ VendorReady /\ Emit(parts, ends)
    /\ cohere' = IF ends = "open" THEN after ELSE CohereFresh

ContentStart(i, kind) ==
    CohereSends(<< <<"start", kind, i>> >>,
                [cohere EXCEPT !.reasoning = IF kind = "reasoning" THEN "yes" ELSE @], "open")

ContentDelta(i, kind) == CohereSends(<< <<"delta", kind, i>> >>, cohere, "open")

(* The kind of the block that ends is that of the last thinking start.     *)
ContentEnd(i) ==
    CohereSends(<< <<"end", IF cohere.reasoning = "yes" THEN "reasoning" ELSE "text", i>> >>,
                [cohere EXCEPT !.reasoning = "no"], "open")

ToolCallStart(t, arguments) ==
    CohereSends(<< <<"start", "tool", t>> >>
                  \o (IF arguments = "yes" THEN << <<"delta", "tool", t>> >> ELSE <<>>),
                [cohere EXCEPT !.tool = t], "open")

ToolCallDelta ==
    CohereSends(IF cohere.tool = "none" THEN <<>> ELSE << <<"delta", "tool", cohere.tool>> >>,
                cohere, "open")

(* Arguments that do not parse, or hold a forbidden key, fail the stream.  *)
ToolCallEnd(valid) ==
    LET t == cohere.tool IN
    \/ t = "none" /\ CohereSends(<<>>, cohere, "open")
    \/ /\ t # "none" /\ valid
       /\ CohereSends(<< <<"end", "tool", t>>, ClientCall(t) >>,
                      [cohere EXCEPT !.tool = "none"], "open")
    \/ t # "none" /\ ~valid /\ CohereSends(<< <<"end", "tool", t>>, Failure >>, cohere, "closed")

MessageEnd(r) == CohereSends(<<>>, [cohere EXCEPT !.reason = r], "open")

CohereOther == CohereSends(<<Part("other")>>, cohere, "open")

CohereUnparsable == CohereSends(<<Part("error")>>, [cohere EXCEPT !.reason = "error"], "open")

CohereBroken == CohereSends(<<Failure>>, cohere, "closed")

CohereEof ==
    CohereSends(<<IF strict /\ cohere.reason = "none" THEN Failure
                  ELSE FinishWith(cohere.reason)>>, cohere, "flushed")

CohereNext ==
    \/ \E i \in Indices :
          \/ ContentEnd(i)
          \/ \E kind \in {"text", "reasoning"} : ContentStart(i, kind) \/ ContentDelta(i, kind)
    \/ \E t \in ToolIds, arguments \in {"yes", "no"} : ToolCallStart(t, arguments)
    \/ ToolCallDelta
    \/ \E valid \in BOOLEAN : ToolCallEnd(valid)
    \/ \E r \in Reasons : MessageEnd(r)
    \/ CohereOther \/ CohereUnparsable \/ CohereBroken \/ CohereEof
=============================================================================
