-------------------------- MODULE CompletionStream ---------------------------
(***************************************************************************)
(* The legacy completion streams, OpenAICompletionStream and               *)
(* OpenAICompatibleCompletionStream, in openai/completion and              *)
(* openai_compatible/completion under aimux-providers/src: one text block, *)
(* opened by the first chunk.  Every error is reported as a part.          *)
(***************************************************************************)
EXTENDS StrictParts

VARIABLE completion

CompletionVendors == {"completion", "compatible_completion"}

CompletionFresh == [started |-> "no", reason |-> "none"]

CompletionInit == completion = CompletionFresh

CompletionSends(parts, after, ends) ==
    /\ VendorReady /\ Emit(parts, ends)
    /\ completion' = IF ends = "open" THEN after ELSE CompletionFresh

CompletionText(what) == << <<what, "text", "0">> >>

(* A chunk with or without a choice, of which the text may be empty:       *)
(* OpenAI's stream leaves an empty delta out.                              *)
CompletionChunk(choice, r) ==
    CompletionSends(
        (IF completion.started = "yes" THEN <<>>
         ELSE <<Part("other")>> \o CompletionText("start"))
          \o (IF choice = "text" \/ (choice = "empty" /\ name = "compatible_completion")
                THEN CompletionText("delta") ELSE <<>>),
        [started |-> "yes",
         reason |-> IF choice = "none" \/ r = "none" THEN completion.reason ELSE r], "open")

CompletionError ==
    CompletionSends(<<Part("error")>>, [completion EXCEPT !.reason = "error"], "open")

CompletionEof ==
    CompletionSends(
        IF strict /\ completion.reason = "none" THEN <<Failure>>
        ELSE (IF completion.started = "yes" THEN CompletionText("end") ELSE <<>>)
               \o <<FinishWith(completion.reason)>>,
        completion, "flushed")

CompletionNext ==
    \/ \E choice \in {"none", "empty", "text"}, r \in Reasons \cup {"none"} :
          CompletionChunk(choice, r)
    \/ CompletionError \/ CompletionEof
=============================================================================
