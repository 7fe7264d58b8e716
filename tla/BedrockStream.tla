---------------------------- MODULE BedrockStream ----------------------------
(***************************************************************************)
(* AmazonBedrockChatStream, aimux-providers/src/bedrock/                   *)
(* chat_language_model.rs: the events of a Converse stream turned into     *)
(* parts.  Blocks are named by their index; in strict stream mode the      *)
(* order of the events is checked here, before the guard sees the parts.   *)
(***************************************************************************)
EXTENDS StrictParts

VARIABLE bedrock

BedrockFresh ==
    [opened |-> {},                 \* open_blocks
     text |-> {}, reasoning |-> {}, \* text_blocks, reasoning_blocks
     tools |-> [i \in Indices |-> "none"],
     json |-> "no",                 \* uses_json_tool
     fromTool |-> "no", called |-> "no", reason |-> "none",
     parts |-> <<>>, ends |-> "open"]

BedrockInit ==
    \E json \in {"no", IF name = "bedrock" THEN "yes" ELSE "no"} :
       bedrock = [BedrockFresh EXCEPT !.json = json]

JsonTool == "json"
IsJsonTool(b, t) == b.json = "yes" /\ t = JsonTool
ToolNames == ToolIds \cup {JsonTool}

-----------------------------------------------------------------------------
(* A start without toolUse is that of a text block.                        *)
BlockStart(b, i, t) ==
    LET o == [b EXCEPT !.opened = @ \cup {i}] IN
    IF t = "none"
      THEN Enqueue([o EXCEPT !.text = @ \cup {i}], <<"start", "text", i>>)
      ELSE EnqueueAll([o EXCEPT !.tools[i] = t],
                      IF IsJsonTool(b, t) THEN <<>> ELSE << <<"start", "tool", t>> >>)

(* A delta of no known form closes the tool block without a call.          *)
UnknownDelta(b, i) ==
    LET t == b.tools[i] IN
    EnqueueAll([b EXCEPT !.tools[i] = "none", !.reason = "error"],
               (IF t = "none" \/ IsJsonTool(b, t) THEN <<>> ELSE << <<"end", "tool", t>> >>)
                 \o <<Failure>>)

(* The JSON extractor may hold all of the text back.                       *)
TextOfDelta(b, i, held) ==
    LET start == IF i \in b.text THEN <<>> ELSE << <<"start", "text", i>> >>
        delta == IF held THEN <<>> ELSE << <<"delta", "text", i>> >>
    IN  EnqueueAll([b EXCEPT !.text = @ \cup {i}], start \o delta)

ToolUseDelta(b, i) ==
    LET t == b.tools[i] IN
    CASE t = "none" /\ strict -> Error(b, Failure)
      [] t = "none" \/ IsJsonTool(b, t) -> b
      [] OTHER -> Enqueue(b, <<"delta", "tool", t>>)

(* Redacted content is kept for the end of the block.                      *)
ReasoningOfDelta(b, i, redacted) ==
    LET start == IF i \in b.reasoning THEN <<>> ELSE << <<"start", "reasoning", i>> >>
        delta == IF redacted THEN <<>> ELSE << <<"delta", "reasoning", i>> >>
    IN  EnqueueAll([b EXCEPT !.reasoning = @ \cup {i}], start \o delta)

Deltas == {"unknown", "empty", "text", "held", "input", "reasoning", "redacted"}

BlockDelta(b, i, delta) ==
    LET o == [b EXCEPT !.opened = @ \cup {i}] IN
    CASE delta = "unknown" -> UnknownDelta(o, i)
      [] delta = "empty" -> o
      [] delta \in {"text", "held"} -> TextOfDelta(o, i, delta = "held")
      [] delta = "input" -> ToolUseDelta(o, i)
      [] delta \in {"reasoning", "redacted"} -> ReasoningOfDelta(o, i, delta = "redacted")

(* The json tool's input is text; a tool block ends before a reasoning     *)
(* block of its index, and that before a text block.                       *)
BlockStop(b, i) ==
    LET o == [b EXCEPT !.opened = @ \ {i}]
        t == b.tools[i]
    IN  CASE strict /\ i \notin b.opened -> Error(b, Failure)
          [] IsJsonTool(b, t) ->
               EnqueueAll([o EXCEPT !.tools[i] = "none", !.fromTool = "yes"],
                          << <<"start", "text", i>>, <<"delta", "text", i>>,
                             <<"end", "text", i>> >>)
          [] t # "none" ->
               EnqueueAll([o EXCEPT !.tools[i] = "none", !.called = "yes"],
                          << <<"end", "tool", t>>, ClientCall(t) >>)
          [] i \in b.reasoning ->
               Enqueue([o EXCEPT !.reasoning = @ \ {i}], <<"end", "reasoning", i>>)
          [] i \in b.text -> Enqueue([o EXCEPT !.text = @ \ {i}], <<"end", "text", i>>)
          [] OTHER -> o

(* An error of the stream is not forgotten at messageStop, and a stop      *)
(* without a reason sets none.                                             *)
BedrockStop(b, r) ==
    CASE strict /\ (b.opened # {} \/ (b.called = "yes" /\ r # "tools")) -> Error(b, Failure)
      [] b.reason = "error" \/ r = "none" -> b
      [] OTHER -> [b EXCEPT !.reason = IF b.fromTool = "yes" /\ r = "tools" THEN "ok" ELSE r]

(* The turn ends at metadata, the last event, unless the stream failed.    *)
Metadata(b, valid) ==
    CASE ~valid -> Enqueue([b EXCEPT !.reason = "error"], Part("error"))
      [] valid /\ b.reason \in {"none", "error"} -> b
      [] OTHER -> Close(Enqueue(b, FinishWith(b.reason)))

FlushBedrock(b) ==
    IF strict /\ b.reason = "none" THEN Enqueue(b, Failure)
    ELSE Enqueue(b, FinishWith(b.reason))

-----------------------------------------------------------------------------
BedrockTransformed(b) ==
    /\ VendorReady /\ Emit(b.parts, b.ends)
    /\ bedrock' = IF b.ends = "open" THEN [b EXCEPT !.parts = <<>>] ELSE BedrockFresh

(* An exception message, or a payload that does not parse.                 *)
BedrockException ==
    BedrockTransformed(Enqueue([bedrock EXCEPT !.reason = "error"], Part("error")))

BedrockBroken == BedrockTransformed(Error(bedrock, Failure))

BedrockEof == BedrockTransformed([FlushBedrock(bedrock) EXCEPT !.ends = "flushed"])

BedrockNext ==
    \/ \E i \in Indices :
          \/ \E t \in ToolNames \cup {"none"} : BedrockTransformed(BlockStart(bedrock, i, t))
          \/ \E delta \in Deltas : BedrockTransformed(BlockDelta(bedrock, i, delta))
          \/ BedrockTransformed(BlockStop(bedrock, i))
    \/ \E r \in {"ok", "tools", "none"} : BedrockTransformed(BedrockStop(bedrock, r))
    \/ \E valid \in BOOLEAN : BedrockTransformed(Metadata(bedrock, valid))
    \/ BedrockException \/ BedrockBroken \/ BedrockEof
=============================================================================
