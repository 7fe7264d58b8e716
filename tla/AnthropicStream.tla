--------------------------- MODULE AnthropicStream ---------------------------
(***************************************************************************)
(* AnthropicMessagesStream, aimux-providers/src/anthropic/                 *)
(* language_model.rs: the events of a Messages stream turned into parts.   *)
(* A stream may hold several messages; events name blocks by index and are *)
(* taken as the server sends them.  Text, metadata, usage and citations    *)
(* are left out; the order of parts and the state between events are not.  *)
(***************************************************************************)
EXTENDS StrictParts, SequencesExt

CONSTANT MaxDeferred    \* bound: tool calls deferred to one message

VARIABLES
    blocks,         \* per index: <<state, tool id>>
    active,         \* active_message_id: "none" or "some"
    reason,         \* final_finish_reason: "none", "ok", "tools" or "error"
    json,           \* uses_json_response_tool
    fromTool        \* is_json_response_from_tool

messagesVars == <<blocks, active, reason, json, fromTool>>

Closed == <<"none", "none">>
ToolStates == {"tool", "toolset", "server"}

AnthropicInit ==
    /\ blocks = [i \in Indices |-> Closed] /\ active = "none"
    /\ reason = "none" /\ fromTool = "no"
    /\ json \in {"no", IF name = "anthropic" THEN "yes" ELSE "no"}

-----------------------------------------------------------------------------
(* The state of a stream that has ended is not read again.                 *)
Forgotten ==
    /\ blocks' = [i \in Indices |-> Closed]
    /\ active' = "none" /\ reason' = "none" /\ json' = "no" /\ fromTool' = "no"

(* message_start: another message is still open; the same one is repeated; *)
(* or a new one opens, with the tool calls deferred to it and perhaps a    *)
(* stop reason.                                                            *)
StartAgain(same) ==
    /\ VendorReady /\ active = "some"
    /\ \/ ~same /\ Emit(<<Part("error")>>, "closed") /\ Forgotten
       \/ same /\ Emit(<<>>, "open") /\ UNCHANGED messagesVars

MessageStart(deferred, r) ==
    /\ VendorReady /\ active = "none" /\ active' = "some"
    /\ reason' = IF r = "none" THEN reason ELSE r
    /\ Emit(<<Part("other")>> \o FlattenSeq([n \in DOMAIN deferred |->
               InputOf(deferred[n]) \o <<ClientCall(deferred[n])>>]), "open")
    /\ UNCHANGED <<blocks, json, fromTool>>

Opened(i, state, t) == blocks' = [blocks EXCEPT ![i] = <<state, t>>]

(* content_block_start, one line per kind of block.                        *)
TextBlock(i) ==
    \/ json = "yes" /\ Emit(<<>>, "open") /\ UNCHANGED blocks
    \/ json = "no" /\ Opened(i, "text", "none") /\ Emit(<< <<"start", "text", i>> >>, "open")

CompactionBlock(i, content) ==
    /\ Opened(i, "text", "none")
    /\ Emit(<< <<"start", "text", i>> >> \o
            (IF content = "yes" THEN << <<"delta", "text", i>> >> ELSE <<>>), "open")

ThinkingBlock(i) ==
    Opened(i, "thinking", "none") /\ Emit(<< <<"start", "reasoning", i>> >>, "open")

JsonToolBlock(i) ==
    /\ json = "yes" /\ fromTool' = "yes" /\ Opened(i, "text", "none")
    /\ Emit(<< <<"start", "text", i>> >>, "open")

ToolBlock(i, state, t) ==
    Opened(i, state, t) /\ Emit(<< <<"start", "tool", t>> >>, "open")

(* MCP calls, fallbacks and results arrive whole and keep no block.        *)
WholeBlock == Emit(<<Part("other")>>, "open") /\ UNCHANGED blocks

ContentBlockStart(i) ==
    /\ VendorReady
    /\ \/ /\ \/ TextBlock(i) \/ ThinkingBlock(i) \/ WholeBlock
             \/ \E content \in {"yes", "no"} : CompactionBlock(i, content)
             \/ \E t \in ToolIds, state \in ToolStates : ToolBlock(i, state, t)
          /\ UNCHANGED fromTool
       \/ JsonToolBlock(i)
    /\ UNCHANGED <<active, reason, json>>

-----------------------------------------------------------------------------
(* A fragment of a tool's input is text for the json tool, is lost in any  *)
(* other block once that tool was used, and is kept for a toolset member.  *)
JsonDelta(i) ==
    CASE fromTool = "yes" /\ blocks[i][1] = "text" -> << <<"delta", "text", i>> >>
      [] fromTool = "no" /\ blocks[i][1] \in {"tool", "server"} ->
           << <<"delta", "tool", blocks[i][2]>> >>
      [] OTHER -> <<>>

DeltaParts(i, field) ==
    CASE field = "text" -> IF json = "yes" THEN <<>> ELSE << <<"delta", "text", i>> >>
      [] field = "content" -> << <<"delta", "text", i>> >>
      [] field = "citation" -> <<Part("other")>>
      [] field = "partial_json" -> JsonDelta(i)
      [] field = "thinking" -> << <<"delta", "reasoning", i>> >>
      [] field = "signature" ->
           IF blocks[i][1] = "thinking" THEN << <<"delta", "reasoning", i>> >> ELSE <<>>

Fields == {"text", "content", "citation", "partial_json", "thinking", "signature"}

ContentBlockDelta(i, field) ==
    /\ VendorReady /\ Emit(DeltaParts(i, field), "open") /\ UNCHANGED messagesVars

StopParts(i) ==
    LET state == blocks[i][1]  t == blocks[i][2] IN
    CASE state = "none" -> <<>>
      [] state = "text" -> << <<"end", "text", i>> >>
      [] state = "thinking" -> << <<"end", "reasoning", i>> >>
      [] state = "tool" -> << <<"end", "tool", t>>, ClientCall(t) >>
      [] state = "server" -> << <<"end", "tool", t>>, Part("other") >>
      [] state = "toolset" ->
           << <<"delta", "tool", t>>, <<"end", "tool", t>>, ClientCall(t) >>

ContentBlockStop(i) ==
    /\ VendorReady /\ Emit(StopParts(i), "open")
    /\ blocks' = [blocks EXCEPT ![i] = Closed]
    /\ UNCHANGED <<active, reason, json, fromTool>>

-----------------------------------------------------------------------------
MessageDelta(r) ==
    /\ VendorReady /\ Emit(<<>>, "open") /\ reason' = r
    /\ UNCHANGED <<blocks, active, json, fromTool>>

FinishReason == IF fromTool = "yes" /\ reason = "tools" THEN "ok" ELSE reason

(* message_stop: finish.  It resets nothing but the open message.          *)
MessageStop ==
    /\ VendorReady /\ active' = "none" /\ reason' = FinishReason
    /\ Emit(<<FinishWith(FinishReason)>>, "open")
    /\ UNCHANGED <<blocks, json, fromTool>>

(* An error event or an event that does not parse; a broken transport.     *)
ErrorEvent ==
    /\ VendorReady /\ Emit(<<Part("error")>>, "open") /\ UNCHANGED messagesVars

MessagesBroken ==
    VendorReady /\ Emit(<<Part("error")>>, "closed") /\ Forgotten

(* flush emits nothing: the end of input is no end of a message.           *)
MessagesEof == VendorReady /\ Emit(<<>>, "flushed") /\ Forgotten

AnthropicNext ==
    \/ \E same \in BOOLEAN : StartAgain(same)
    \/ \E deferred \in BoundedSeq(ToolIds, MaxDeferred), r \in Reasons \cup {"none"} :
          MessageStart(deferred, r)
    \/ \E i \in Indices :
          \/ ContentBlockStart(i) \/ ContentBlockStop(i)
          \/ \E field \in Fields : ContentBlockDelta(i, field)
    \/ \E r \in Reasons : MessageDelta(r)
    \/ MessageStop \/ ErrorEvent \/ MessagesBroken \/ MessagesEof
=============================================================================
