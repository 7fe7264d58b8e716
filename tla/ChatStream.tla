----------------------------- MODULE ChatStream -----------------------------
(***************************************************************************)
(* The chat-completions streams of OpenAI, OpenAI-compatible servers,      *)
(* Groq, Mistral and DeepSeek, each in its chat_language_model.rs under    *)
(* aimux-providers/src: chunks of reasoning, text, tool-call deltas and a  *)
(* finish reason, turned into parts.  A transformer's state and the parts  *)
(* of the call in progress are one record, so that the handlers compose.   *)
(***************************************************************************)
EXTENDS StrictParts, ChatToolCalls

CONSTANTS
    Chunks,         \* the chunks servers send
    MaxCalls,       \* bound: tool calls per stream
    MaxPending      \* bound: tokens buffered for a call without a name

VARIABLE chat       \* the transformer

ChatVendors == {"openai", "compatible", "groq", "mistral", "deepseek"}

TextId == <<"txt", 0>>
ReasoningId == <<"reasoning", 0>>

Fresh ==
    [text |-> "no", reasoning |-> "no", calls |-> <<>>, reason |-> "none",
     errored |-> "no", first |-> "none", pending |-> {}, forwarded |-> {},
     parts |-> <<>>, ends |-> "open"]

ChatInit == chat = Fresh

StartBlock(c, kind, id) ==
    IF c[kind] = "yes" THEN c
    ELSE Enqueue([c EXCEPT ![kind] = "yes"], <<"start", kind, id>>)
EndBlock(c, kind, id) ==
    IF c[kind] = "no" THEN c ELSE Enqueue([c EXCEPT ![kind] = "no"], <<"end", kind, id>>)
StartText(c) == StartBlock(c, "text", TextId)
EndText(c) == EndBlock(c, "text", TextId)
EndReasoning(c) == EndBlock(c, "reasoning", ReasoningId)
TextDelta(c) == Enqueue(c, <<"delta", "text", TextId>>)
ReasoningDelta(c) ==
    Enqueue(StartBlock(c, "reasoning", ReasoningId), <<"delta", "reasoning", ReasoningId>>)

(* Only OpenAI-compatible streams have a strict form of a delta.           *)
Replied(c, reply) ==
    [c EXCEPT !.calls = reply.calls, !.parts = @ \o reply.parts,
              !.ends = IF reply.ok = "no" THEN "closed" ELSE @]
ToolDelta(c, d) ==
    Replied(c, IF strict /\ name = "compatible" THEN StrictDelta(c.calls, d, "gen")
               ELSE ApplyDelta(c.calls, d, "gen"))

(* The loop over the deltas of a chunk returns at an invalid one.          *)
Tools(c, deltas) ==
    FoldLeft(LAMBDA acc, d : IF acc.ends = "closed" THEN acc ELSE ToolDelta(acc, d),
             c, deltas)

-----------------------------------------------------------------------------
(* The chunk handlers.  A chunk is [reasoning, text, deltas, finish], the  *)
(* first two "yes" or "no", deltas a sequence.  A handler is the           *)
(* composition of its stages, the innermost first.  It reads one choice:   *)
(* the first, or for OpenAI any of them, several being several chunks.     *)
Finished(c, chunk) == IF chunk.finish = "none" THEN c ELSE [c EXCEPT !.reason = chunk.finish]
OnReasoning(c, chunk) == IF chunk.reasoning = "yes" THEN ReasoningDelta(c) ELSE c
OnText(c, chunk) ==
    IF chunk.text = "yes" THEN TextDelta(StartText(EndReasoning(c))) ELSE c
OnTools(c, chunk) ==
    IF chunk.deltas = <<>> THEN c ELSE Tools(EndReasoning(c), chunk.deltas)

OpenAIReason(c, chunk) ==
    IF chunk.finish = "none" \/ c.ends = "closed" THEN c
    ELSE [EndReasoning(c) EXCEPT !.errored = "no", !.reason = chunk.finish]
OpenAIChunk(c, chunk) ==
    OpenAIReason(OnTools(OnText(OnReasoning(c, chunk), chunk), chunk), chunk)

GroqChunk(c, chunk) ==
    OnTools(OnText(OnReasoning(Finished(c, chunk), chunk), chunk), chunk)

DeepSeekText(c, chunk) ==
    IF chunk.text = "yes" THEN TextDelta(EndReasoning(StartText(c))) ELSE c
DeepSeekChunk(c, chunk) ==
    OnTools(DeepSeekText(OnReasoning(Finished(c, chunk), chunk), chunk), chunk)

(* A reasoning block ends the text, a text block the reasoning, only when  *)
(* it starts.                                                              *)
MistralReasoning(c, chunk) ==
    IF chunk.reasoning = "no" THEN c
    ELSE ReasoningDelta(IF c.reasoning = "no" THEN EndText(c) ELSE c)
MistralText(c, chunk) ==
    IF chunk.text = "no" THEN c
    ELSE TextDelta(IF c.text = "no" THEN StartText(EndReasoning(c)) ELSE c)
MistralReason(c, chunk) == IF c.ends = "closed" THEN c ELSE Finished(c, chunk)
MistralChunk(c, chunk) ==
    MistralReason(Tools(MistralText(MistralReasoning(c, chunk), chunk), chunk.deltas), chunk)

(* The first deltas of a call without a name are kept by index until one   *)
(* has it; pending holds [index, id, arguments].                           *)
Joined(old, d) ==
    [index |-> d.index,
     id |-> IF \E p \in old : p.id # {} THEN UNION {p.id : p \in old} ELSE d.id,
     arguments |-> FlattenSeq(<< IF old = {} THEN <<>> ELSE (CHOOSE p \in old : TRUE).arguments,
                                 Fragment(d) >>)]
Forwarded(c, d, entry) ==
    ToolDelta([c EXCEPT !.forwarded = @ \cup d.index],
              [d EXCEPT !.id = entry.id, !.arguments = {entry.arguments}])
Buffered(c, d) ==
    LET old == {p \in c.pending : p.index = d.index} IN
    IF NonBlank(d.name) = {}
      THEN [c EXCEPT !.pending = (@ \ old) \cup {Joined(old, d)}]
      ELSE Forwarded([c EXCEPT !.pending = @ \ old], d, Joined(old, d))

CompatibleDelta(c, d) ==
    IF ~strict /\ d.index # {} /\ ~(d.index \subseteq c.forwarded)
      THEN Buffered(c, d) ELSE ToolDelta(c, d)
CompatibleTools(c, deltas) ==
    FoldLeft(LAMBDA acc, d : IF acc.ends = "closed" THEN acc ELSE CompatibleDelta(acc, d),
             c, deltas)

(* Strict: nothing but the same finish_reason may follow the first one.    *)
AfterFinish(c, chunk) ==
    /\ strict /\ c.first # "none"
    /\ \/ chunk.reasoning = "yes" \/ chunk.text = "yes" \/ chunk.deltas # <<>>
       \/ chunk.finish \notin {"none", c.first}

CompatibleReasoning(c, chunk) ==
    IF chunk.reasoning = "yes" THEN ReasoningDelta(EndText(c)) ELSE c
CompatibleDeltas(c, chunk) ==
    IF chunk.deltas = <<>> THEN c ELSE CompatibleTools(EndReasoning(c), chunk.deltas)
CompatibleReason(c, chunk) ==
    IF c.ends = "closed" \/ chunk.finish = "none" THEN c
    ELSE [c EXCEPT !.reason = chunk.finish,
                   !.first = IF @ = "none" THEN chunk.finish ELSE @]
CompatibleChunk(c, chunk) ==
    IF AfterFinish(c, chunk) THEN Error(c, Failure)
    ELSE CompatibleReason(
           CompatibleDeltas(OnText(CompatibleReasoning(c, chunk), chunk), chunk), chunk)

TransformChunk(c, chunk) ==
    CASE name = "openai" -> OpenAIChunk(c, chunk)
      [] name = "compatible" -> CompatibleChunk(c, chunk)
      [] name = "groq" -> GroqChunk(c, chunk)
      [] name = "mistral" -> MistralChunk(c, chunk)
      [] name = "deepseek" -> DeepSeekChunk(c, chunk)

-----------------------------------------------------------------------------
(* An error object in the stream, or a chunk that does not parse.          *)
NoteError(c) ==
    Enqueue(IF name \in {"openai", "mistral"} THEN [c EXCEPT !.errored = "yes"]
            ELSE [c EXCEPT !.reason = "error"], Part("error"))

(* The transport breaks: OpenAI ends the stream after an error part, Groq  *)
(* and DeepSeek with an error; the others only report it.                  *)
BreakTransport(c) ==
    CASE name = "openai" -> Close(NoteError(c))
      [] name \in {"groq", "deepseek"} -> Error(c, Failure)
      [] OTHER -> NoteError(c)

(* flush: what each vendor takes for its terminal, and how it finishes.    *)
Finish(terminal, reason) == [terminal |-> terminal, reason |-> reason]
OpenAIFinish(c) ==
    Finish(c.reason # "none" \/ c.errored = "yes",
           IF c.errored = "yes" THEN "error" ELSE c.reason)
CompatibleFinish(c) ==
    Finish(c.reason # "none", IF c.reason = "none" THEN "error" ELSE c.reason)
GroqFinish(c) == Finish(c.reason # "none", c.reason)
MistralFinish(c) == Finish(c.reason # "none" \/ c.errored = "yes", c.reason)
DeepSeekFinish(c) == Finish(c.reason # "none", c.reason)

FinishOf(c) ==
    CASE name = "openai" -> OpenAIFinish(c)
      [] name = "compatible" -> CompatibleFinish(c)
      [] name = "groq" -> GroqFinish(c)
      [] name = "mistral" -> MistralFinish(c)
      [] name = "deepseek" -> DeepSeekFinish(c)

ReasonDisagrees(c) ==
    /\ strict /\ name = "compatible"
    /\ \/ c.reason = "tools" /\ c.calls = <<>>
       \/ c.reason = "ok" /\ c.calls # <<>>

(* What is still pending has no name: it ends the stream unless it can be  *)
(* matched to a call.  The order is that of a HashMap: any.                *)
FlushPending(c, order) ==
    FoldLeft(LAMBDA acc, p : IF acc.ends = "closed" THEN acc
               ELSE ToolDelta(acc, [index |-> p.index, id |-> p.id, name |-> {},
                        arguments |-> {p.arguments}, tag |-> <<>>, type |-> "function"]),
             [c EXCEPT !.pending = {}], order)

(* The calls, an error part where no reason came, and the Finish.          *)
WithCalls(c) == [c EXCEPT !.parts = @ \o FinishParts(c.calls)]
WithError(c) ==
    IF name = "compatible" /\ c.reason = "none" THEN Enqueue(c, Part("error")) ELSE c
Ending(c) ==
    IF c.ends = "closed" THEN c
    ELSE Enqueue(WithError(WithCalls(c)), FinishWith(FinishOf(c).reason))

FlushChat(c, order) ==
    IF (strict /\ ~FinishOf(c).terminal) \/ ReasonDisagrees(c) THEN Error(c, Failure)
    ELSE Ending(FlushPending(EndText(EndReasoning(c)), order))

-----------------------------------------------------------------------------
Transformed(c) ==
    /\ Emit(c.parts, c.ends)
    /\ chat' = IF c.ends = "open" THEN [c EXCEPT !.parts = <<>>] ELSE Fresh

(* Which wire types have an optional index, and which check the type.      *)
WellTyped(d) ==
    /\ d.index = {} => name \in {"compatible", "mistral"}
    /\ d.type = "invalid" => name \in {"openai", "groq"}

Bounded(c) ==
    /\ Len(c.calls) <= MaxCalls /\ \A p \in c.pending : Len(p.arguments) <= MaxPending
    /\ Transformed(c)

Chunk(chunk) ==
    /\ VendorReady /\ \A n \in DOMAIN chunk.deltas : WellTyped(chunk.deltas[n])
    /\ Bounded(TransformChunk(chat, chunk))

ErrorChunk == VendorReady /\ Transformed(NoteError(chat))

(* DeepSeek hands a chunk that does not parse on as an error item and goes *)
(* on; the guard fails at it.                                              *)
Unparsable ==
    /\ VendorReady
    /\ Transformed(IF name # "deepseek" THEN NoteError(chat)
                   ELSE Enqueue(chat, IF strict THEN Failure ELSE Part("error")))

BrokenTransport == VendorReady /\ Transformed(BreakTransport(chat))

Eof ==
    /\ VendorReady
    /\ \E order \in SetToSeqs(chat.pending) : Emit(FlushChat(chat, order).parts, "flushed")
    /\ UNCHANGED chat

ChatNext ==
    \/ \E chunk \in Chunks : Chunk(chunk)
    \/ ErrorChunk \/ Unparsable \/ BrokenTransport \/ Eof
=============================================================================
