------------------------- MODULE MCProviderStreams ---------------------------
(***************************************************************************)
(* Three questions about what providers stream, one per behaviour:         *)
(* "parts": a stream of one of the providers, through the guard to the     *)
(* consumer, the transformers of the others keeping their first state;     *)
(* "calls": three calls whose arguments come whole, in halves, after an    *)
(* empty or missing fragment, or with a nested object at a fragment's      *)
(* start, put together by ChatToolCalls;                                   *)
(* "text": every text of at most MaxLen tokens, in every division into     *)
(* fragments of at most two, scanned for completeness.                     *)
(***************************************************************************)
EXTENDS AnthropicStream, ChatStream, GoogleStream, CohereStream, BedrockStream,
        CompletionStream, ResponsesStream, ToolCallFeed

CONSTANTS Tokens, MaxLen

VARIABLES under, text, state

(* Vendors that relay the blocks or the calls the server names: only the   *)
(* guard of the strict mode makes their streams follow the protocol.       *)
Relaying == {"anthropic", "google", "cohere", "bedrock"} \cup ResponsesVendors

StreamInit ==
    /\ PipeInit /\ (name \in Relaying => strict)
    /\ AnthropicInit /\ ChatInit /\ GoogleInit /\ CohereInit /\ BedrockInit
    /\ CompletionInit /\ ResponsesInit

(* The first states of a stream and of a feed that nothing happens to.     *)
NoStream == StreamInit /\ strict /\ name = "openai"
NoFeed ==
    /\ style = "indexed" /\ mode = "lax" /\ calls = <<>> /\ failed = "no"
    /\ plan = [k \in TrueCalls |-> <<>>] /\ sent = [k \in TrueCalls |-> 0]

Init ==
    /\ text = <<>> /\ state = FreshState
    /\ \/ under = "parts" /\ StreamInit /\ NoFeed
       \/ under = "calls" /\ NoStream /\ FeedInit
       \/ under = "text" /\ NoStream /\ NoFeed

newer == <<google, cohere, bedrock, completion, responses>>

StreamNext ==
    \/ PipeNext /\ UNCHANGED <<messagesVars, chat, newer>>
    \/ name = "anthropic" /\ AnthropicNext /\ UNCHANGED <<chat, newer>>
    \/ name \in ChatVendors /\ ChatNext /\ UNCHANGED <<messagesVars, newer>>
    \/ /\ name = "google" /\ GoogleNext
       /\ UNCHANGED <<messagesVars, chat, cohere, bedrock, completion, responses>>
    \/ /\ name = "cohere" /\ CohereNext
       /\ UNCHANGED <<messagesVars, chat, google, bedrock, completion, responses>>
    \/ /\ name = "bedrock" /\ BedrockNext
       /\ UNCHANGED <<messagesVars, chat, google, cohere, completion, responses>>
    \/ /\ name \in CompletionVendors /\ CompletionNext
       /\ UNCHANGED <<messagesVars, chat, google, cohere, bedrock, responses>>
    \/ /\ name \in ResponsesVendors /\ ResponsesNext
       /\ UNCHANGED <<messagesVars, chat, google, cohere, bedrock, completion>>

streamVars == <<pipeVars, messagesVars, chat, newer>>

Scanned(fragment) ==
    /\ Len(text) + Len(fragment) <= MaxLen
    /\ text' = text \o fragment /\ state' = AppendFragment(state, fragment)

Next ==
    \/ under = "parts" /\ StreamNext /\ UNCHANGED <<under, feedVars, text, state>>
    \/ under = "calls" /\ FeedNext /\ UNCHANGED <<under, streamVars, text, state>>
    \/ /\ under = "text" /\ UNCHANGED <<under, streamVars, feedVars>>
       /\ \E fragment \in UNION {[1 .. n -> Tokens] : n \in 1 .. 2} : Scanned(fragment)

Spec == Init /\ [][Next]_<<under, streamVars, feedVars, text, state>>

-----------------------------------------------------------------------------
TwoParts == 0..1

(* Chat chunks: deltas with and without index, id, name and arguments, one *)
(* with a blank name and one with a wrong type, and chunks of two deltas.  *)
Delta(index, id, fname, arguments, type) ==
    [index |-> index, id |-> id, name |-> fname, arguments |-> arguments,
     type |-> type, tag |-> <<>>]

SmallDeltas ==
    {Delta({0}, id, fname, {<<"{", "}">>}, "function") :
        id \in {{}, {<<"a", 0>>}}, fname \in {{}, {"f"}}}
    \cup {Delta({1}, {}, fname, {<<"{", "}">>}, "function") : fname \in {{}, {"f"}}}
    \cup {Delta({}, {}, {"f"}, {<<>>}, "function"), Delta({0}, {}, {Blank}, {}, "function"),
          Delta({0}, {}, {"f"}, {}, "invalid")}

TwoDeltas ==
    << Delta({0}, {<<"a", 0>>}, {"f"}, {<<"{", "}">>}, "function"),
       Delta({1}, {<<"b", 0>>}, {"f"}, {<<"{", "}">>}, "function") >>

SmallChunks ==
    [reasoning : {"yes", "no"}, text : {"yes", "no"}, deltas : {<<>>},
     finish : {"none", "ok"}]
    \cup [reasoning : {"no"}, text : {"no"},
          deltas : {<<d>> : d \in SmallDeltas} \cup {TwoDeltas},
          finish : {"none", "tools"}]

ThreeCalls == 1 .. 3
ArgumentPlans ==
    { << {<<"{", "}">>} >>, << {<<"{">>}, {<<"}">>} >>,
      << {<<>>}, {<<"{">>}, {<<"}">>} >>, << {}, {<<"{", "}">>} >>,
      << {<<"{">>}, {<<"{", "}">>}, {<<"}">>} >> }

-----------------------------------------------------------------------------
(* Positions in string literals, by the quotes before them: a quote counts *)
(* unless an odd run of escapes that starts in the literal precedes it.    *)
Escaped(s, i) ==
    \E n \in 1 .. i - 1 :
       /\ n % 2 = 1 /\ \A j \in i - n .. i - 1 : s[j] = "escape"
       /\ i - n - 1 >= 1 /\ s[i - n - 1] # "escape"
Quotes(s, n) ==
    LET inside[i \in 0 .. n] ==
          IF i = 0 THEN FALSE
          ELSE IF s[i] = "quote" /\ ~(inside[i - 1] /\ Escaped(s, i))
                 THEN ~inside[i - 1] ELSE inside[i - 1]
    IN inside

Depth(s, outside, i, j) ==
    Cardinality({k \in i .. j : k \in outside /\ s[k] \in Opening})
    - Cardinality({k \in i .. j : k \in outside /\ s[k] \in {"}", "]"}})

(* A prefix is one value: it starts with a bracket, returns to depth zero  *)
(* at its end only, and each closing bracket has the kind of the last one  *)
(* left open.                                                              *)
IsValue(s) ==
    LET inside == Quotes(s, Len(s))
        outside == {i \in 1 .. Len(s) : ~inside[i] /\ s[i] # "quote"}
    IN  /\ s # <<>> /\ s[1] \in Opening
        /\ Depth(s, outside, 1, Len(s)) = 0
        /\ \A i \in 1 .. Len(s) - 1 : Depth(s, outside, 1, i) > 0
        /\ \A k \in outside : s[k] \in {"}", "]"} =>
              \E j \in outside :
                 /\ j < k /\ s[j] = Opener(s[k])
                 /\ Depth(s, outside, j + 1, k - 1) = 0
                 /\ \A m \in j + 1 .. k - 1 : Depth(s, outside, j + 1, m) >= 0

(* tool_call_arguments.rs: however the arguments are cut into fragments,   *)
(* the state is complete exactly when a whole object or array has arrived: *)
(* what tells a continuation of a call from the start of the next.         *)
CompleteIsExact ==
    IsComplete(state) <=>
       \E n \in 1 .. Len(TrimStart(text)) : IsValue(SubSeq(TrimStart(text), 1, n))
=============================================================================
