---------------------------- MODULE ToolCallFeed ----------------------------
(***************************************************************************)
(* A provider that streams parallel tool calls, and ChatToolCalls putting  *)
(* them together again.  The provider labels its deltas in one of the ways *)
(* the doc of ChatToolCalls lists (chat_tool_calls.rs:66-87): with reused  *)
(* indices, repeated or changing ids, ids dropped on continuations, blank  *)
(* names, or no label but the name.                                        *)
(***************************************************************************)
EXTENDS ChatToolCalls

CONSTANTS
    TrueCalls,      \* 1 .. N
    Plans           \* the ways arguments are cut: sequences of optional fragments

VARIABLES
    style, mode,    \* how the provider labels, "lax" or "strict"
    plan, sent,     \* per call: its fragments, how many were sent
    calls, failed

feedVars == <<style, mode, plan, sent, calls, failed>>

(* Ways that need the calls one after the other, and those strict accepts. *)
Sequential == {"unlabelled", "shared_index"}
StrictStyles == {"indexed", "repeated"}
Styles == Sequential \cup StrictStyles \cup
    {"by_id", "fresh_ids", "same_id", "no_id", "blank_names"}

Label(k, n) ==
    [index |-> CASE style \in {"by_id", "unlabelled"} -> {}
                 [] style = "shared_index" -> {0}
                 [] OTHER -> {k - 1},
     id |-> CASE style \in {"unlabelled", "no_id"} -> {}
              [] style \in {"repeated", "by_id"} -> {<<"id", k>>}
              [] style = "fresh_ids" -> {<<"id", 10 * k + n>>}
              [] style = "same_id" -> {<<"id", 0>>}
              [] OTHER -> IF n = 1 THEN {<<"id", k>>} ELSE {},
     name |-> CASE n = 1 \/ style = "repeated" -> {"f"}
                [] n > 1 /\ style = "blank_names" -> {Blank}
                [] OTHER -> {},
     arguments |-> plan[k][n], tag |-> <<k, n>>, type |-> "function"]

FeedInit ==
    /\ plan \in [TrueCalls -> Plans] /\ sent = [k \in TrueCalls |-> 0]
    /\ calls = <<>> /\ failed = "no"
    /\ \/ style \in Styles /\ mode = "lax"
       \/ style \in StrictStyles /\ mode = "strict"

MayStart(k) == sent[k] > 0 \/ \A j \in TrueCalls : j < k => sent[j] > 0
InTurn(k) == style \in Sequential => \A j \in TrueCalls : j < k => sent[j] = Len(plan[j])

Send(k) ==
    /\ sent[k] < Len(plan[k]) /\ MayStart(k) /\ InTurn(k)
    /\ sent' = [sent EXCEPT ![k] = @ + 1]
    /\ LET d == Label(k, sent[k] + 1)
           reply == IF mode = "strict" THEN StrictDelta(calls, d, "gen")
                    ELSE ApplyDelta(calls, d, "gen")
       IN calls' = reply.calls /\ failed' = IF reply.ok = "no" THEN "yes" ELSE failed
    /\ UNCHANGED <<style, mode, plan>>

FeedNext == \E k \in TrueCalls : Send(k)

-----------------------------------------------------------------------------
Started == {k \in TrueCalls : sent[k] > 0}
SentTags(k) ==
    SelectSeq([n \in 1 .. sent[k] |-> <<k, n>>], LAMBDA t : plan[k][t[2]] # {})

(* chat_tool_calls.rs:66-87: whatever way the provider labels its deltas,  *)
(* however it interleaves those that have a label of their own, and with   *)
(* the unlabelled and those at one index sent call after call, each call   *)
(* gets its own fragments in order, none is lost, and no two share an id.  *)
CallsAreReassembled ==
    /\ failed = "no" /\ Len(calls) = Cardinality(Started)
    /\ \A k \in Started : \E n \in DOMAIN calls : calls[n].tags = SentTags(k)
    /\ \A m, n \in DOMAIN calls : m # n => calls[m].id # calls[n].id
=============================================================================
