---------------------------- MODULE PartProtocol ----------------------------
(***************************************************************************)
(* What a consumer may rely on in a stream of parts, aimux-providers/src/  *)
(* stream/strict.rs:4-18: a text, reasoning or tool-input block is started *)
(* once, continued and ended while it is open, and a failure is last.  In  *)
(* strict stream mode a client tool call is delivered once, after its      *)
(* input, and only right before a Finish that is not an error.             *)
(*                                                                         *)
(* A part is <<what, kind, id>>.                                           *)
(***************************************************************************)
EXTENDS Naturals

VARIABLES
    strict,         \* strict_stream
    open,           \* the blocks open downstream, <<kind, id>>
    called,         \* the client tool calls delivered
    last,           \* the part delivered last
    turn            \* flips with every part, so that none is a stuttering step

protocolVars == <<strict, open, called, last, turn>>

Idle == <<"none", "none", "none">>

ProtocolInit == open = {} /\ called = {} /\ last = Idle /\ turn = 0

IsClientCall(part) == part[1] = "call" /\ part[2] = "client"
IsBlockPart(part) == part[1] \in {"start", "delta", "end"}

(* Nothing follows a failure; between a held call and its Finish nothing   *)
(* else is delivered.                                                      *)
Undisturbed == last[1] # "failed" /\ (strict => ~IsClientCall(last))

(* A start opens a block, never the input of a call that is complete; a    *)
(* delta and an end need it open.                                          *)
BlockInOrder(part) ==
    LET block == <<part[2], part[3]>> IN
    /\ block \in open <=> part[1] # "start"
    /\ strict /\ part[1] = "start" /\ part[2] = "tool" => part[3] \notin called

(* A client tool call comes once, after its input.                         *)
CallInOrder(part) == part[3] \notin called /\ <<"tool", part[3]>> \notin open

(* Only a Finish that is not an error, or another call, follows a call     *)
(* that was held.                                                          *)
InOrder(part) ==
    /\ IsBlockPart(part) => BlockInOrder(part)
    /\ IsClientCall(part) => CallInOrder(part)
    /\ \/ Undisturbed
       \/ /\ last[1] # "failed"
          /\ IsClientCall(part) \/ (part[1] = "finish" /\ part[2] # "error")

Receive(part) ==
    /\ InOrder(part) /\ last' = part /\ turn' = 1 - turn
    /\ open' = CASE part[1] = "start" -> open \cup {<<part[2], part[3]>>}
                 [] part[1] = "end" -> open \ {<<part[2], part[3]>>}
                 [] OTHER -> open
    /\ called' = called \cup {i \in {part[3]} : IsClientCall(part)}

(* The provider takes its next event: what came last is settled.           *)
Settle == Undisturbed /\ last' = Idle /\ turn' = 0 /\ UNCHANGED <<open, called>>

ProtocolNext == (Receive(last') \/ Settle) /\ UNCHANGED strict

ProtocolSpec == ProtocolInit /\ [][ProtocolNext]_protocolVars
=============================================================================
