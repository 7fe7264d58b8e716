---------------------------- MODULE FrameProtocol ----------------------------
(***************************************************************************)
(* What an accepted stream promises its reader, whatever binding carries   *)
(* it: events numbered from zero without a gap, then exactly one End that  *)
(* carries the next number, then nothing.                                  *)
(***************************************************************************)
EXTENDS Integers, Sequences

VARIABLE out    \* the frames the reader has been given

ProtocolInit == out = <<>>

Over == \E i \in 1 .. Len(out) : out[i].type # "Event"

Give(type, outcome) ==
  /\ ~Over
  /\ out' = Append(out, [type |-> type, seq |-> Len(out), outcome |-> outcome])

ProtocolNext ==
  \/ Give("Event", "None")
  \/ \E outcome \in {"Success", "Error", "Cancelled"} : Give("End", outcome)

ProtocolSpec == ProtocolInit /\ [][ProtocolNext]_out
=============================================================================
