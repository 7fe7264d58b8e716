------------------------------- MODULE CStream -------------------------------
(***************************************************************************)
(* aimux_stream and deliver_frames of aimux-ffi/src/abi.rs: the calling    *)
(* thread polls the FrameStream and runs the callback on every frame.      *)
(* A stream exhausted without an End would make it invent one; the frame   *)
(* stream never does that (AbortReturns would find the call polling).      *)
(***************************************************************************)
EXTENDS FrameStream

VARIABLES
  call,         \* "polling" or "returned"
  delivered     \* the frames the callback was given

cVars == <<frameVars, call, delivered>>

CInit == FrameInit /\ call = "polling" /\ delivered = <<>>

(* A frame goes to the callback.  After End the call returns and drops    *)
(* the stream.                                                            *)
CallIgnoresCancelled(frame) ==
  IF frame.outcome \in {"Success", "Error"} THEN "returned" ELSE "polling"
CallAfter(frame) == IF frame.type = "End" THEN "returned" ELSE "polling"

DeliverFrame(up) ==
  /\ call = "polling"
  /\ FramePoll(up)
  /\ delivered' = Append(delivered, Seen(PolledFrame(up)))
  /\ call' = CallAfter(PolledFrame(up))
  /\ UNCHANGED signal

(* aimux_abort from the callback or from another thread. *)
Abort ==
  /\ signal = "quiet"
  /\ signal' = "aborted"
  /\ UNCHANGED <<events, seq, call, delivered>>

CNext == (\E up \in Answers : DeliverFrame(up)) \/ Abort

(* The abort wakes the polling thread; the upstream may stay silent. *)
CFairness ==
  WF_cVars(signal = "aborted" /\ \E up \in Answers : DeliverFrame(up))

-----------------------------------------------------------------------------

(* The callback sees the frame protocol: zero-based numbers, one End. *)
Callback == INSTANCE FrameProtocol WITH out <- delivered
CallbackFollowsProtocol == Callback!ProtocolSpec

(* An abort ends the call although the upstream stays silent. *)
AbortReturns == signal = "aborted" ~> call = "returned"
=============================================================================
