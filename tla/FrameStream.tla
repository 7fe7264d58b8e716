----------------------------- MODULE FrameStream -----------------------------
(***************************************************************************)
(* FrameStream of aimux-ops/src/frame.rs: the framing between a dispatched *)
(* stream and the binding that reads it.  It is passive: each poll reads   *)
(* at most one upstream item.  The bindings extend this module.            *)
(*                                                                         *)
(* The upstream is external: a poll is answered by an event of some wire   *)
(* size, by the end of the stream, or by an error, which may be an abort.  *)
(***************************************************************************)
EXTENDS Integers, Sequences

CONSTANTS
  Sizes,        \* wire sizes of events and of error envelopes
  ItemBytes,    \* limits::ITEM_BYTES, also SINGLE of the bindings
  SeqMax        \* u64::MAX

ASSUME FrameAssumption ==
  /\ Sizes \subseteq Nat /\ ItemBytes \in Nat \ {0} /\ SeqMax \in Nat

VARIABLES
  events,       \* "live" while the upstream is held, then "gone"
  signal,       \* the AbortSignal of the request: "quiet" or "aborted"
  seq           \* the number of the next frame

frameVars == <<events, signal, seq>>

FrameInit == events = "live" /\ signal \in {"quiet", "aborted"} /\ seq = 0

(* What the upstream may answer. *)
Answers == [kind : {"event", "success", "error", "aborted"}, size : Sizes]

EventFrame(n, size) ==
  [type |-> "Event", seq |-> n, outcome |-> "None", size |-> size]

EndFrame(n, outcome, size) ==
  [type |-> "End", seq |-> n, outcome |-> outcome, size |-> size]

Small == 1      \* the size of a frame that carries no payload

(* The outcome of an upstream that stopped. *)
OutcomeOf(kind) ==
  CASE kind = "success" -> "Success"
    [] kind = "error"   -> "Error"
    [] kind = "aborted" -> "Cancelled"

Passes(size) == size <= ItemBytes

(* The frame of a poll: abort first, then what the upstream answers.  An  *)
(* event that has no number left or is too large ends the stream.         *)
PolledPastEnd(up) ==
  IF signal = "aborted" THEN EndFrame(seq, "Cancelled", Small)
  ELSE IF up.kind # "event" THEN EndFrame(seq, OutcomeOf(up.kind), up.size)
  ELSE IF Passes(up.size) THEN EventFrame(seq, up.size)
  ELSE EndFrame(seq, "Error", Small)

PolledFrame(up) ==
  IF signal = "aborted" THEN EndFrame(seq, "Cancelled", Small)
  ELSE IF up.kind # "event" THEN EndFrame(seq, OutcomeOf(up.kind), up.size)
  ELSE IF seq < SeqMax /\ Passes(up.size) THEN EventFrame(seq, up.size)
  ELSE EndFrame(seq, "Error", Small)

(* FrameStream::poll_next, when it is ready.  An End drops the upstream.  *)
(* The number is a u64.                                                    *)
FramePoll(up) ==
  /\ events = "live"
  /\ events' = IF PolledFrame(up).type = "End" THEN "gone" ELSE "live"
  /\ seq' = IF PolledFrame(up).type = "Event" THEN (seq + 1) % (SeqMax + 1) ELSE seq

(* Drop for FrameStream: work that has not ended is aborted. *)
SignalAfterDrop == IF events = "live" THEN "aborted" ELSE signal

(* What the reader sees of a frame. *)
Seen(frame) ==
  [type |-> frame.type, seq |-> frame.seq, outcome |-> frame.outcome]

(* The bytes that the first entries of a channel hold permits for. *)
Sums(channel) ==
  LET sum[n \in 0 .. Len(channel)] ==
        IF n = 0 THEN 0 ELSE sum[n - 1] + channel[n][2]
  IN  sum

TotalBytes(channel) == Sums(channel)[Len(channel)]
=============================================================================
