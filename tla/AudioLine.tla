------------------------------ MODULE AudioLine ------------------------------
(***************************************************************************)
(* What an operation promises about its audio, without tickets, wakers or  *)
(* byte budgets: pushes stand in one line in the order they were admitted, *)
(* a push may leave the line, only the first one still in it may send, and *)
(* what was sent is delivered in that order.  The provider is told that    *)
(* the audio is over only when the line was closed and nothing is left, or *)
(* when the operation is over.                                             *)
(***************************************************************************)
EXTENDS Integers, Sequences

CONSTANT Pushes

VARIABLES
  line,       \* push calls in the order they were admitted
  standing,   \* those that neither sent nor left
  queue,      \* sent, not yet delivered
  delivered,
  input,      \* "Open", or "Closed" to newcomers
  terminal,   \* "None" until the operation is over
  audio       \* "live" until the provider saw the end

lineVars == <<line, standing, queue, delivered, input, terminal, audio>>

LineInit ==
  /\ line = <<>> /\ standing = {} /\ queue = <<>> /\ delivered = <<>>
  /\ input = "Open" /\ terminal = "None" /\ audio = "live"

InLine(p) == \E i \in 1 .. Len(line) : line[i] = p

(* Everyone admitted before p has sent or left. *)
First(p) ==
  \A i, j \in 1 .. Len(line) :
    i < j /\ line[j] = p => line[i] \notin standing

Join(p) ==
  /\ input = "Open" /\ terminal = "None" /\ ~InLine(p)
  /\ line' = Append(line, p)
  /\ standing' = standing \cup {p}
  /\ UNCHANGED <<queue, delivered, input, terminal, audio>>

(* A push that finds nobody standing may send at once. *)
JoinAndSend(p) ==
  /\ input = "Open" /\ terminal = "None" /\ ~InLine(p) /\ standing = {}
  /\ line' = Append(line, p)
  /\ queue' = Append(queue, p)
  /\ UNCHANGED <<standing, delivered, input, terminal, audio>>

Send(p) ==
  /\ p \in standing /\ First(p) /\ terminal = "None" /\ audio = "live"
  /\ standing' = standing \ {p}
  /\ queue' = Append(queue, p)
  /\ UNCHANGED <<line, delivered, input, terminal, audio>>

Leave(p) ==
  /\ p \in standing
  /\ standing' = standing \ {p}
  /\ UNCHANGED <<line, queue, delivered, input, terminal, audio>>

Deliver ==
  /\ queue # <<>> /\ audio = "live" /\ terminal = "None"
  /\ queue' = Tail(queue)
  /\ delivered' = Append(delivered, Head(queue))
  /\ UNCHANGED <<line, standing, input, terminal, audio>>

Close ==
  /\ input' = "Closed"
  /\ UNCHANGED <<line, standing, queue, delivered, terminal, audio>>

End ==
  /\ terminal # "None" \/ (input = "Closed" /\ standing = {} /\ queue = <<>>)
  /\ audio' = "ended"
  /\ UNCHANGED <<line, standing, queue, delivered, input, terminal>>

GiveUp ==
  /\ terminal = "None" /\ terminal' # "None"
  /\ queue' = <<>>
  /\ UNCHANGED <<line, standing, delivered, input, audio>>

LineNext ==
  \/ \E p \in Pushes : Join(p) \/ JoinAndSend(p) \/ Send(p) \/ Leave(p)
  \/ Deliver \/ Close \/ End \/ GiveUp

LineSpec == LineInit /\ [][LineNext]_lineVars
=============================================================================
