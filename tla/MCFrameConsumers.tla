-------------------------- MODULE MCFrameConsumers ---------------------------
(***************************************************************************)
(* The three readers of a FrameStream: the C adapter's callback, the Node  *)
(* iterator and the Python iterator.  One stream has one reader, chosen    *)
(* when it is opened; the others stand in the state in which they have     *)
(* ended, where none of their fair actions is enabled.                     *)
(***************************************************************************)
EXTENDS CStream, NodeBridge

VARIABLES
  adapter,      \* who reads the stream: "c", "node" or "python"
  start, accepted, pump, outcome, kill, told, discarded,
  pyHeld, pyQueue, pyFree, pyReceiver, pyTerminal, pyReader, pyGot, pyCloser,
  pyYielded

Py == INSTANCE PythonBridge WITH
        held <- pyHeld, queue <- pyQueue, free <- pyFree,
        receiver <- pyReceiver, terminal <- pyTerminal, reader <- pyReader,
        got <- pyGot, closer <- pyCloser, yielded <- pyYielded

cOnly == <<call, delivered>>
nodeOnly == <<producerVars, channelVars, readerVars, terminal, closed, closer>>
pyOnly == <<start, accepted, pump, outcome, kill, told, discarded, pyHeld,
            pyQueue, pyFree, pyReceiver, pyTerminal, pyReader, pyGot, pyCloser,
            pyYielded>>
vars == <<adapter, frameVars, cOnly, nodeOnly, pyOnly>>

(* A reader that ended without having been given anything. *)
NoC == call = "returned" /\ delivered = <<>>

NoNode ==
  /\ producer = "gone" /\ held = <<0, 0>> /\ next_seq = 0
  /\ queue = <<>> /\ free = Bytes /\ receiver = "closed"
  /\ terminal = NoFrame /\ closed = "yes"
  /\ reader = "idle" /\ got = <<0, 0>> /\ asked = "open" /\ closer = "idle"
  /\ yielded = <<>>

NoPython ==
  /\ start = "dropped" /\ accepted = "none" /\ pump = "done"
  /\ outcome = "None" /\ kill = "no" /\ told = "None" /\ discarded = "no"
  /\ pyHeld = <<0, 0>> /\ pyQueue = <<>> /\ pyFree = Bytes
  /\ pyReceiver = "closed" /\ pyTerminal = "None"
  /\ pyReader = "idle" /\ pyGot = <<0, 0>> /\ pyCloser = "idle"
  /\ pyYielded = <<>>

Init ==
  \/ adapter = "c" /\ CInit /\ NoNode /\ NoPython
  \/ adapter = "node" /\ BridgeInit /\ NoC /\ NoPython
  \/ adapter = "python" /\ Py!PyInit /\ NoC /\ NoNode

Next ==
  \/ adapter = "c" /\ CNext /\ UNCHANGED <<adapter, nodeOnly, pyOnly>>
  \/ adapter = "node" /\ BridgeNext /\ UNCHANGED <<adapter, cOnly, pyOnly>>
  \/ adapter = "python" /\ Py!PyNext /\ UNCHANGED <<adapter, cOnly, nodeOnly>>

FairSpec ==
  Init /\ [][Next]_vars /\ CFairness /\ BridgeFairness /\ Py!PyFairness

-----------------------------------------------------------------------------
(* The properties of the C adapter and of the Node bridge are those of     *)
(* their modules; these are the Python bridge's.                           *)

(* bridge.rs: a drained channel always comes with a terminal, so Python is *)
(* never told that the worker lost it.                                     *)
NoLostTerminal == Py!NoLostTerminal

(* bridge.rs: events in order, a stop after the last of them only, budgets *)
(* balanced, and nothing drained before the worker ended.                  *)
ReadsAreSound == Py!ReadsAreSound

(* check_cancelled: a published terminal is the outcome of every later     *)
(* __next__ that reports one.                                              *)
SettledOutcomePreserved == Py!SettledOutcomePreserved

(* An abort ends the worker wherever it waits, and a pending __next__      *)
(* returns with it.                                                        *)
CallsSettle == Py!CallsSettle
=============================================================================
