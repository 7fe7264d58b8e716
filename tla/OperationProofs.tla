--------------------------- MODULE OperationProofs ---------------------------
(***************************************************************************)
(* Theorems about Operation, for every set of push calls and all limits.   *)
(***************************************************************************)
EXTENDS Operation, SequenceTheorems, WellFoundedInduction, TLAPS

USE DEF Reader, Driver, Audio

-----------------------------------------------------------------------------
(* Which steps can change the admission state of the push calls. *)

PushStep(p) ==
  \/ \E n \in Lengths : Push(p, n) \/ TryPush(p, n)
  \/ PushTurn(p) \/ AbandonPush(p) \/ DropAdmission(p)

(* Outside the push calls and the two callers of input_done, nothing      *)
(* touches the admission sequences.                                       *)
LEMMA AdmissionWriters ==
  ASSUME Next
  PROVE  \/ \E p \in Pushes : PushStep(p)
         \/ CloseInput /\ UNCHANGED <<push, terminal, audio, input_queue>>
         \/ UNCHANGED <<inputVars, push>>
  <1>1. CASE CallerNext
    BY <1>1 DEF CallerNext, PushStep, InputDone, NextCall, NextTurn,
      NextTimeout, Cancel, ConsumerClose, ConsumerCloseClear, UserAbort,
      DriverFrame, queueVars, terminalVars, audioVars
  <1>2. CASE AudioPoll
    BY <1>2 DEF AudioPoll
  <1>3. CASE DriverNext
    BY <1>3 DEF DriverNext, DriverUnsupported, DriverAccepted,
      DriverConnected, DriverTurn, DriverRoom, DriverAppend, DriverPart,
      DriverEnds, DriverAbort, DriverDropped, DriverFrame, LifeFrame
  <1>4. CASE LifeNext
    BY <1>4 DEF LifeNext, StartReturns, Terminate, TerminateClose,
      TerminateTake, TerminateReturns, CleanupJoin, CleanupTimeout, Drop,
      DropClear, DropJoin, LifeFrame, queueVars, terminalVars, audioVars
  <1> QED BY <1>1, <1>2, <1>3, <1>4 DEF Next

(* Admitting a push keeps the types of the admission state. *)
LEMMA AdmitTypes ==
  ASSUME TypeInput, NEW p \in Pushes, NEW n \in Lengths, Admit(p, n),
         send_sequence' \in Nat
  PROVE  TypeInput'
  <1>1. n \in Nat BY LimitsAssumption
  <1>2. admitted' \in Seq(Pushes) BY DEF TypeInput, Admit
  <1>3. ticket' \in [Pushes -> Nat] BY DEF TypeInput, Admit
  <1>4. length' \in [Pushes -> Nat] BY <1>1 DEF TypeInput, Admit
  <1> QED BY <1>2, <1>3, <1>4 DEF TypeInput, Admit

(* The input queue is cleared by a terminal result, and otherwise changed *)
(* only by a push and by the provider's poll.                             *)
LEMMA InputQueueWriters ==
  ASSUME Next
  PROVE  \/ \E p \in Pushes : PushStep(p)
         \/ AudioPoll
         \/ input_queue' = <<>> /\ input_bytes' = 0
         \/ UNCHANGED queueVars
  <1> USE DEF Finish, CancelShared, Store
  <1>1. CASE CallerNext
    BY <1>1 DEF CallerNext, PushStep, InputDone, NextCall, NextTurn,
      NextTimeout, Cancel, ConsumerClose, ConsumerCloseClear, UserAbort,
      DriverFrame
  <1>2. CASE DriverNext
    BY <1>2 DEF DriverNext, DriverUnsupported, DriverAccepted,
      DriverConnected, DriverTurn, DriverRoom, DriverAppend, DriverPart,
      DriverEnds, DriverAbort, DriverDropped
  <1>3. CASE LifeNext
    BY <1>3 DEF LifeNext, StartReturns, Terminate, TerminateClose,
      TerminateTake, TerminateReturns, CleanupJoin, CleanupTimeout, Drop,
      DropClear, DropJoin
  <1> QED BY <1>1, <1>2, <1>3 DEF Next

(* The output queue is emptied by the consumer's end, popped by next and  *)
(* extended by the driver.                                                *)
LEMMA OutputQueueWriters ==
  ASSUME Next
  PROVE  \/ AbandonOutput
         \/ NextTurn
         \/ DriverAppend
         \/ UNCHANGED outputVars
  <1>1. CASE CallerNext
    BY <1>1 DEF CallerNext, Push, TryPush, PushTurn, AbandonPush,
      DropAdmission, InputDone, NextCall, NextTimeout, Cancel, ConsumerClose,
      ConsumerCloseClear, UserAbort
  <1>2. CASE AudioPoll
    BY <1>2 DEF AudioPoll
  <1>3. CASE DriverNext
    BY <1>3 DEF DriverNext, DriverUnsupported, DriverAccepted,
      DriverConnected, DriverTurn, DriverRoom, DriverPart,
      DriverEnds, DriverAbort, DriverDropped
  <1>4. CASE LifeNext
    BY <1>4 DEF LifeNext, StartReturns, Terminate, TerminateClose,
      TerminateTake, TerminateReturns, CleanupJoin, CleanupTimeout, Drop,
      DropClear, DropJoin
  <1> QED BY <1>1, <1>2, <1>3, <1>4 DEF Next

-----------------------------------------------------------------------------
(* Types *)

LEMMA InputTypes ==
  ASSUME TypeOK, Next
  PROVE  TypeInput'
  <1> USE DEF TypeOK
  <1>1. ASSUME NEW p \in Pushes, NEW n \in Lengths, Push(p, n)
        PROVE  TypeInput'
    <2>1. CASE UNCHANGED inputVars
      BY <2>1 DEF TypeInput, inputVars
    <2>2. CASE Admit(p, n) /\ UNCHANGED send_sequence
      <3>1. send_sequence' \in Nat BY <2>2 DEF TypeInput
      <3> QED BY <3>1, <2>2, AdmitTypes
    <2> QED BY <1>1, <2>1, <2>2 DEF Push, Refuse
  <1>2. ASSUME NEW p \in Pushes, NEW n \in Lengths, TryPush(p, n)
        PROVE  TypeInput'
    <2>1. CASE UNCHANGED inputVars
      BY <2>1 DEF TypeInput, inputVars
    <2>2. CASE Admit(p, n) /\ send_sequence' = admission_sequence + 1
      <3>1. send_sequence' \in Nat BY <2>2 DEF TypeInput
      <3> QED BY <3>1, <2>2, AdmitTypes
    <2> QED BY <1>2, <2>1, <2>2 DEF TryPush, Refuse
  <1>3. ASSUME NEW p \in Pushes, DropAdmission(p)
        PROVE  TypeInput'
    <2> DEFINE done == completed_admissions \cup {ticket[p]}
    <2>1. PICK n \in send_sequence .. admission_sequence :
            /\ send_sequence' = n
            /\ completed_admissions' = {m \in done : m >= n}
      BY <1>3 DEF DropAdmission, AdvanceSend
    <2>2. send_sequence' \in Nat BY <2>1 DEF TypeInput
    <2>3. completed_admissions' \subseteq Nat BY <2>1 DEF TypeInput
    <2> QED BY <1>3, <2>2, <2>3 DEF DropAdmission, TypeInput
  <1>4. CASE CloseInput
    BY <1>4 DEF CloseInput, CloseBoundary, TypeInput
  <1>5. CASE UNCHANGED inputVars
    BY <1>5 DEF TypeInput, inputVars
  <1> QED BY <1>1, <1>2, <1>3, <1>4, <1>5, AdmissionWriters
          DEF PushStep, PushTurn, AbandonPush

LEMMA InputQueueTypes ==
  ASSUME TypeOK, Next
  PROVE  input_queue' \in Seq(Pushes) /\ input_bytes' \in Int
  <1> DEFINE Typed == input_queue \in Seq(Pushes) /\ input_bytes \in Int
  <1>0. Typed /\ length \in [Pushes -> Nat]
    BY DEF TypeOK, TypeQueues, TypeInput
  <1>1. ASSUME NEW p \in Pushes, NEW n \in Nat,
               input_queue' = Append(input_queue, p),
               input_bytes' = input_bytes + n
        PROVE  Typed'
    BY <1>0, <1>1
  <1>2. ASSUME NEW p \in Pushes, PushStep(p)
        PROVE  Typed'
    <2>1. CASE UNCHANGED queueVars
      BY <1>0, <2>1 DEF queueVars
    <2>2. ASSUME NEW n \in Lengths, Push(p, n) PROVE Typed'
      BY <2>1, <2>2 DEF Push, Refuse
    <2>3. ASSUME NEW n \in Lengths, TryPush(p, n) PROVE Typed'
      BY <1>1, <2>1, <2>3, LimitsAssumption DEF TryPush, Refuse
    <2>4. CASE PushTurn(p)
      BY <1>0, <1>1, <2>1, <2>4 DEF PushTurn
    <2> QED BY <1>2, <2>1, <2>2, <2>3, <2>4
            DEF PushStep, AbandonPush, DropAdmission
  <1>3. CASE AudioPoll
    <2>1. CASE UNCHANGED queueVars
      BY <1>0, <2>1 DEF queueVars
    <2>2. CASE /\ input_queue # <<>>
               /\ input_queue' = Tail(input_queue)
               /\ input_bytes' = input_bytes - length[Head(input_queue)]
      BY <1>0, <2>2
    <2> QED BY <1>3, <2>1, <2>2 DEF AudioPoll
  <1>4. CASE input_queue' = <<>> /\ input_bytes' = 0
    BY <1>4
  <1>5. CASE UNCHANGED queueVars
    BY <1>0, <1>5 DEF queueVars
  <1> QED BY <1>2, <1>3, <1>4, <1>5, InputQueueWriters

LEMMA OutputQueueTypes ==
  ASSUME TypeOK, Next
  PROVE  output_queue' \in Seq(Nat \X Nat) /\ output_bytes' \in Int
  <1> DEFINE Typed == output_queue \in Seq(Nat \X Nat) /\ output_bytes \in Int
  <1>0. Typed /\ yielded \in Nat /\ part_bytes \in Nat
    BY DEF TypeOK, TypeQueues, TypeDriver
  <1>1. CASE AbandonOutput
    BY <1>1 DEF AbandonOutput
  <1>2. CASE NextTurn
    <2>1. CASE UNCHANGED outputVars
      BY <1>0, <2>1 DEF outputVars
    <2>2. CASE /\ output_queue # <<>>
               /\ output_queue' = Tail(output_queue)
               /\ output_bytes' = output_bytes - Head(output_queue)[2]
      <3>1. Head(output_queue) \in Nat \X Nat /\ Typed BY <1>0, <2>2
      <3>2. Head(output_queue)[2] \in Nat BY <3>1
      <3> QED BY <2>2, <3>1, <3>2
    <2> QED BY <1>2, <2>1, <2>2 DEF NextTurn
  <1>3. CASE DriverAppend
    <2>1. <<yielded, part_bytes>> \in Nat \X Nat BY <1>0
    <2>2. CASE UNCHANGED outputVars
      BY <1>0, <2>2 DEF outputVars
    <2>3. CASE /\ output_queue' = Append(output_queue, <<yielded, part_bytes>>)
               /\ output_bytes' = output_bytes + part_bytes
      BY <1>0, <2>1, <2>3
    <2> QED BY <1>3, <2>2, <2>3 DEF DriverAppend
  <1>4. CASE UNCHANGED outputVars
    BY <1>0, <1>4 DEF outputVars
  <1> QED BY <1>1, <1>2, <1>3, <1>4, OutputQueueWriters

LEMMA CallTypes ==
  ASSUME TypeOK, Next
  PROVE  TypeCalls'
  <1> USE DEF Wake, Finish, CancelShared, Store
  <1>0. TypeCalls BY DEF TypeOK
  <1>1. push' \in [Pushes -> {"idle", "waiting", "sent", "dropping", "ok",
                             "gone", "refused"}]
    <2>1. ASSUME NEW p \in Pushes, PushStep(p)
          PROVE  \E v \in {"waiting", "sent", "dropping", "ok", "gone",
                           "refused"} :
                   push' = [push EXCEPT ![p] = v] \/ push' = push
      BY <1>0, <2>1 DEF PushStep, Push, TryPush, Refuse, PushTurn, AbandonPush,
        DropAdmission, TypeCalls
    <2> QED BY <1>0, <2>1, AdmissionWriters DEF TypeCalls
  <1>2. parked' \subseteq Pushes \cup {Reader, Driver, Audio}
    <2>1. CASE CallerNext
      BY <1>0, <2>1 DEF CallerNext, TypeCalls, Push, TryPush, Refuse, PushTurn,
        AbandonPush, DropAdmission, InputDone, CloseInput, NextCall, NextTurn,
        NextTimeout, Cancel, ConsumerClose, ConsumerCloseClear, AbandonOutput,
        UserAbort
    <2>2. CASE AudioPoll
      BY <1>0, <2>2 DEF AudioPoll, PopNotifies, TypeCalls
    <2>3. CASE DriverNext
      BY <1>0, <2>3 DEF DriverNext, TypeCalls, DriverUnsupported,
        DriverAccepted, DriverConnected, DriverTurn, DriverRoom, DriverAppend,
        DriverPart, DriverEnds, DriverAbort, DriverDropped
    <2>4. CASE LifeNext
      BY <1>0, <2>4 DEF LifeNext, TypeCalls, StartReturns, Terminate,
        TerminateClose, CloseInput, TerminateTake, TerminateReturns,
        CleanupJoin, CleanupTimeout, Drop, DropClear, AbandonOutput, DropJoin
    <2> QED BY <2>1, <2>2, <2>3, <2>4 DEF Next
  <1> QED BY <1>1, <1>2 DEF TypeCalls

LEMMA ResultTypes ==
  ASSUME TypeOK, Next
  PROVE  TypeResults'
  <1> USE DEF Finish, CancelShared, Store, Outcomes
  <1>0. TypeResults BY DEF TypeOK
  <1>1. CASE NextTurn
    <2>1. CASE output_queue # <<>>
      <3>1. Head(output_queue) \in Nat \X Nat
        BY <2>1 DEF TypeOK, TypeQueues
      <3>2. Head(output_queue)[1] \in Nat BY <3>1
      <3>3. Append(received, Head(output_queue)[1]) \in Seq(Nat)
        BY <1>0, <3>2 DEF TypeResults
      <3> QED BY <1>0, <1>1, <2>1, <3>3 DEF NextTurn, TypeResults
    <2>2. CASE output_queue = <<>>
      BY <1>0, <1>1, <2>2 DEF NextTurn, TakeError, TypeResults, readVars
    <2> QED BY <2>1, <2>2
  <1>2. CASE CallerNext /\ ~NextTurn
    BY <1>0, <1>2 DEF CallerNext, TypeResults, readVars, terminalVars, Push,
      TryPush, PushTurn, AbandonPush, DropAdmission, InputDone, NextCall,
      NextTimeout, Cancel, ConsumerClose, ConsumerCloseClear, AbandonOutput,
      UserAbort, DriverFrame
  <1>3. CASE AudioPoll
    BY <1>0, <1>3 DEF AudioPoll, TypeResults, readVars, terminalVars
  <1>4. CASE DriverNext
    BY <1>0, <1>4 DEF DriverNext, TypeResults, readVars, terminalVars,
      DriverUnsupported, DriverAccepted, DriverConnected, DriverTurn,
      DriverRoom, DriverAppend, DriverPart, DriverEnds, DriverAbort,
      DriverDropped, DriverFrame, LifeFrame
  <1>5. CASE LifeNext
    BY <1>0, <1>5 DEF LifeNext, TypeResults, readVars, terminalVars,
      StartReturns, Terminate, TerminateClose, TerminateTake,
      TerminateReturns, CleanupJoin, CleanupTimeout, Drop, DropClear,
      AbandonOutput, DropJoin, LifeFrame
  <1> QED BY <1>1, <1>2, <1>3, <1>4, <1>5 DEF Next

LEMMA DriverTypes ==
  ASSUME TypeOK, Next
  PROVE  TypeDriver'
  <1>0. TypeDriver BY DEF TypeOK
  <1>1. CASE CallerNext
    BY <1>0, <1>1 DEF CallerNext, TypeDriver, driverVars, audioVars, Push,
      TryPush, PushTurn, AbandonPush, DropAdmission, InputDone, NextCall,
      NextTurn, NextTimeout, Cancel, ConsumerClose, ConsumerCloseClear,
      UserAbort, DriverFrame
  <1>2. CASE AudioPoll
    <2>1. delivered' \in Seq(Pushes)
      <3>1. CASE input_queue # <<>>
        <4>1. Head(input_queue) \in Pushes
          BY <3>1 DEF TypeOK, TypeQueues
        <4>2. Append(delivered, Head(input_queue)) \in Seq(Pushes)
          BY <1>0, <4>1 DEF TypeDriver
        <4>3. \/ delivered' = delivered
              \/ delivered' = Append(delivered, Head(input_queue))
          BY <1>2 DEF AudioPoll
        <4> QED BY <1>0, <4>2, <4>3 DEF TypeDriver
      <3>2. CASE input_queue = <<>>
        BY <1>0, <1>2, <3>2 DEF AudioPoll, TypeDriver
      <3> QED BY <3>1, <3>2
    <2> QED BY <1>0, <1>2, <2>1 DEF AudioPoll, TypeDriver, driverVars
  <1>3. CASE DriverNext
    BY <1>0, <1>3, LimitsAssumption DEF DriverNext, TypeDriver, audioVars,
      DriverUnsupported, DriverAccepted, DriverConnected, DriverTurn,
      DriverRoom, DriverAppend, DriverPart, DriverEnds, DriverAbort,
      DriverDropped, DriverFrame, LifeFrame
  <1>4. CASE LifeNext
    BY <1>0, <1>4 DEF LifeNext, TypeDriver, audioVars, StartReturns,
      Terminate, TerminateClose, TerminateTake, TerminateReturns,
      CleanupJoin, CleanupTimeout, Drop, DropClear, DropJoin, LifeFrame
  <1> QED BY <1>1, <1>2, <1>3, <1>4 DEF Next

LEMMA LifeTypes ==
  ASSUME TypeOK, Next
  PROVE  TypeLife'
  <1>0. TypeLife BY DEF TypeOK
  <1>1. CASE CallerNext
    BY <1>0, <1>1 DEF CallerNext, TypeLife, lifeVars, Push, TryPush, PushTurn,
      AbandonPush, DropAdmission, InputDone, NextCall, NextTurn, NextTimeout,
      Cancel, ConsumerClose, ConsumerCloseClear, UserAbort, DriverFrame
  <1>2. CASE AudioPoll
    BY <1>0, <1>2 DEF AudioPoll, TypeLife, lifeVars
  <1>3. CASE DriverNext
    BY <1>0, <1>3 DEF DriverNext, TypeLife, lifeVars, DriverUnsupported,
      DriverAccepted, DriverConnected, DriverTurn, DriverRoom, DriverAppend,
      DriverPart, DriverEnds, DriverAbort, DriverDropped, DriverFrame
  <1>4. CASE LifeNext
    BY <1>0, <1>4 DEF LifeNext, TypeLife, StartReturns, Terminate,
      TerminateClose, TerminateTake, TerminateReturns, CleanupJoin,
      CleanupTimeout, Drop, DropClear, DropJoin, TakeTask
  <1> QED BY <1>1, <1>2, <1>3, <1>4 DEF Next

(* Every reachable state of an operation is well typed: the driver, the   *)
(* calls and the queues only hold what the State of operation.rs can.     *)
THEOREM TypeCorrect == Spec => []TypeOK
  <1>1. Init => TypeOK
    BY LimitsAssumption DEF Init, TypeOK, TypeInput, TypeQueues, TypeCalls,
      TypeResults, TypeDriver, TypeLife, Outcomes
  <1>2. TypeOK /\ [Next]_vars => TypeOK'
    <2> SUFFICES ASSUME TypeOK, [Next]_vars PROVE TypeOK'
      OBVIOUS
    <2>1. CASE Next
      <3>1. TypeQueues'
        BY <2>1, InputQueueTypes, OutputQueueTypes DEF TypeQueues
      <3> QED BY <2>1, <3>1, InputTypes, CallTypes, ResultTypes, DriverTypes,
                 LifeTypes DEF TypeOK
    <2>2. CASE UNCHANGED vars
      BY <2>2 DEF TypeOK, TypeInput, TypeQueues, TypeCalls, TypeResults,
        TypeDriver, TypeLife, vars, inputVars, queueVars, outputVars,
        terminalVars, readVars, driverVars, audioVars, lifeVars
    <2> QED BY <2>1, <2>2
  <1> QED BY <1>1, <1>2, PTL DEF Spec

-----------------------------------------------------------------------------
(* Admission *)

USE DEF Admitted, HoldsAdmission

(* Two admitted calls never share a ticket. *)
LEMMA TicketsAreUnique ==
  ASSUME TicketsNumberCalls, NEW p \in Pushes, NEW q \in Pushes,
         Admitted(p), Admitted(q), ticket[p] = ticket[q]
  PROVE  p = q
  BY DEF TicketsNumberCalls

LEMMA AdmitKeepsTickets ==
  ASSUME TypeOK, TicketsNumberCalls, NEW p \in Pushes, NEW n \in Lengths,
         push[p] = "idle", Admit(p, n),
         NEW v \in {"waiting", "ok"}, push' = [push EXCEPT ![p] = v]
  PROVE  TicketsNumberCalls'
  <1> USE DEF TypeOK, TypeInput, TypeCalls, TicketsNumberCalls, Admit
  <1>1. /\ Len(admitted') = admission_sequence'
        /\ \A i \in 1 .. admission_sequence : admitted'[i] = admitted[i]
        /\ admitted'[admission_sequence + 1] = p
    <2>1. admitted \in Seq(Pushes) /\ Len(admitted) = admission_sequence
      OBVIOUS
    <2>2. admitted' = Append(admitted, p) OBVIOUS
    <2>3. admission_sequence' = admission_sequence + 1 OBVIOUS
    <2> HIDE DEF TypeOK, TicketsNumberCalls, Admit
    <2> QED BY <2>1, <2>2, <2>3
  <1>2. \A i \in 1 .. admission_sequence : admitted[i] \in Pushes \ {p}
    <2>1. \A i \in 1 .. Len(admitted) : admitted[i] \in Pushes OBVIOUS
    <2>2. \A i \in 1 .. admission_sequence : push[admitted[i]] # "idle"
      OBVIOUS
    <2> QED BY <2>1, <2>2
  <1>3. \A q \in Pushes \ {p} : push'[q] = push[q] /\ ticket'[q] = ticket[q]
    OBVIOUS
  <1>4. push'[p] = v /\ ticket'[p] = admission_sequence
    OBVIOUS
  <1>5. \A i \in 1 .. admission_sequence' :
          Admitted(admitted[i])' /\ ticket'[admitted'[i]] = i - 1
    <2> SUFFICES ASSUME NEW i \in 1 .. (admission_sequence + 1)
                 PROVE  Admitted(admitted[i])' /\ ticket'[admitted'[i]] = i - 1
      OBVIOUS
    <2>1. CASE i = admission_sequence + 1
      BY <1>1, <1>4, <2>1
    <2>2. CASE i \in 1 .. admission_sequence
      BY <1>1, <1>2, <1>3, <2>2
    <2> QED BY <2>1, <2>2
  <1>6. ASSUME NEW q \in Pushes, Admitted(q)'
        PROVE  ticket'[q] < admission_sequence' /\ admitted'[ticket'[q] + 1] = q
    <2>1. CASE q = p
      BY <1>1, <1>4, <2>1
    <2>2. CASE q # p
      BY <1>1, <1>3, <1>6, <2>2
    <2> QED BY <2>1, <2>2
  <1> QED BY <1>1, <1>5, <1>6

(* A call that moves on without a new ticket keeps the numbering. *)
LEMMA MoveKeepsTickets ==
  ASSUME TypeOK, TicketsNumberCalls, NEW p \in Pushes,
         UNCHANGED <<admission_sequence, ticket, admitted>>,
         \/ UNCHANGED push
         \/ /\ Admitted(p)
            /\ \E v \in {"sent", "dropping", "ok", "gone"} :
                 push' = [push EXCEPT ![p] = v]
         \/ /\ push[p] = "idle"
            /\ push' = [push EXCEPT ![p] = "refused"]
  PROVE  TicketsNumberCalls'
  <1>1. \A q \in Pushes : Admitted(q)' <=> Admitted(q)
    BY DEF TypeOK, TypeCalls
  <1>2. \A i \in 1 .. admission_sequence : admitted[i] \in Pushes
    BY DEF TypeOK, TypeInput, TicketsNumberCalls
  <1> QED BY <1>1, <1>2 DEF TicketsNumberCalls

(* A push that waits for its turn: the new sequence is held by it. *)
LEMMA PushAccounts ==
  ASSUME TypeOK, AdmissionCoherent, NEW p \in Pushes, NEW n \in Lengths,
         push[p] = "idle", Admit(p, n), admission_sequence < SeqMax,
         UNCHANGED send_sequence, push' = [push EXCEPT ![p] = "waiting"]
  PROVE  SequencesAccountedFor'
  <1> USE DEF AdmissionCoherent, SequencesAccountedFor, TypeOK, TypeInput,
              TypeCalls, Admit
  <1>1. \A q \in Pushes \ {p} : push'[q] = push[q] /\ ticket'[q] = ticket[q]
    OBVIOUS
  <1>2. push'[p] = "waiting" /\ ticket'[p] = admission_sequence
    OBVIOUS
  <1>3. ASSUME NEW m \in send_sequence' .. (admission_sequence' - 1)
        PROVE  m \notin completed_admissions'
                 <=> \E q \in Pushes : HoldsAdmission(q)' /\ ticket'[q] = m
    <2>1. CASE m = admission_sequence
      BY <1>2, <2>1
    <2>2. CASE m # admission_sequence
      <3>1. m \in send_sequence .. (admission_sequence - 1)
        BY <2>2
      <3>2. \A q \in Pushes :
              HoldsAdmission(q)' /\ ticket'[q] = m
                <=> HoldsAdmission(q) /\ ticket[q] = m
        BY <1>1, <1>2, <2>2
      <3> QED BY <3>1, <3>2
    <2> QED BY <2>1, <2>2
  <1>4. \A q \in Pushes : HoldsAdmission(q)' => send_sequence' <= ticket'[q]
    BY <1>1, <1>2
  <1>5. LimitsAssumption /\ admission_sequence' <= SeqMax
    BY LimitsAssumption
  <1> QED BY <1>3, <1>4, <1>5

(* A try_push that got in found every earlier admission completed. *)
LEMMA TryPushAccounts ==
  ASSUME TypeOK, AdmissionCoherent, NEW p \in Pushes, NEW n \in Lengths,
         push[p] = "idle", Admit(p, n), admission_sequence < SeqMax,
         admission_sequence = send_sequence,
         send_sequence' = admission_sequence + 1,
         push' = [push EXCEPT ![p] = "ok"]
  PROVE  SequencesAccountedFor'
  <1> USE DEF AdmissionCoherent, SequencesAccountedFor, TypeOK, TypeInput,
              TypeCalls, Admit
  <1>1. \A q \in Pushes : ~HoldsAdmission(q)
    BY DEF TicketsNumberCalls
  <1>2. \A q \in Pushes : ~HoldsAdmission(q)'
    BY <1>1
  <1>3. admission_sequence' <= SeqMax
    BY LimitsAssumption
  <1> QED BY <1>2, <1>3

(* Admission::drop completes the ticket and steps over completed ones. *)
LEMMA DropAccounts ==
  ASSUME TypeOK, AdmissionCoherent, NEW p \in Pushes, DropAdmission(p)
  PROVE  SequencesAccountedFor'
  <1> DEFINE done == completed_admissions \cup {ticket[p]}
  <1>0. PICK n \in send_sequence .. admission_sequence :
          /\ \A m \in send_sequence .. (n - 1) : m \in done
          /\ n \notin done
          /\ send_sequence' = n
          /\ completed_admissions' = {m \in done : m >= n}
    BY DEF DropAdmission, AdvanceSend
  <1> USE DEF TypeOK, TypeInput, TypeCalls
  <1>1. UNCHANGED <<admission_sequence, ticket>> /\ HoldsAdmission(p)
    BY DEF DropAdmission
  <1>2. \A q \in Pushes : HoldsAdmission(q)' <=> HoldsAdmission(q) /\ q # p
    BY DEF DropAdmission
  <1>3. /\ send_sequence <= ticket[p] /\ ticket[p] < admission_sequence
        /\ admission_sequence <= SeqMax
    BY <1>1 DEF AdmissionCoherent, SequencesAccountedFor, TicketsNumberCalls
  <1>4. completed_admissions' \subseteq
          (send_sequence' + 1) .. (admission_sequence' - 1)
    <2> SUFFICES ASSUME NEW m \in done, m >= n
                 PROVE  m \in (n + 1) .. (admission_sequence - 1)
      BY <1>0, <1>1
    <2>1. m # n BY <1>0
    <2>2. m \in Nat /\ m < admission_sequence
      BY <1>3 DEF AdmissionCoherent, SequencesAccountedFor
    <2> QED BY <2>1, <2>2
  <1>5. ASSUME NEW m \in send_sequence' .. (admission_sequence' - 1)
        PROVE  m \notin completed_admissions'
                 <=> \E q \in Pushes : HoldsAdmission(q)' /\ ticket'[q] = m
    <2>1. m \in send_sequence .. (admission_sequence - 1)
      BY <1>0, <1>1
    <2>2. m \notin completed_admissions' <=> m \notin done
      <3>1. m >= n BY <1>0
      <3> QED BY <1>0, <3>1
    <2>3. CASE m = ticket[p]
      <3>1. \A q \in Pushes : HoldsAdmission(q) /\ ticket[q] = m => q = p
        BY <1>1, <2>3, TicketsAreUnique DEF AdmissionCoherent
      <3> QED BY <1>1, <1>2, <2>2, <2>3, <3>1
    <2>4. CASE m # ticket[p]
      <3>1. m \notin completed_admissions
              <=> \E q \in Pushes : HoldsAdmission(q) /\ ticket[q] = m
        BY <2>1 DEF AdmissionCoherent, SequencesAccountedFor
      <3> QED BY <1>1, <1>2, <2>2, <2>4, <3>1
    <2> QED BY <2>3, <2>4
  <1>6. ASSUME NEW q \in Pushes, HoldsAdmission(q)'
        PROVE  send_sequence' <= ticket'[q]
    <2>1. HoldsAdmission(q) /\ q # p /\ ticket'[q] = ticket[q]
      BY <1>1, <1>2, <1>6
    <2>2. ticket[q] \notin done
      <3>1. ticket[q] # ticket[p]
        BY <1>1, <2>1, TicketsAreUnique DEF AdmissionCoherent
      <3>2. ticket[q] \in send_sequence .. (admission_sequence - 1)
        BY <2>1 DEF AdmissionCoherent, SequencesAccountedFor,
                    TicketsNumberCalls
      <3>3. ticket[q] \notin completed_admissions
        BY <2>1, <3>2 DEF AdmissionCoherent, SequencesAccountedFor
      <3> QED BY <3>1, <3>3
    <2>3. send_sequence <= ticket[q]
      BY <2>1 DEF AdmissionCoherent, SequencesAccountedFor
    <2> QED BY <1>0, <2>1, <2>2, <2>3
  <1> QED BY <1>0, <1>1, <1>3, <1>4, <1>5, <1>6 DEF SequencesAccountedFor

(* Steps that hold on to every admission, and hand out none. *)
LEMMA HoldersUnchanged ==
  ASSUME AdmissionCoherent,
         UNCHANGED <<admission_sequence, send_sequence, completed_admissions,
                     ticket>>,
         \A q \in Pushes : HoldsAdmission(q)' <=> HoldsAdmission(q)
  PROVE  SequencesAccountedFor'
  BY DEF AdmissionCoherent, SequencesAccountedFor

LEMMA AdmissionStep ==
  ASSUME TypeOK, AdmissionCoherent, Next
  PROVE  AdmissionCoherent'
  <1> USE DEF inputVars
  <1>0. /\ TicketsNumberCalls
        /\ push \in [Pushes -> {"idle", "waiting", "sent", "dropping", "ok",
                                "gone", "refused"}]
    BY DEF AdmissionCoherent, TypeOK, TypeCalls
  <1>1. ASSUME NEW p \in Pushes, NEW n \in Lengths, Push(p, n)
        PROVE  AdmissionCoherent'
    <2>1. push[p] = "idle" BY <1>1 DEF Push
    <2>2. CASE Refuse(p)
      BY <1>0, <2>1, <2>2, MoveKeepsTickets, HoldersUnchanged
         DEF Refuse, AdmissionCoherent
    <2>3. CASE /\ Admit(p, n) /\ admission_sequence < SeqMax
               /\ UNCHANGED send_sequence
               /\ push' = [push EXCEPT ![p] = "waiting"]
      BY <1>0, <2>1, <2>3, AdmitKeepsTickets, PushAccounts
         DEF AdmissionCoherent
    <2> QED BY <1>1, <2>2, <2>3 DEF Push
  <1>2. ASSUME NEW p \in Pushes, NEW n \in Lengths, TryPush(p, n)
        PROVE  AdmissionCoherent'
    <2>1. push[p] = "idle" BY <1>2 DEF TryPush
    <2>2. CASE Refuse(p)
      BY <1>0, <2>1, <2>2, MoveKeepsTickets, HoldersUnchanged
         DEF Refuse, AdmissionCoherent
    <2>3. CASE /\ Admit(p, n) /\ TryPushFits(n)
               /\ send_sequence' = admission_sequence + 1
               /\ push' = [push EXCEPT ![p] = "ok"]
      BY <1>0, <2>1, <2>3, AdmitKeepsTickets, TryPushAccounts
         DEF AdmissionCoherent, TryPushFits
    <2> QED BY <1>2, <2>2, <2>3 DEF TryPush
  <1>3. ASSUME NEW p \in Pushes, PushTurn(p) \/ AbandonPush(p)
        PROVE  AdmissionCoherent'
    <2>1. /\ UNCHANGED inputVars /\ push[p] = "waiting"
          /\ \/ UNCHANGED push
             \/ push' = [push EXCEPT ![p] = "sent"]
             \/ push' = [push EXCEPT ![p] = "dropping"]
      BY <1>3 DEF PushTurn, AbandonPush
    <2>2. \A q \in Pushes : HoldsAdmission(q)' <=> HoldsAdmission(q)
      BY <1>0, <2>1
    <2> QED BY <1>0, <2>1, <2>2, MoveKeepsTickets, HoldersUnchanged
            DEF AdmissionCoherent
  <1>4. ASSUME NEW p \in Pushes, DropAdmission(p)
        PROVE  AdmissionCoherent'
    <2>1. /\ UNCHANGED <<admission_sequence, ticket, admitted>>
          /\ Admitted(p)
          /\ \/ push' = [push EXCEPT ![p] = "ok"]
             \/ push' = [push EXCEPT ![p] = "gone"]
      BY <1>0, <1>4 DEF DropAdmission
    <2> QED BY <1>0, <1>4, <2>1, MoveKeepsTickets, DropAccounts
            DEF AdmissionCoherent
  <1>5. CASE /\ UNCHANGED <<admission_sequence, send_sequence,
                            completed_admissions, ticket, admitted, push>>
    BY <1>0, <1>5, HoldersUnchanged DEF AdmissionCoherent, TicketsNumberCalls
  <1> QED BY <1>1, <1>2, <1>3, <1>4, <1>5, AdmissionWriters
          DEF PushStep, CloseInput

(* The ticket lock of push never skips, repeats or loses a sequence, for  *)
(* any number of pushes that return, fail or are abandoned in any order:  *)
(* a waiting push is never stuck behind a sequence nobody holds.          *)
THEOREM AdmissionIsCoherent == Spec => []AdmissionCoherent
  <1>1. Init => AdmissionCoherent
    BY LimitsAssumption DEF Init, AdmissionCoherent, TicketsNumberCalls,
      SequencesAccountedFor
  <1>2. TypeOK /\ AdmissionCoherent /\ [Next]_vars => AdmissionCoherent'
    <2> SUFFICES ASSUME TypeOK, AdmissionCoherent, [Next]_vars
                 PROVE  AdmissionCoherent'
      OBVIOUS
    <2>1. CASE Next
      BY <2>1, AdmissionStep
    <2>2. CASE UNCHANGED vars
      BY <2>2 DEF vars, inputVars, AdmissionCoherent, TicketsNumberCalls,
        SequencesAccountedFor
    <2> QED BY <2>1, <2>2
  <1> QED BY <1>1, <1>2, TypeCorrect, PTL DEF Spec

-----------------------------------------------------------------------------
(* The terminal result *)

LEMMA TerminalStep ==
  ASSUME Next, terminal # "None"
  PROVE  /\ terminal' = terminal
         /\ terminal_error = "None" => terminal_error' = "None"
  <1> USE DEF Finish, CancelShared, terminalVars
  <1>1. CASE CallerNext
    BY <1>1 DEF CallerNext, Push, TryPush, PushTurn, AbandonPush,
      DropAdmission, InputDone, NextCall, NextTurn, TakeError, NextTimeout,
      Cancel, ConsumerClose, ConsumerCloseClear, UserAbort
  <1>2. CASE AudioPoll
    BY <1>2 DEF AudioPoll
  <1>3. CASE DriverNext
    BY <1>3 DEF DriverNext, DriverUnsupported, DriverAccepted,
      DriverConnected, DriverTurn, DriverRoom, DriverAppend,
      AppendSeesTerminal, DriverPart, DriverEnds, DriverAbort, DriverDropped
  <1>4. CASE LifeNext
    BY <1>4 DEF LifeNext, StartReturns, Terminate, TerminateClose,
      TerminateTake, TerminateReturns, CleanupJoin, CleanupTimeout, Drop,
      DropClear, DropJoin
  <1> QED BY <1>1, <1>2, <1>3, <1>4 DEF Next

(* The first terminal result is the result: no cancel, finish, close or   *)
(* drop that comes later rewrites it or revives its error.                *)
THEOREM TerminalNeverRewritten == Spec => TerminalIsFinal
  <1>1. [Next]_vars =>
          [terminal # "None" =>
             /\ terminal' = terminal
             /\ (terminal_error = "None" => terminal_error' = "None")]_vars
    BY TerminalStep
  <1> QED BY <1>1, PTL DEF Spec, TerminalIsFinal

LEMMA ConsumerStep ==
  ASSUME TypeOK, ClosedConsumerStaysEmpty, Next
  PROVE  ClosedConsumerStaysEmpty'
  <1> USE DEF ClosedConsumerStaysEmpty, TypeOK, TypeResults, TypeLife
  <1>1. terminal # "None" => terminal' # "None"
    BY TerminalStep
  <1>2. CASE CallerNext
    BY <1>1, <1>2 DEF CallerNext, Push, TryPush, PushTurn, AbandonPush,
      DropAdmission, InputDone, NextCall, NextTurn, NextTimeout, Cancel,
      ConsumerClose, ConsumerCloseClear, AbandonOutput, UserAbort,
      DriverFrame, CancelShared, Store, outputVars, lifeVars
  <1>3. CASE AudioPoll
    BY <1>1, <1>3 DEF AudioPoll, outputVars, lifeVars
  <1>4. CASE DriverNext
    BY <1>1, <1>4 DEF DriverNext, DriverUnsupported, DriverAccepted,
      DriverConnected, DriverTurn, DriverRoom, DriverAppend,
      AppendSeesTerminal, DriverPart, DriverEnds, DriverAbort, DriverDropped,
      DriverFrame, outputVars, lifeVars
  <1>5. CASE LifeNext
    BY <1>1, <1>5 DEF LifeNext, StartReturns, Terminate, TerminateClose,
      TerminateTake, TerminateReturns, CleanupJoin, CleanupTimeout, Drop,
      DropClear, DropJoin, AbandonOutput, CancelShared, Store, outputVars,
      Held
  <1> QED BY <1>2, <1>3, <1>4, <1>5 DEF Next

(* A part never reaches a consumer that has closed: the cancel that       *)
(* precedes the clearing keeps the driver from appending after it.        *)
THEOREM ClosedConsumersStayEmpty == Spec => []ClosedConsumerStaysEmpty
  <1>1. Init => ClosedConsumerStaysEmpty
    BY DEF Init, ClosedConsumerStaysEmpty
  <1>2. TypeOK /\ ClosedConsumerStaysEmpty /\ [Next]_vars
          => ClosedConsumerStaysEmpty'
    BY ConsumerStep DEF vars, outputVars, terminalVars, lifeVars,
      ClosedConsumerStaysEmpty
  <1> QED BY <1>1, <1>2, TypeCorrect, PTL DEF Spec

-----------------------------------------------------------------------------
(* Budgets *)

LEMMA InputBudgetStep ==
  ASSUME TypeOK, Next, Len(input_queue) <= InputItems,
         input_bytes <= InputBytes
  PROVE  Len(input_queue') <= InputItems /\ input_bytes' <= InputBytes
  <1> DEFINE Fits == Len(input_queue) <= InputItems /\ input_bytes <= InputBytes
  <1>0. /\ input_queue \in Seq(Pushes) /\ input_bytes \in Int
        /\ length \in [Pushes -> Nat]
    BY DEF TypeOK, TypeQueues, TypeInput
  <1>1. ASSUME NEW p \in Pushes, NEW n \in Nat, InputRoom(n),
               input_queue' = Append(input_queue, p),
               input_bytes' = input_bytes + n
        PROVE  Fits'
    BY <1>0, <1>1, LimitsAssumption DEF InputRoom
  <1>2. CASE UNCHANGED queueVars
    BY <1>2 DEF queueVars
  <1>3. ASSUME NEW p \in Pushes, PushStep(p)
        PROVE  Fits'
    <2>1. ASSUME NEW n \in Lengths, TryPush(p, n) PROVE Fits'
      BY <1>1, <1>2, <2>1, LimitsAssumption DEF TryPush, TryPushFits, Refuse
    <2>2. CASE PushTurn(p)
      BY <1>0, <1>1, <1>2, <2>2 DEF PushTurn, CanSend
    <2> QED BY <1>2, <1>3, <2>1, <2>2
            DEF PushStep, Push, Refuse, AbandonPush, DropAdmission
  <1>4. CASE AudioPoll
    <2>1. CASE /\ input_queue # <<>>
               /\ input_queue' = Tail(input_queue)
               /\ input_bytes' = input_bytes - length[Head(input_queue)]
      <3>1. Len(Tail(input_queue)) <= Len(input_queue)
        BY <1>0, <2>1
      <3>2. length[Head(input_queue)] \in Nat
        BY <1>0, <2>1
      <3> QED BY <1>0, <2>1, <3>1, <3>2, LimitsAssumption
    <2> QED BY <1>2, <1>4, <2>1 DEF AudioPoll
  <1>5. CASE input_queue' = <<>> /\ input_bytes' = 0
    BY <1>5, LimitsAssumption
  <1> QED BY <1>2, <1>3, <1>4, <1>5, InputQueueWriters

(* What the driver may hold, and where it must have found room. *)
OutputBudget ==
  /\ part_bytes <= PartLimit
  /\ driver = "append" => OutputRoom(part_bytes)
  /\ Len(output_queue) <= OutputItems /\ output_bytes <= OutputBytes

(* Only the driver fills its hands, and only a wait that found room lets  *)
(* it append.                                                             *)
LEMMA PartWriters ==
  ASSUME TypeOK, OutputBudget, Next
  PROVE  /\ part_bytes' <= PartLimit
         /\ driver' = "append" =>
              \/ driver = "append" /\ UNCHANGED part_bytes
              \/ OutputRoom(part_bytes) /\ UNCHANGED <<part_bytes, outputVars>>
  <1> USE DEF OutputBudget
  <1>1. CASE CallerNext
    BY <1>1 DEF CallerNext, Push, TryPush, PushTurn, AbandonPush,
      DropAdmission, InputDone, NextCall, NextTurn, NextTimeout, Cancel,
      ConsumerClose, ConsumerCloseClear, UserAbort, driverVars
  <1>2. CASE AudioPoll
    BY <1>2 DEF AudioPoll, driverVars
  <1>3. CASE DriverNext
    BY <1>3 DEF DriverNext, DriverUnsupported, DriverAccepted,
      DriverConnected, DriverTurn, DriverRoom, DriverAppend, DriverPart,
      DriverEnds, DriverAbort, DriverDropped, LifeFrame
  <1>4. CASE LifeNext
    BY <1>4 DEF LifeNext, StartReturns, Terminate, TerminateClose,
      TerminateTake, TerminateReturns, CleanupJoin, CleanupTimeout, Drop,
      DropClear, DropJoin, LifeFrame
  <1> QED BY <1>1, <1>2, <1>3, <1>4 DEF Next

LEMMA OutputBudgetStep ==
  ASSUME TypeOK, OutputBudget, Next
  PROVE  OutputBudget'
  <1> USE LimitsAssumption
  <1>0. /\ output_queue \in Seq(Nat \X Nat) /\ output_bytes \in Int
        /\ part_bytes \in Nat /\ PartLimit \in Nat /\ PartLimit <= OutputBytes
    BY DEF TypeOK, TypeQueues, TypeDriver, PartLimit
  <1>1. CASE AbandonOutput
    <2>1. output_queue' = <<>> /\ output_bytes' = 0
      BY <1>1 DEF AbandonOutput
    <2>2. Len(output_queue') = 0 BY <2>1
    <2>3. driver' = "append" => part_bytes' = part_bytes
      BY PartWriters
    <2> QED BY <1>0, <2>1, <2>2, <2>3, PartWriters
            DEF OutputBudget, OutputRoom
  <1>2. CASE NextTurn
    <2>1. CASE output_queue # <<>>
      <3>1. Head(output_queue) \in Nat \X Nat BY <1>0, <2>1
      <3>2. Head(output_queue)[2] \in Nat BY <3>1
      <3>3. /\ Len(output_queue') = Len(output_queue) - 1
            /\ output_bytes' = output_bytes - Head(output_queue)[2]
            /\ Len(output_queue) \in Nat
        BY <1>0, <1>2, <2>1 DEF NextTurn
      <3>4. UNCHANGED <<driver, part_bytes>>
        BY <1>2 DEF NextTurn, driverVars
      <3> DEFINE read == Head(output_queue)[2]
      <3>5. output_bytes' <= output_bytes /\ Len(output_queue') <= Len(output_queue)
            /\ output_bytes' \in Int /\ Len(output_queue') \in Int
        <4> HIDE DEF read
        <4>1. read \in Nat /\ output_bytes' = output_bytes - read
          BY <3>2, <3>3 DEF read
        <4> QED BY <1>0, <3>3, <4>1
      <3>6. /\ part_bytes' <= PartLimit
            /\ Len(output_queue') <= OutputItems /\ output_bytes' <= OutputBytes
        BY <1>0, <3>3, <3>4, <3>5 DEF OutputBudget
      <3>7. ASSUME driver' = "append"
            PROVE  /\ Len(output_queue') < OutputItems /\ output_bytes' < OutputBytes
                   /\ output_bytes' + part_bytes' <= OutputBytes
        <4>1. /\ Len(output_queue) < OutputItems /\ output_bytes < OutputBytes
              /\ output_bytes + part_bytes <= OutputBytes /\ part_bytes' = part_bytes
          BY <3>4, <3>7 DEF OutputBudget, OutputRoom
        <4>2. /\ OutputItems \in Int /\ OutputBytes \in Int /\ part_bytes \in Int
              /\ output_bytes \in Int /\ Len(output_queue) \in Int
          BY <1>0, <3>3
        <4>3. Len(output_queue') < OutputItems
          BY <3>5, <4>1, <4>2
        <4>4. output_bytes' < OutputBytes
          BY <3>5, <4>1, <4>2
        <4>5. output_bytes' + part_bytes <= OutputBytes
          <5>1. \A a, b, c, d \in Int : a <= b /\ b + c <= d => a + c <= d
            OBVIOUS
          <5> QED BY <3>5, <4>1, <4>2, <5>1
        <4> QED BY <4>1, <4>3, <4>4, <4>5
      <3> QED BY <3>6, <3>7 DEF OutputBudget, OutputRoom
    <2>2. CASE output_queue = <<>>
      BY <1>2, <2>2 DEF NextTurn, driverVars, outputVars, OutputBudget,
        OutputRoom
    <2> QED BY <2>1, <2>2
  <1>3. CASE DriverAppend
    <2>1. CASE UNCHANGED outputVars
      BY <1>3, <2>1 DEF DriverAppend, OutputBudget, outputVars
    <2>2. CASE /\ output_queue' = Append(output_queue, <<yielded, part_bytes>>)
               /\ output_bytes' = output_bytes + part_bytes
      <3>1. OutputRoom(part_bytes) /\ driver' # "append" /\ part_bytes' = part_bytes
        BY <1>3 DEF DriverAppend, OutputBudget
      <3>2. Len(output_queue') = Len(output_queue) + 1
        BY <1>0, <2>2
      <3> QED BY <1>0, <2>2, <3>1, <3>2 DEF OutputBudget, OutputRoom
    <2> QED BY <1>3, <2>1, <2>2 DEF DriverAppend
  <1>4. CASE UNCHANGED outputVars
    BY <1>4, PartWriters DEF OutputBudget, OutputRoom, outputVars
  <1> QED BY <1>1, <1>2, <1>3, <1>4, OutputQueueWriters

(* Neither queue ever exceeds its item or byte budget, for all limits,    *)
(* chunk lengths and part sizes.                                          *)
THEOREM QueuesStayWithinLimits == Spec => []WithinLimits
  <1>1. Init => WithinLimits
    BY LimitsAssumption DEF Init, WithinLimits, PartLimit
  <1>2. TypeOK /\ WithinLimits /\ [Next]_vars => WithinLimits'
    <2> SUFFICES ASSUME TypeOK, WithinLimits, [Next]_vars PROVE WithinLimits'
      OBVIOUS
    <2>1. CASE Next
      BY <2>1, InputBudgetStep, OutputBudgetStep DEF WithinLimits, OutputBudget
    <2>2. CASE UNCHANGED vars
      BY <2>2 DEF vars, queueVars, outputVars, driverVars, WithinLimits,
        OutputRoom
    <2> QED BY <2>1, <2>2
  <1> QED BY <1>1, <1>2, TypeCorrect, PTL DEF Spec

-----------------------------------------------------------------------------
(* The end of the audio, and the order of everything before it *)

(* Every step, as the audio line sees it. *)
LEMMA LineSteps ==
  ASSUME Next
  PROVE  \/ \E p \in Pushes : PushStep(p)
         \/ AudioPoll
         \/ CloseInput /\ UNCHANGED <<push, terminal, input_queue, audioVars>>
         \/ /\ UNCHANGED <<inputVars, push, audioVars>>
            /\ \/ UNCHANGED <<terminal, input_queue>>
               \/ /\ terminal = "None" /\ terminal' # "None"
                  /\ input_queue' = <<>>
  <1> USE DEF Finish, CancelShared, Store, terminalVars, queueVars
  <1>1. CASE CallerNext
    BY <1>1 DEF CallerNext, PushStep, InputDone, NextCall, NextTurn,
      NextTimeout, Cancel, ConsumerClose, ConsumerCloseClear, UserAbort,
      DriverFrame
  <1>2. CASE DriverNext
    BY <1>2 DEF DriverNext, DriverUnsupported, DriverAccepted,
      DriverConnected, DriverTurn, DriverRoom, DriverAppend, DriverPart,
      DriverEnds, DriverAbort, DriverDropped, DriverFrame, LifeFrame
  <1>3. CASE LifeNext
    BY <1>3 DEF LifeNext, StartReturns, Terminate, TerminateClose,
      TerminateTake, TerminateReturns, CleanupJoin, CleanupTimeout, Drop,
      DropClear, DropJoin, LifeFrame
  <1> QED BY <1>1, <1>2, <1>3 DEF Next

LEMMA EndStep ==
  ASSUME TypeOK, AdmissionCoherent, EndOfAudioIsComplete, Next
  PROVE  EndOfAudioIsComplete'
  <1> USE DEF EndOfAudioIsComplete, inputVars, audioVars
  <1>0. push \in [Pushes -> {"idle", "waiting", "sent", "dropping", "ok",
                             "gone", "refused"}]
    BY DEF TypeOK, TypeCalls
  <1>1. ASSUME NEW p \in Pushes, PushStep(p)
        PROVE  EndOfAudioIsComplete'
    <2>1. UNCHANGED <<audio, terminal, input>>
      BY <1>1 DEF PushStep, Push, TryPush, Refuse, Admit, PushTurn,
        AbandonPush, DropAdmission, terminalVars
    <2>2. input = "Closed" => UNCHANGED <<done_sequence, admission_sequence>>
      BY <1>1 DEF PushStep, Push, TryPush, TryPushFits, InputOpen, Refuse,
        PushTurn, AbandonPush, DropAdmission
    <2>3. input = "Closed" /\ ~HoldsAdmission(p) =>
            /\ UNCHANGED input_queue
            /\ \E v \in {"refused"} : push' = [push EXCEPT ![p] = v]
      BY <1>1 DEF PushStep, Push, TryPush, TryPushFits, InputOpen, Refuse,
        PushTurn, AbandonPush, DropAdmission, queueVars
    <2> QED BY <1>0, <2>1, <2>2, <2>3
  <1>2. CASE AudioPoll
    <2>1. UNCHANGED <<input, done_sequence, admission_sequence, push, terminal>>
      BY <1>2 DEF AudioPoll, terminalVars
    <2>2. audio = "live" BY <1>2 DEF AudioPoll
    <2>3. CASE audio' = "ended" /\ terminal = "None"
      <3>1. /\ input = "Closed" /\ send_sequence = done_sequence
            /\ input_queue = <<>> /\ UNCHANGED input_queue
        BY <1>2, <2>2, <2>3 DEF AudioPoll, queueVars
      <3>2. \A p \in Pushes : ~HoldsAdmission(p)
        BY <3>1 DEF AdmissionCoherent, TicketsNumberCalls,
          SequencesAccountedFor, TypeOK, TypeInput
      <3> QED BY <2>1, <3>1, <3>2
    <2> QED BY <2>1, <2>3
  <1>3. CASE CloseInput /\ UNCHANGED <<push, terminal, input_queue, audioVars>>
    <2>1. input \in {"Open", "Closed"}
      BY DEF TypeOK, TypeInput
    <2>2. /\ UNCHANGED <<push, terminal, input_queue, audio, admission_sequence>>
          /\ input' = "Closed" /\ done_sequence' = admission_sequence
      BY <1>3, <2>1 DEF CloseInput, CloseBoundary
    <2> QED BY <2>2 DEF HoldsAdmission
  <1>4. CASE /\ UNCHANGED <<inputVars, push, audioVars>>
             /\ \/ UNCHANGED <<terminal, input_queue>>
                \/ terminal = "None" /\ terminal' # "None"
    BY <1>4
  <1> QED BY <1>1, <1>2, <1>3, <1>4, LineSteps

(* The provider hears the end of the audio only when every push admitted  *)
(* before input_done has been delivered or has given up.                  *)
THEOREM EndOfAudioIsNeverEarly == Spec => []EndOfAudioIsComplete
  <1>1. Init => EndOfAudioIsComplete
    BY DEF Init, EndOfAudioIsComplete
  <1>2. TypeOK /\ AdmissionCoherent /\ EndOfAudioIsComplete /\ [Next]_vars
          => EndOfAudioIsComplete'
    <2> SUFFICES ASSUME TypeOK, AdmissionCoherent, EndOfAudioIsComplete,
                        [Next]_vars
                 PROVE  EndOfAudioIsComplete'
      OBVIOUS
    <2>1. CASE UNCHANGED vars
      BY <2>1 DEF vars, inputVars, queueVars, terminalVars, audioVars,
        EndOfAudioIsComplete
    <2> QED BY <2>1, EndStep
  <1> QED BY <1>1, <1>2, TypeCorrect, AdmissionIsCoherent, PTL DEF Spec

-----------------------------------------------------------------------------
(* Refinement *)

(* A push is first in line when its ticket is up. *)
LEMMA TicketUpIsFirst ==
  ASSUME TypeOK, AdmissionCoherent, NEW p \in Pushes, push[p] = "waiting",
         send_sequence = ticket[p]
  PROVE  AudioOrder!First(p)
  <1> SUFFICES ASSUME NEW i \in 1 .. Len(admitted), NEW j \in 1 .. Len(admitted),
                      i < j, admitted[j] = p
               PROVE  admitted[i] \notin {q \in Pushes : push[q] = "waiting"}
    BY DEF AudioOrder!First
  <1>1. ticket[admitted[i]] = i - 1 /\ ticket[p] = j - 1
    BY DEF AdmissionCoherent, TicketsNumberCalls
  <1>2. \A q \in Pushes : push[q] = "waiting" => send_sequence <= ticket[q]
    BY DEF AdmissionCoherent, SequencesAccountedFor
  <1>3. i \in Int /\ j \in Int
    BY DEF TypeOK, TypeInput
  <1> QED BY <1>1, <1>2, <1>3

LEMMA IdleIsNotInLine ==
  ASSUME AdmissionCoherent, NEW p \in Pushes, push[p] = "idle"
  PROVE  ~AudioOrder!InLine(p)
  BY DEF AudioOrder!InLine, AdmissionCoherent, TicketsNumberCalls

LEMMA PushLineStep ==
  ASSUME TypeOK, AdmissionCoherent, EndOfAudioIsComplete,
         NEW p \in Pushes, PushStep(p)
  PROVE  [AudioOrder!LineNext]_(AudioOrder!lineVars)
  <1> DEFINE standing == {q \in Pushes : push[q] = "waiting"}
  <1> USE DEF AudioOrder!LineNext
  <1>0. push \in [Pushes -> {"idle", "waiting", "sent", "dropping", "ok",
                             "gone", "refused"}]
    BY DEF TypeOK, TypeCalls
  <1>s. CASE UNCHANGED <<admitted, input_queue, delivered, input, terminal,
                         audio>> /\ standing' = standing
    BY <1>s DEF AudioOrder!lineVars
  <1>1. ASSUME NEW n \in Lengths, Push(p, n)
        PROVE  [AudioOrder!LineNext]_(AudioOrder!lineVars)
    <2>1. CASE Refuse(p)
      <3>1. standing' = standing
        BY <1>0, <1>1, <2>1 DEF Push, Refuse
      <3> QED BY <1>1, <1>s, <2>1, <3>1 DEF Push, Refuse, inputVars, queueVars,
                 terminalVars, audioVars
    <2>2. CASE ~Refuse(p)
      <3>1. /\ InputOpen /\ Admit(p, n) /\ push[p] = "idle"
            /\ push' = [push EXCEPT ![p] = "waiting"]
            /\ UNCHANGED <<queueVars, terminalVars, audioVars>>
        BY <1>1, <2>2 DEF Push
      <3>2. standing' = standing \cup {p}
        BY <1>0, <3>1
      <3>3. AudioOrder!Join(p)
        BY <3>1, <3>2, IdleIsNotInLine DEF AudioOrder!Join, Admit, InputOpen,
          queueVars, terminalVars, audioVars
      <3> QED BY <3>3
    <2> QED BY <2>1, <2>2
  <1>2. ASSUME NEW n \in Lengths, TryPush(p, n)
        PROVE  [AudioOrder!LineNext]_(AudioOrder!lineVars)
    <2>1. CASE Refuse(p)
      <3>1. standing' = standing
        BY <1>0, <1>2, <2>1 DEF TryPush, Refuse
      <3> QED BY <1>2, <1>s, <2>1, <3>1 DEF TryPush, Refuse, inputVars,
                 queueVars, terminalVars, audioVars
    <2>2. CASE ~Refuse(p)
      <3>1. /\ TryPushFits(n) /\ Admit(p, n) /\ push[p] = "idle"
            /\ push' = [push EXCEPT ![p] = "ok"]
            /\ input_queue' = Append(input_queue, p)
            /\ UNCHANGED <<terminalVars, audioVars>>
        BY <1>2, <2>2 DEF TryPush
      <3>2. standing = {}
        BY <3>1 DEF AdmissionCoherent, TicketsNumberCalls, TryPushFits,
          SequencesAccountedFor, TypeOK, TypeInput
      <3>3. standing' = standing
        BY <1>0, <3>1
      <3>4. AudioOrder!JoinAndSend(p)
        BY <3>1, <3>2, <3>3, IdleIsNotInLine DEF AudioOrder!JoinAndSend,
          Admit, TryPushFits, InputOpen, terminalVars, audioVars
      <3> QED BY <3>4
    <2> QED BY <2>1, <2>2
  <1>3. ASSUME push[p] = "waiting", push' = [push EXCEPT ![p] = "dropping"],
               UNCHANGED <<inputVars, queueVars, terminalVars, audioVars>>
        PROVE  [AudioOrder!LineNext]_(AudioOrder!lineVars)
    <2>1. standing' = standing \ {p} /\ p \in standing
      BY <1>0, <1>3
    <2>2. AudioOrder!Leave(p)
      BY <1>3, <2>1 DEF AudioOrder!Leave, inputVars, queueVars, terminalVars,
        audioVars
    <2> QED BY <2>2
  <1>4. CASE PushTurn(p)
    <2>1. CASE PushSeesTerminal
      BY <1>3, <1>4, <2>1 DEF PushTurn
    <2>2. CASE ~PushSeesTerminal /\ CanSend(p)
      <3>1. standing' = standing \ {p} /\ p \in standing
        BY <1>0, <1>4, <2>2 DEF PushTurn
      <3>2. AudioOrder!First(p)
        BY <1>4, <2>2, TicketUpIsFirst DEF PushTurn, CanSend
      <3>3. terminal = "None" /\ audio = "live"
        BY <1>4, <2>2 DEF PushTurn, PushSeesTerminal, EndOfAudioIsComplete,
          TypeOK, TypeDriver
      <3>4. /\ UNCHANGED <<admitted, delivered, input, terminal, audio>>
            /\ input_queue' = Append(input_queue, p)
        BY <1>4, <2>2 DEF PushTurn, inputVars, terminalVars, audioVars
      <3>5. AudioOrder!Send(p)
        BY <3>1, <3>2, <3>3, <3>4 DEF AudioOrder!Send
      <3> QED BY <3>5
    <2>3. CASE ~PushSeesTerminal /\ ~CanSend(p)
      BY <1>4, <1>s, <2>3 DEF PushTurn, inputVars, queueVars, terminalVars,
        audioVars
    <2> QED BY <2>1, <2>2, <2>3
  <1>5. CASE AbandonPush(p)
    BY <1>3, <1>5 DEF AbandonPush
  <1>6. CASE DropAdmission(p)
    <2>1. standing' = standing
      BY <1>0, <1>6 DEF DropAdmission
    <2> QED BY <1>6, <1>s, <2>1 DEF DropAdmission, queueVars, terminalVars,
               audioVars
  <1> QED BY <1>1, <1>2, <1>4, <1>5, <1>6 DEF PushStep

LEMMA LineStep ==
  ASSUME TypeOK, AdmissionCoherent, EndOfAudioIsComplete, Next
  PROVE  [AudioOrder!LineNext]_(AudioOrder!lineVars)
  <1> USE DEF AudioOrder!LineNext
  <1>1. CASE \E p \in Pushes : PushStep(p)
    BY <1>1, PushLineStep
  <1>2. CASE AudioPoll
    <2>1. UNCHANGED <<admitted, push, input, terminal>> /\ audio = "live"
      BY <1>2 DEF AudioPoll, inputVars, terminalVars
    <2>2. CASE audio' = "ended"
      <3>1. UNCHANGED <<input_queue, delivered>>
        BY <1>2, <2>1, <2>2 DEF AudioPoll, queueVars
      <3>2. \/ terminal # "None"
            \/ /\ input = "Closed" /\ input_queue = <<>>
               /\ \A p \in Pushes : push[p] # "waiting"
        <4>1. ASSUME terminal = "None"
              PROVE  /\ input = "Closed" /\ send_sequence = done_sequence
                     /\ input_queue = <<>>
          BY <1>2, <2>1, <2>2, <4>1 DEF AudioPoll
        <4>2. ASSUME terminal = "None"
              PROVE  \A p \in Pushes : push[p] # "waiting"
          BY <4>1, <4>2 DEF EndOfAudioIsComplete, AdmissionCoherent,
            TicketsNumberCalls, SequencesAccountedFor, TypeOK, TypeInput
        <4> QED BY <4>1, <4>2
      <3>3. AudioOrder!End
        BY <2>1, <2>2, <3>1, <3>2 DEF AudioOrder!End
      <3> QED BY <3>3
    <2>3. CASE UNCHANGED audio
      <3>1. \/ UNCHANGED <<input_queue, delivered>>
            \/ /\ terminal = "None" /\ input_queue # <<>>
               /\ input_queue' = Tail(input_queue)
               /\ delivered' = Append(delivered, Head(input_queue))
        BY <1>2, <2>1, <2>3 DEF AudioPoll, queueVars
      <3>2. CASE UNCHANGED <<input_queue, delivered>>
        BY <2>1, <2>3, <3>2 DEF AudioOrder!lineVars
      <3>3. CASE ~UNCHANGED <<input_queue, delivered>>
        <4>1. AudioOrder!Deliver
          BY <2>1, <2>3, <3>1, <3>3 DEF AudioOrder!Deliver
        <4> QED BY <4>1
      <3> QED BY <3>2, <3>3
    <2> QED BY <1>2, <2>2, <2>3 DEF AudioPoll
  <1>3. CASE CloseInput /\ UNCHANGED <<push, terminal, input_queue, audioVars>>
    <2>1. AudioOrder!Close
      BY <1>3 DEF CloseInput, audioVars, AudioOrder!Close
    <2> QED BY <2>1
  <1>4. CASE UNCHANGED <<inputVars, push, audioVars, terminal, input_queue>>
    BY <1>4 DEF inputVars, audioVars, AudioOrder!lineVars
  <1>5. CASE /\ UNCHANGED <<inputVars, push, audioVars>>
             /\ terminal = "None" /\ terminal' # "None" /\ input_queue' = <<>>
    <2>1. AudioOrder!GiveUp
      BY <1>5 DEF inputVars, audioVars, AudioOrder!GiveUp
    <2> QED BY <2>1
  <1> QED BY <1>1, <1>2, <1>3, <1>4, <1>5, LineSteps

(* The operation implements the audio line: tickets, wakers, byte budgets *)
(* and abandoned pushes never reorder, repeat or lose an accepted chunk,  *)
(* and the end of the audio comes last.                                   *)
THEOREM OperationImplementsAudioLine == Spec => AudioInAdmissionOrder
  <1>1. Init => AudioOrder!LineInit
    BY DEF Init, AudioOrder!LineInit
  <1>2. TypeOK /\ AdmissionCoherent /\ EndOfAudioIsComplete /\ [Next]_vars
          => [AudioOrder!LineNext]_(AudioOrder!lineVars)
    <2> SUFFICES ASSUME TypeOK, AdmissionCoherent, EndOfAudioIsComplete,
                        [Next]_vars
                 PROVE  [AudioOrder!LineNext]_(AudioOrder!lineVars)
      OBVIOUS
    <2>1. CASE UNCHANGED vars
      BY <2>1 DEF vars, inputVars, queueVars, terminalVars, audioVars,
        AudioOrder!lineVars
    <2> QED BY <2>1, LineStep
  <1> QED BY <1>1, <1>2, TypeCorrect, AdmissionIsCoherent,
             EndOfAudioIsNeverEarly, PTL
          DEF Spec, AudioInAdmissionOrder, AudioOrder!LineSpec

-----------------------------------------------------------------------------
(* Byte counters *)

LEMMA LeastExists ==
  ASSUME NEW S \in SUBSET Nat, S # {}
  PROVE  \E x \in S : \A y \in S : x =< y
  <1> DEFINE R == OpToRel(<, Nat)
  <1>1. IsWellFoundedOn(R, Nat)
    BY NatLessThanWellFounded
  <1>2. \E x \in S : \A y \in S : ~ (<<y, x>> \in R)
    <2> HIDE DEF R
    <2> QED BY <1>1, WFMin
  <1>3. \A x, y \in Nat : ~(<<y, x>> \in R) => x =< y
    BY DEF OpToRel
  <1> HIDE DEF R
  <1> QED BY <1>2, <1>3

LEMMA NothingAddsUpToZero ==
  ASSUME NEW sizes, Len(sizes) = 0
  PROVE  AddsUpTo(sizes, 0)
  <1> DEFINE sum == [i \in 0 .. 0 |-> 0]
  <1>1. /\ sum \in [0 .. Len(sizes) -> 0 .. 0]
        /\ sum[0] = 0 /\ sum[Len(sizes)] = 0
        /\ \A i \in 1 .. Len(sizes) : sum[i] = sum[i - 1] + sizes[i]
    OBVIOUS
  <1> HIDE DEF sum
  <1> QED BY <1>1 DEF AddsUpTo

LEMMA AppendAdds ==
  ASSUME NEW sizes \in Seq(Nat), NEW total \in Int, NEW n \in Nat,
         AddsUpTo(sizes, total)
  PROVE  total \in Nat /\ AddsUpTo(Append(sizes, n), total + n)
  <1> DEFINE longer == Append(sizes, n)
  <1>1. PICK sum \in [0 .. Len(sizes) -> 0 .. total] :
          /\ sum[0] = 0 /\ sum[Len(sizes)] = total
          /\ \A i \in 1 .. Len(sizes) : sum[i] = sum[i - 1] + sizes[i]
    BY DEF AddsUpTo
  <1>2. total \in Nat
    <2>1. sum[0] \in 0 .. total
      BY <1>1
    <2> QED BY <2>1
  <1>3. /\ Len(longer) = Len(sizes) + 1 /\ longer[Len(longer)] = n
        /\ \A i \in 1 .. Len(sizes) : longer[i] = sizes[i]
        /\ Len(sizes) \in Nat
    OBVIOUS
  <1> HIDE DEF longer
  <1> DEFINE more == [i \in 0 .. Len(longer) |->
                        IF i = Len(longer) THEN total + n ELSE sum[i]]
  <1>4. more \in [0 .. Len(longer) -> 0 .. (total + n)]
    <2> SUFFICES ASSUME NEW i \in 0 .. Len(longer)
                 PROVE  more[i] \in 0 .. (total + n)
      OBVIOUS
    <2>1. CASE i = Len(longer)
      BY <1>2, <2>1
    <2>2. CASE i # Len(longer)
      <3>1. i \in 0 .. Len(sizes)
        BY <1>3, <2>2
      <3>2. sum[i] \in 0 .. total
        BY <3>1
      <3> QED BY <1>2, <2>2, <3>2
    <2> QED BY <2>1, <2>2
  <1>5. more[0] = 0 /\ more[Len(longer)] = total + n
    BY <1>1, <1>3
  <1>6. ASSUME NEW i \in 1 .. Len(longer)
        PROVE  more[i] = more[i - 1] + longer[i]
    <2>1. more[i - 1] = sum[i - 1]
      BY <1>3
    <2>2. CASE i = Len(longer)
      BY <1>1, <1>3, <2>1, <2>2
    <2>3. CASE i # Len(longer)
      BY <1>1, <1>3, <2>1, <2>3
    <2> QED BY <2>2, <2>3
  <1> HIDE DEF more
  <1> QED BY <1>2, <1>4, <1>5, <1>6 DEF AddsUpTo, longer

LEMMA TailSubtracts ==
  ASSUME NEW sizes \in Seq(Nat), sizes # <<>>, NEW total \in Int,
         AddsUpTo(sizes, total)
  PROVE  total - Head(sizes) \in Nat /\ AddsUpTo(Tail(sizes), total - Head(sizes))
  <1> DEFINE shorter == Tail(sizes)
             first == Head(sizes)
  <1>1. PICK sum \in [0 .. Len(sizes) -> 0 .. total] :
          /\ sum[0] = 0 /\ sum[Len(sizes)] = total
          /\ \A i \in 1 .. Len(sizes) : sum[i] = sum[i - 1] + sizes[i]
    BY DEF AddsUpTo
  <1>2. /\ Len(sizes) \in Nat \ {0} /\ Len(shorter) = Len(sizes) - 1
        /\ first = sizes[1] /\ first \in Nat
        /\ \A i \in 1 .. Len(shorter) : shorter[i] = sizes[i + 1]
        /\ \A i \in 1 .. Len(sizes) : sizes[i] \in Nat
    OBVIOUS
  <1> HIDE DEF shorter, first
  <1>s. \A i \in 0 .. Len(sizes) : sum[i] \in 0 .. total
    OBVIOUS
  <1>3. sum[1] = first
    BY <1>1, <1>2
  (* The running sum does not fall below its first entry. *)
  <1>4. \A i \in 1 .. Len(sizes) : sum[i] >= first
    <2> DEFINE Low == {i \in 1 .. Len(sizes) : sum[i] < first}
    <2>1. CASE Low # {}
      <3>1. PICK i \in Low : \A j \in Low : i <= j
        <4>1. Low \in SUBSET Nat
          BY <1>2
        <4> HIDE DEF Low
        <4> QED BY <2>1, <4>1, LeastExists
      <3>2. i # 1 /\ i \in 1 .. Len(sizes) /\ i - 1 \in 1 .. Len(sizes)
        BY <1>2, <1>3, <3>1
      <3>3. sum[i] \in Nat /\ sum[i - 1] \in Nat /\ sum[i] >= sum[i - 1]
        <4>0. i \in 0 .. Len(sizes) /\ i - 1 \in 0 .. Len(sizes)
          BY <1>2, <3>2
        <4>1. sum[i] \in 0 .. total /\ sum[i - 1] \in 0 .. total
          BY <1>s, <4>0
        <4>2. sum[i] = sum[i - 1] + sizes[i] /\ sizes[i] \in Nat
          BY <1>1, <1>2, <3>2
        <4> QED BY <4>1, <4>2
      <3>4. i - 1 \in Low
        BY <1>2, <3>1, <3>2, <3>3
      <3> QED BY <3>1, <3>2, <3>4
    <2>2. CASE Low = {}
      <3> SUFFICES ASSUME NEW i \in 1 .. Len(sizes) PROVE sum[i] >= first
        OBVIOUS
      <3>1. sum[i] \in 0 .. total
        BY <1>2
      <3>2. ~(sum[i] < first)
        BY <2>2
      <3> QED BY <1>2, <3>1, <3>2
    <2> QED BY <2>1, <2>2
  <1> DEFINE less == [i \in 0 .. Len(shorter) |-> sum[i + 1] - first]
  <1>5. ASSUME NEW i \in 0 .. Len(shorter)
        PROVE  i + 1 \in 1 .. Len(sizes) /\ sum[i + 1] \in 0 .. total
    <2>1. i + 1 \in 1 .. Len(sizes)
      BY <1>2
    <2> QED BY <2>1
  <1>6. less \in [0 .. Len(shorter) -> 0 .. (total - first)]
    BY <1>2, <1>4, <1>5
  <1>7. less[0] = 0 /\ less[Len(shorter)] = total - first
    BY <1>1, <1>2, <1>3
  <1>8. ASSUME NEW i \in 1 .. Len(shorter)
        PROVE  less[i] = less[i - 1] + shorter[i]
    <2>1. i + 1 \in 1 .. Len(sizes) /\ i \in 1 .. Len(sizes)
      BY <1>2
    <2>2. sum[i + 1] = sum[i] + sizes[i + 1] /\ sum[i] \in Nat /\ sum[i + 1] \in Nat
      <3>0. i \in 0 .. Len(sizes) /\ i + 1 \in 0 .. Len(sizes)
        BY <1>2, <2>1
      <3>1. sum[i] \in 0 .. total /\ sum[i + 1] \in 0 .. total
        BY <1>s, <3>0
      <3>2. sum[i + 1] = sum[(i + 1) - 1] + sizes[i + 1] /\ (i + 1) - 1 = i
        BY <1>1, <2>1
      <3> QED BY <3>1, <3>2
    <2>3. less[i] = sum[i + 1] - first /\ less[i - 1] = sum[i] - first
      <3>1. /\ i \in 0 .. Len(shorter) /\ i - 1 \in 0 .. Len(shorter)
            /\ (i - 1) + 1 = i
        BY <1>2
      <3> QED BY <3>1
    <2>4. shorter[i] = sizes[i + 1] /\ sizes[i + 1] \in Nat
      BY <1>2, <2>1
    <2> HIDE DEF less
    <2>5. sum[i + 1] - first = (sum[i] - first) + sizes[i + 1]
      <3>1. \A a, b, c, d \in Nat : a = b + c => a - d = (b - d) + c
        OBVIOUS
      <3>2. first \in Nat /\ sizes[i + 1] \in Nat
        BY <1>2, <2>4
      <3> DEFINE a == sum[i + 1]  b == sum[i]  c == sizes[i + 1]
      <3>3. a \in Nat /\ b \in Nat /\ c \in Nat /\ a = b + c
        BY <2>2, <3>2
      <3> HIDE DEF a, b, c
      <3>4. a - first = (b - first) + c
        BY <3>1, <3>2, <3>3
      <3> QED BY <3>4 DEF a, b, c
    <2> QED BY <2>3, <2>4, <2>5
  <1>9. total - first \in Nat
    <2>1. sum[Len(sizes)] >= first
      BY <1>2, <1>4
    <2> QED BY <1>1, <1>2, <2>1
  <1> HIDE DEF less
  <1> QED BY <1>6, <1>7, <1>8, <1>9 DEF AddsUpTo, shorter, first

(* The sizes of the queued chunks and parts; a queued chunk's push is past *)
(* its admission, so that its length is fixed.                             *)
InputSizes == [i \in 1 .. Len(input_queue) |-> length[input_queue[i]]]
OutputSizes == [i \in 1 .. Len(output_queue) |-> output_queue[i][2]]

QueuedWereSent ==
  \A i \in 1 .. Len(input_queue) : push[input_queue[i]] \in {"sent", "ok"}

LEMMA AppendChunk ==
  ASSUME TypeOK, TypeOK', QueuedWereSent, AddsUpTo(InputSizes, input_bytes),
         NEW p \in Pushes, input_queue' = Append(input_queue, p),
         input_bytes' = input_bytes + length'[p],
         \A q \in Pushes \ {p} : length'[q] = length[q] /\ push'[q] = push[q],
         push[p] \notin {"sent", "ok"}, push'[p] \in {"sent", "ok"}
  PROVE  QueuedWereSent' /\ AddsUpTo(InputSizes, input_bytes)'
  <1>1. /\ input_queue \in Seq(Pushes) /\ input_bytes \in Int
        /\ length \in [Pushes -> Nat] /\ length' \in [Pushes -> Nat]
        /\ length'[p] \in Nat
    BY DEF TypeOK, TypeQueues, TypeInput
  <1>2. /\ Len(input_queue') = Len(input_queue) + 1
        /\ input_queue'[Len(input_queue')] = p
        /\ \A i \in 1 .. Len(input_queue) :
             /\ input_queue'[i] = input_queue[i]
             /\ input_queue[i] \in Pushes /\ input_queue[i] # p
        /\ Len(input_queue) \in Nat
    BY <1>1 DEF QueuedWereSent
  <1>3. InputSizes \in Seq(Nat) /\ Len(InputSizes) = Len(input_queue)
    BY <1>1, <1>2 DEF InputSizes
  <1>4. InputSizes' = Append(InputSizes, length'[p])
    BY <1>1, <1>2 DEF InputSizes
  <1>5. AddsUpTo(InputSizes', input_bytes')
    BY <1>1, <1>3, <1>4, AppendAdds
  <1>6. QueuedWereSent'
    BY <1>2 DEF QueuedWereSent
  <1> QED BY <1>5, <1>6

LEMMA InputKept ==
  ASSUME TypeOK, QueuedWereSent, AddsUpTo(InputSizes, input_bytes),
         UNCHANGED queueVars,
         \A q \in Pushes : push[q] \in {"sent", "ok"} =>
             length'[q] = length[q] /\ push'[q] \in {"sent", "ok"}
  PROVE  QueuedWereSent' /\ AddsUpTo(InputSizes, input_bytes)'
  <1>1. \A i \in 1 .. Len(input_queue) : input_queue[i] \in Pushes
    BY DEF TypeOK, TypeQueues
  <1>2. InputSizes' = InputSizes
    BY <1>1 DEF InputSizes, QueuedWereSent, queueVars
  <1> QED BY <1>1, <1>2 DEF QueuedWereSent, queueVars

LEMMA InputBytesStep ==
  ASSUME TypeOK, TypeOK', Next, QueuedWereSent, AddsUpTo(InputSizes, input_bytes)
  PROVE  QueuedWereSent' /\ AddsUpTo(InputSizes, input_bytes)'
  <1>0. /\ input_queue \in Seq(Pushes) /\ input_bytes \in Int
        /\ length \in [Pushes -> Nat]
        /\ push \in [Pushes -> {"idle", "waiting", "sent", "dropping", "ok",
                                "gone", "refused"}]
    BY DEF TypeOK, TypeQueues, TypeInput, TypeCalls
  <1>1. ASSUME NEW p \in Pushes, PushStep(p)
        PROVE  QueuedWereSent' /\ AddsUpTo(InputSizes, input_bytes)'
    <2>1. ASSUME NEW n \in Lengths, Push(p, n)
          PROVE  QueuedWereSent' /\ AddsUpTo(InputSizes, input_bytes)'
      BY <1>0, <2>1, InputKept DEF Push, Admit, Refuse, inputVars
    <2>2. ASSUME NEW n \in Lengths, TryPush(p, n)
          PROVE  QueuedWereSent' /\ AddsUpTo(InputSizes, input_bytes)'
      <3>1. CASE TryPushFits(n)
        BY <1>0, <2>2, <3>1, AppendChunk DEF TryPush, Admit
      <3>2. CASE ~TryPushFits(n)
        BY <1>0, <2>2, <3>2, InputKept DEF TryPush, Refuse, inputVars
      <3> QED BY <3>1, <3>2
    <2>3. CASE PushTurn(p)
      <3>1. CASE input_queue' = Append(input_queue, p)
        BY <1>0, <2>3, <3>1, AppendChunk DEF PushTurn, inputVars, queueVars
      <3>2. CASE UNCHANGED queueVars
        BY <1>0, <2>3, <3>2, InputKept DEF PushTurn, inputVars
      <3> QED BY <2>3, <3>1, <3>2 DEF PushTurn
    <2>4. CASE AbandonPush(p) \/ DropAdmission(p)
      BY <1>0, <2>4, InputKept DEF AbandonPush, DropAdmission, inputVars
    <2> QED BY <1>1, <2>1, <2>2, <2>3, <2>4 DEF PushStep
  <1>2. CASE AudioPoll /\ ~UNCHANGED queueVars
    <2>1. /\ input_queue # <<>> /\ input_queue' = Tail(input_queue)
          /\ input_bytes' = input_bytes - length[Head(input_queue)]
          /\ UNCHANGED <<length, push>>
      BY <1>2 DEF AudioPoll, inputVars
    <2>2. /\ Len(input_queue') = Len(input_queue) - 1 /\ Len(input_queue) \in Nat \ {0}
          /\ Head(input_queue) = input_queue[1]
          /\ \A i \in 1 .. Len(input_queue') : input_queue'[i] = input_queue[i + 1]
          /\ \A i \in 1 .. Len(input_queue) : input_queue[i] \in Pushes
      BY <1>0, <2>1
    <2>3. InputSizes \in Seq(Nat) /\ Len(InputSizes) = Len(input_queue)
      BY <1>0, <2>2 DEF InputSizes
    <2>4. /\ InputSizes # <<>> /\ Head(InputSizes) = length[Head(input_queue)]
          /\ InputSizes' = Tail(InputSizes)
      <3>1. /\ InputSizes[1] = length[input_queue[1]] /\ 1 \in 1 .. Len(InputSizes)
            /\ length[input_queue[1]] \in Nat
        BY <1>0, <2>2, <2>3 DEF InputSizes
      <3>2. InputSizes # <<>> /\ Head(InputSizes) = length[Head(input_queue)]
        BY <2>2, <2>3, <3>1
      <3>3. /\ InputSizes' \in Seq(Nat) /\ Len(InputSizes') = Len(InputSizes) - 1
            /\ \A i \in 1 .. Len(InputSizes) - 1 : InputSizes'[i] = InputSizes[i + 1]
        BY <1>0, <2>1, <2>2, <2>3 DEF InputSizes
      <3>4. /\ Tail(InputSizes) \in Seq(Nat)
            /\ Len(Tail(InputSizes)) = Len(InputSizes) - 1
            /\ \A i \in 1 .. Len(InputSizes) - 1 :
                   Tail(InputSizes)[i] = InputSizes[i + 1]
        BY <2>3, <3>2
      <3>5. InputSizes' = Tail(InputSizes)
        BY <3>3, <3>4, SeqEqual
      <3> QED BY <3>2, <3>5
    <2>5. AddsUpTo(InputSizes', input_bytes')
      BY <1>0, <2>1, <2>3, <2>4, TailSubtracts
    <2>6. QueuedWereSent'
      BY <2>1, <2>2 DEF QueuedWereSent
    <2> QED BY <2>5, <2>6
  <1>3. CASE input_queue' = <<>> /\ input_bytes' = 0
    <2>1. Len(InputSizes') = 0
      BY <1>3 DEF InputSizes
    <2> QED BY <1>3, <2>1, NothingAddsUpToZero DEF QueuedWereSent
  <1>4. CASE UNCHANGED queueVars /\ ~\E p \in Pushes : PushStep(p)
    <2>1. UNCHANGED <<length, push>>
      BY <1>4, AdmissionWriters DEF CloseInput, inputVars
    <2> QED BY <1>4, <2>1, InputKept
  <1> QED BY <1>1, <1>2, <1>3, <1>4, InputQueueWriters

LEMMA OutputBytesStep ==
  ASSUME TypeOK, TypeOK', Next, AddsUpTo(OutputSizes, output_bytes)
  PROVE  AddsUpTo(OutputSizes, output_bytes)'
  <1>0. /\ output_queue \in Seq(Nat \X Nat) /\ output_bytes \in Int
        /\ part_bytes \in Nat
    BY DEF TypeOK, TypeQueues, TypeDriver
  <1>1. OutputSizes \in Seq(Nat) /\ Len(OutputSizes) = Len(output_queue)
    BY <1>0 DEF OutputSizes
  <1>2. CASE AbandonOutput
    <2>1. Len(OutputSizes') = 0 /\ output_bytes' = 0
      BY <1>2 DEF AbandonOutput, OutputSizes
    <2> QED BY <2>1, NothingAddsUpToZero
  <1>3. CASE NextTurn /\ ~UNCHANGED outputVars
    <2>1. /\ output_queue # <<>> /\ output_queue' = Tail(output_queue)
          /\ output_bytes' = output_bytes - Head(output_queue)[2]
      BY <1>3 DEF NextTurn
    <2>2. /\ Len(output_queue') = Len(output_queue) - 1
          /\ Len(output_queue) \in Nat \ {0} /\ Head(output_queue) = output_queue[1]
          /\ \A i \in 1 .. Len(output_queue') : output_queue'[i] = output_queue[i + 1]
      BY <1>0, <2>1
    <2>3. /\ OutputSizes # <<>> /\ Head(OutputSizes) = Head(output_queue)[2]
          /\ OutputSizes' = Tail(OutputSizes)
      BY <1>1, <2>2 DEF OutputSizes
    <2> QED BY <1>0, <1>1, <2>1, <2>3, TailSubtracts
  <1>4. CASE DriverAppend /\ ~UNCHANGED outputVars
    <2>1. /\ output_queue' = Append(output_queue, <<yielded, part_bytes>>)
          /\ output_bytes' = output_bytes + part_bytes
      BY <1>4 DEF DriverAppend
    <2>2. /\ Len(output_queue') = Len(output_queue) + 1 /\ Len(output_queue) \in Nat
          /\ output_queue'[Len(output_queue')] = <<yielded, part_bytes>>
          /\ \A i \in 1 .. Len(output_queue) : output_queue'[i] = output_queue[i]
      BY <1>0, <2>1 DEF TypeOK, TypeDriver
    <2>3. OutputSizes' = Append(OutputSizes, part_bytes)
      BY <1>0, <1>1, <2>2 DEF OutputSizes
    <2> QED BY <1>0, <1>1, <2>1, <2>3, AppendAdds
  <1>5. CASE UNCHANGED outputVars
    <2>1. OutputSizes' = OutputSizes /\ output_bytes' = output_bytes
      BY <1>5 DEF outputVars, OutputSizes
    <2> QED BY <2>1
  <1> QED BY <1>2, <1>3, <1>4, <1>5, OutputQueueWriters

-----------------------------------------------------------------------------
(* Delivery *)

(* What next returned, followed by what waits for it, is 1, 2, ..., n.     *)
InOrderUpTo(n) ==
  /\ Len(received) + Len(output_queue) = n
  /\ \A i \in 1 .. Len(received) : received[i] = i
  /\ \A i \in 1 .. Len(output_queue) : output_queue[i][1] = Len(received) + i

(* Until the consumer closes nothing is missing: the driver holds at most  *)
(* the part it yielded last, and a success is stored while it holds none.  *)
PartsInOrder ==
  consumer = "Open" =>
    /\ driver \in {"start", "unsupported", "connect", "room", "poll"}
         => InOrderUpTo(yielded)
    /\ driver \in {"roomfor", "append"} =>
         yielded > 0 /\ InOrderUpTo(yielded - 1)
    /\ terminal = "Success" => driver = "done" /\ InOrderUpTo(yielded)

(* Success carries no error, and none is there before the terminal result. *)
ErrorsMatchTerminal ==
  /\ terminal \in {"None", "Success"} => terminal_error = "None"
  /\ ErrorReadOnce

LEMMA ReadingKeepsOrder ==
  ASSUME TypeOK, NEW n \in Nat, InOrderUpTo(n), output_queue # <<>>,
         output_queue' = Tail(output_queue),
         received' = Append(received, Head(output_queue)[1])
  PROVE  InOrderUpTo(n)'
  <1>1. /\ output_queue \in Seq(Nat \X Nat) /\ received \in Seq(Nat)
    BY DEF TypeOK, TypeQueues, TypeResults
  <1>2. /\ Len(output_queue') = Len(output_queue) - 1 /\ Len(received) \in Nat
        /\ Len(output_queue) \in Nat \ {0} /\ Head(output_queue) = output_queue[1]
        /\ \A i \in 1 .. Len(output_queue') : output_queue'[i] = output_queue[i + 1]
        /\ Len(received') = Len(received) + 1
        /\ received'[Len(received')] = output_queue[1][1]
        /\ \A i \in 1 .. Len(received) : received'[i] = received[i]
    <2>1. output_queue[1] \in Nat \X Nat
      BY <1>1
    <2>2. output_queue[1][1] \in Nat
      BY <2>1
    <2> QED BY <1>1, <2>2
  <1>3. \A i \in 1 .. Len(received') : received'[i] = i
    BY <1>2 DEF InOrderUpTo
  <1>4. ASSUME NEW i \in 1 .. Len(output_queue')
        PROVE  output_queue'[i][1] = Len(received') + i
    <2>1. i + 1 \in 1 .. Len(output_queue)
      BY <1>2
    <2>2. output_queue[i + 1][1] = Len(received) + (i + 1)
      BY <2>1 DEF InOrderUpTo
    <2> QED BY <1>2, <2>2
  <1>5. Len(received') + Len(output_queue') = n
    <2>1. Len(received) + Len(output_queue) = n
      BY DEF InOrderUpTo
    <2> QED BY <1>2, <2>1
  <1> QED BY <1>3, <1>4, <1>5 DEF InOrderUpTo

LEMMA AppendingKeepsOrder ==
  ASSUME TypeOK, InOrderUpTo(yielded - 1),
         output_queue' = Append(output_queue, <<yielded, part_bytes>>),
         UNCHANGED <<received, yielded>>
  PROVE  InOrderUpTo(yielded)'
  <1>1. /\ output_queue \in Seq(Nat \X Nat) /\ received \in Seq(Nat)
        /\ yielded \in Nat /\ part_bytes \in Nat
    BY DEF TypeOK, TypeQueues, TypeResults, TypeDriver
  <1>2. /\ Len(output_queue') = Len(output_queue) + 1 /\ Len(received) \in Nat
        /\ Len(output_queue) \in Nat
        /\ output_queue'[Len(output_queue')] = <<yielded, part_bytes>>
        /\ \A i \in 1 .. Len(output_queue) : output_queue'[i] = output_queue[i]
    BY <1>1
  <1>3. Len(received') + Len(output_queue') = yielded
    <2>1. Len(received) + Len(output_queue) = yielded - 1 /\ received' = received
      BY DEF InOrderUpTo
    <2> QED BY <1>1, <1>2, <2>1
  <1>4. ASSUME NEW i \in 1 .. Len(output_queue')
        PROVE  output_queue'[i][1] = Len(received') + i
    <2>1. CASE i = Len(output_queue')
      <3>1. output_queue'[i][1] = yielded
        BY <1>2, <2>1
      <3>2. Len(received) + Len(output_queue) = yielded - 1
        BY DEF InOrderUpTo
      <3> QED BY <1>1, <1>2, <2>1, <3>1, <3>2
    <2>2. CASE i # Len(output_queue')
      <3>1. i \in 1 .. Len(output_queue)
        BY <1>2, <2>2
      <3> QED BY <1>2, <3>1 DEF InOrderUpTo
    <2> QED BY <2>1, <2>2
  <1>5. \A i \in 1 .. Len(received') : received'[i] = i
    BY DEF InOrderUpTo
  <1> QED BY <1>3, <1>4, <1>5 DEF InOrderUpTo

LEMMA OrderKept ==
  ASSUME NEW n, InOrderUpTo(n), UNCHANGED <<received, output_queue>>
  PROVE  InOrderUpTo(n)'
  BY DEF InOrderUpTo

(* The steps that end with success, and what they leave of the rest.       *)
LEMMA TerminalWriters ==
  ASSUME Next, terminal = "None", terminal' # "None"
  PROVE  /\ UNCHANGED <<outputVars, received, yielded, consumer, error_reads,
                        ended_reads>>
         /\ terminal_error' = IF terminal' = "Success" THEN "None" ELSE "Some"
         /\ terminal' = "Success" => driver = "poll" /\ driver' = "done"
  <1> USE DEF Finish, CancelShared, Store, readVars
  <1>1. CASE CallerNext
    BY <1>1 DEF CallerNext, Push, TryPush, PushTurn, AbandonPush,
      DropAdmission, InputDone, NextCall, NextTurn, NextTimeout, Cancel,
      ConsumerClose, ConsumerCloseClear, UserAbort, terminalVars, driverVars
  <1>2. CASE AudioPoll
    BY <1>2 DEF AudioPoll, terminalVars
  <1>3. CASE DriverNext
    BY <1>3 DEF DriverNext, DriverUnsupported, DriverAccepted,
      DriverConnected, DriverTurn, DriverRoom, DriverAppend,
      AppendSeesTerminal, DriverPart, DriverEnds, DriverAbort, DriverDropped,
      DriverFrame, terminalVars
  <1>4. CASE LifeNext
    BY <1>4 DEF LifeNext, StartReturns, Terminate, TerminateClose,
      TerminateTake, TerminateReturns, CleanupJoin, CleanupTimeout, Drop,
      DropClear, DropJoin, LifeFrame, terminalVars
  <1> QED BY <1>1, <1>2, <1>3, <1>4 DEF Next

LEMMA ErrorStep ==
  ASSUME TypeOK, ErrorsMatchTerminal, Next
  PROVE  ErrorsMatchTerminal'
  <1> USE DEF ErrorsMatchTerminal, ErrorReadOnce
  <1>0. /\ terminal \in {"None", "Success", "Error", "Cancelled"}
        /\ terminal_error \in {"None", "Some"}
        /\ ended_reads \in {0, 1}
    BY DEF TypeOK, TypeResults, Outcomes
  <1>1. CASE NextTurn
    BY <1>0, <1>1 DEF NextTurn, TakeError, readVars
  <1>2. CASE UNCHANGED <<terminal, terminal_error, error_reads, ended_reads>>
    BY <1>2
  <1>3. CASE terminal = "None" /\ terminal' # "None"
    BY <1>0, <1>3, TerminalWriters
  <1>4. ~NextTurn => UNCHANGED <<error_reads, ended_reads>>
    <2>1. CASE CallerNext
      BY <2>1 DEF CallerNext, Push, TryPush, PushTurn, AbandonPush,
        DropAdmission, InputDone, NextCall, NextTimeout, Cancel,
        ConsumerClose, ConsumerCloseClear, UserAbort, DriverFrame, readVars
    <2>2. CASE AudioPoll
      BY <2>2 DEF AudioPoll, readVars
    <2>3. CASE DriverNext
      BY <2>3 DEF DriverNext, DriverUnsupported, DriverAccepted,
        DriverConnected, DriverTurn, DriverRoom, DriverAppend, DriverPart,
        DriverEnds, DriverAbort, DriverDropped, DriverFrame, LifeFrame, readVars
    <2>4. CASE LifeNext
      BY <2>4 DEF LifeNext, StartReturns, Terminate, TerminateClose,
        TerminateTake, TerminateReturns, CleanupJoin, CleanupTimeout, Drop,
        DropClear, DropJoin, LifeFrame, readVars
    <2> QED BY <2>1, <2>2, <2>3, <2>4 DEF Next
  <1>5. ~NextTurn => UNCHANGED terminalVars \/ (terminal = "None" /\ terminal' # "None")
    <2> USE DEF Finish, CancelShared, Store
    <2>1. CASE CallerNext
      BY <2>1 DEF CallerNext, Push, TryPush, PushTurn, AbandonPush,
        DropAdmission, InputDone, NextCall, NextTimeout, Cancel,
        ConsumerClose, ConsumerCloseClear, UserAbort, DriverFrame
    <2>2. CASE AudioPoll
      BY <2>2 DEF AudioPoll
    <2>3. CASE DriverNext
      BY <2>3 DEF DriverNext, DriverUnsupported, DriverAccepted,
        DriverConnected, DriverTurn, DriverRoom, DriverAppend, DriverPart,
        DriverEnds, DriverAbort, DriverDropped, DriverFrame, LifeFrame
    <2>4. CASE LifeNext
      BY <2>4 DEF LifeNext, StartReturns, Terminate, TerminateClose,
        TerminateTake, TerminateReturns, CleanupJoin, CleanupTimeout, Drop,
        DropClear, DropJoin, LifeFrame
    <2> QED BY <2>1, <2>2, <2>3, <2>4 DEF Next
  <1> QED BY <1>1, <1>2, <1>3, <1>4, <1>5 DEF terminalVars

(* Who moves the parts, the consumer and the driver.                       *)
LEMMA PartMovers ==
  ASSUME Next
  PROVE  \/ UNCHANGED <<output_queue, received, consumer, driver, yielded>>
         \/ NextTurn /\ UNCHANGED <<consumer, driver, yielded, terminal>>
         \/ consumer' = "Closed"
         \/ DriverNext /\ UNCHANGED <<received, consumer>>
  <1>1. CASE CallerNext
    BY <1>1 DEF CallerNext, Push, TryPush, PushTurn, AbandonPush,
      DropAdmission, InputDone, NextCall, NextTurn, NextTimeout, Cancel,
      ConsumerClose, ConsumerCloseClear, AbandonOutput, UserAbort, DriverFrame,
      readVars, outputVars, driverVars
  <1>2. CASE AudioPoll
    BY <1>2 DEF AudioPoll, readVars, outputVars, driverVars
  <1>3. CASE DriverNext
    BY <1>3 DEF DriverNext, DriverUnsupported, DriverAccepted,
      DriverConnected, DriverTurn, DriverRoom, DriverAppend, DriverPart,
      DriverEnds, DriverAbort, DriverDropped, DriverFrame, LifeFrame, readVars
  <1>4. CASE LifeNext
    BY <1>4 DEF LifeNext, StartReturns, Terminate, TerminateClose,
      TerminateTake, TerminateReturns, CleanupJoin, CleanupTimeout, Drop,
      DropClear, AbandonOutput, DropJoin, LifeFrame, readVars, outputVars
  <1> QED BY <1>1, <1>2, <1>3, <1>4 DEF Next

LEMMA ConsumerNeverReopens ==
  ASSUME TypeOK, Next, consumer = "Closed"
  PROVE  consumer' = "Closed"
  BY PartMovers DEF NextTurn

LEMMA PartsStep ==
  ASSUME TypeOK, PartsInOrder, Next
  PROVE  PartsInOrder'
  <1>0. /\ driver \in {"start", "unsupported", "connect", "room", "poll",
                       "roomfor", "append", "done"}
        /\ yielded \in Nat /\ consumer \in {"Open", "Closed"}
        /\ terminal \in {"None", "Success", "Error", "Cancelled"}
    BY DEF TypeOK, TypeDriver, TypeResults, Outcomes
  <1>1. CASE consumer' = "Closed"
    BY <1>1 DEF PartsInOrder
  <1>2. CASE /\ UNCHANGED <<output_queue, received, consumer, driver, yielded>>
             /\ consumer = "Open"
    <2>1. \A n : InOrderUpTo(n) => InOrderUpTo(n)'
      BY <1>2, OrderKept
    <2>2. terminal' = "Success" => terminal = "Success"
      BY <1>0, <1>2, TerminalWriters, TerminalStep
    <2> QED BY <1>2, <2>1, <2>2 DEF PartsInOrder
  <1>3. CASE NextTurn /\ UNCHANGED <<consumer, driver, yielded, terminal>>
             /\ consumer = "Open"
    <2>1. CASE UNCHANGED <<output_queue, received>>
      BY <1>3, <2>1, OrderKept DEF PartsInOrder
    <2>2. CASE /\ output_queue # <<>> /\ output_queue' = Tail(output_queue)
               /\ received' = Append(received, Head(output_queue)[1])
      <3>1. \A n \in Nat : InOrderUpTo(n) => InOrderUpTo(n)'
        BY <2>2, ReadingKeepsOrder
      <3>2. yielded > 0 => yielded - 1 \in Nat
        BY <1>0
      <3> QED BY <1>0, <1>3, <3>1, <3>2 DEF PartsInOrder
    <2> QED BY <1>3, <2>1, <2>2 DEF NextTurn, outputVars, readVars
  <1>4. CASE DriverNext /\ UNCHANGED <<received, consumer>> /\ consumer = "Open"
    <2>1. terminal # "None" => terminal' = terminal
      BY TerminalStep
    <2>2. terminal = "None" /\ terminal' = "Success" =>
              /\ driver = "poll" /\ driver' = "done"
              /\ UNCHANGED <<outputVars, yielded>>
      BY TerminalWriters
    <2>3. CASE DriverAppend /\ ~AppendSeesTerminal
      <3>1. /\ driver = "append" /\ driver' = "room" /\ terminal' = "None"
            /\ output_queue' = Append(output_queue, <<yielded, part_bytes>>)
            /\ yielded' = yielded
        BY <2>3 DEF DriverAppend, AppendSeesTerminal, terminalVars
      <3>2. InOrderUpTo(yielded)'
        BY <1>4, <3>1, AppendingKeepsOrder DEF PartsInOrder
      <3> QED BY <1>4, <3>1, <3>2 DEF PartsInOrder
    <2>4. CASE ~(DriverAppend /\ ~AppendSeesTerminal)
      <3>1. output_queue' = output_queue
        BY <1>4, <2>4 DEF DriverNext, DriverUnsupported, DriverAccepted,
          DriverConnected, DriverTurn, DriverRoom, DriverAppend, DriverPart,
          DriverEnds, DriverAbort, DriverDropped, outputVars
      <3>2. \A n : InOrderUpTo(n) => InOrderUpTo(n)'
        BY <1>4, <3>1, OrderKept
      <3>3. terminal = "Success" => driver = "done"
        BY <1>4 DEF PartsInOrder
      <3>4. ASSUME NEW n \in PartSizes, DriverPart(n) PROVE PartsInOrder'
        <4>1. CASE n <= PartLimit
          <5>0. ~(n > PartLimit)
            BY <4>1, LimitsAssumption DEF PartLimit
          <5>1. /\ driver = "poll" /\ driver' = "roomfor" /\ yielded' = yielded + 1
                /\ terminal' = terminal
            BY <3>4, <5>0 DEF DriverPart, terminalVars
          <5>2. yielded' > 0 /\ yielded' - 1 = yielded
            BY <1>0, <5>1
          <5>3. InOrderUpTo(yielded - 1)'
            <6>1. InOrderUpTo(yielded)
              BY <1>4, <5>1 DEF PartsInOrder
            <6> QED BY <1>0, <1>4, <3>1, <5>1, <6>1 DEF InOrderUpTo
          <5> QED BY <1>4, <3>3, <5>1, <5>2, <5>3 DEF PartsInOrder
        <4>2. CASE ~(n <= PartLimit)
          <5>1. driver = "poll" /\ driver' = "done" /\ yielded' = yielded
            BY <3>4, <4>2 DEF DriverPart
          <5> QED BY <1>4, <2>1, <2>2, <3>2, <3>3, <5>1 DEF PartsInOrder
        <4> QED BY <4>1, <4>2
      <3>5. CASE ~\E n \in PartSizes : DriverPart(n)
        <4>1. /\ yielded' = yielded
              /\ \/ driver' = "done" /\ driver # "done"
                 \/ driver' = driver /\ terminal' = terminal
                 \/ driver' = "unsupported" /\ driver = "start" /\ terminal' = terminal
                 \/ driver' = "connect" /\ driver = "start" /\ terminal' = terminal
                 \/ driver' = "room" /\ driver = "connect" /\ terminal' = terminal
                 \/ driver' = "poll" /\ driver = "room" /\ terminal' = terminal
                 \/ driver' = "append" /\ driver = "roomfor" /\ terminal' = terminal
          BY <1>4, <2>4, <3>5 DEF DriverNext, DriverUnsupported, DriverAccepted,
            DriverConnected, DriverTurn, DriverRoom, DriverAppend, DriverEnds,
            DriverAbort, DriverDropped, DriverSuspended, LifeFrame, terminalVars
        <4>2. InOrderUpTo(yielded) => InOrderUpTo(yielded)'
          BY <1>4, <3>1, <4>1 DEF InOrderUpTo
        <4>3. InOrderUpTo(yielded - 1) => InOrderUpTo(yielded - 1)'
          BY <1>4, <3>1, <4>1 DEF InOrderUpTo
        <4> QED BY <1>0, <1>4, <2>1, <2>2, <3>3, <4>1, <4>2, <4>3 DEF PartsInOrder
      <3> QED BY <3>4, <3>5
    <2> QED BY <2>3, <2>4
  <1>5. consumer = "Closed" => consumer' = "Closed"
    BY PartMovers, ConsumerNeverReopens
  <1> QED BY <1>0, <1>1, <1>2, <1>3, <1>4, <1>5, PartMovers

(* Whatever races with next: a success has delivered every part in order,  *)
(* an error is reported once and before Ended, and the byte counters are   *)
(* the sums of what is queued.                                             *)
THEOREM DeliveryStaysSound == Spec => []DeliveryIsSound
  <1> DEFINE DInv == /\ QueuedWereSent /\ AddsUpTo(InputSizes, input_bytes)
                     /\ AddsUpTo(OutputSizes, output_bytes)
                     /\ ErrorsMatchTerminal /\ PartsInOrder
  <1>1. Init => DInv
    <2> SUFFICES ASSUME Init PROVE DInv
      OBVIOUS
    <2>1. Len(InputSizes) = 0 /\ Len(OutputSizes) = 0
      BY DEF Init, InputSizes, OutputSizes
    <2> QED BY <2>1, NothingAddsUpToZero DEF Init, QueuedWereSent,
               ErrorsMatchTerminal, ErrorReadOnce, PartsInOrder, InOrderUpTo
  <1>2. TypeOK /\ TypeOK' /\ DInv /\ [Next]_vars => DInv'
    <2> SUFFICES ASSUME TypeOK, TypeOK', DInv, [Next]_vars PROVE DInv'
      OBVIOUS
    <2>1. CASE Next
      BY <2>1, InputBytesStep, OutputBytesStep, ErrorStep, PartsStep
    <2>2. CASE UNCHANGED vars
      BY <2>2 DEF vars, inputVars, queueVars, outputVars, terminalVars, readVars,
        driverVars, QueuedWereSent, InputSizes, OutputSizes, ErrorsMatchTerminal,
        ErrorReadOnce, PartsInOrder, InOrderUpTo
    <2> QED BY <2>1, <2>2
  <1>3. TypeOK /\ DInv => DeliveryIsSound
    <2> SUFFICES ASSUME TypeOK, DInv PROVE DeliveryIsSound
      OBVIOUS
    <2>1. ErrorReadOnce /\ BytesMatchQueues
      BY DEF ErrorsMatchTerminal, BytesMatchQueues, InputSizes, OutputSizes
    <2>2. SuccessDeliversAll
      <3> SUFFICES ASSUME terminal = "Success", consumer = "Open"
                   PROVE  received \o [i \in 1 .. Len(output_queue) |->
                                         output_queue[i][1]]
                            = [i \in 1 .. yielded |-> i]
        BY DEF SuccessDeliversAll
      <3> DEFINE waiting == [i \in 1 .. Len(output_queue) |-> output_queue[i][1]]
                 all == [i \in 1 .. yielded |-> i]
      <3>1. InOrderUpTo(yielded)
        BY DEF PartsInOrder
      <3>2. /\ received \in Seq(Nat) /\ output_queue \in Seq(Nat \X Nat)
            /\ yielded \in Nat /\ Len(received) \in Nat /\ Len(output_queue) \in Nat
        BY DEF TypeOK, TypeResults, TypeQueues, TypeDriver
      <3>3. waiting \in Seq(Nat) /\ Len(waiting) = Len(output_queue)
        BY <3>2
      <3>4. received \o waiting =
              [i \in 1 .. (Len(received) + Len(waiting)) |->
                 IF i <= Len(received) THEN received[i]
                 ELSE waiting[i - Len(received)]]
        BY <3>2, <3>3
      <3>5. ASSUME NEW i \in 1 .. yielded
            PROVE  (IF i <= Len(received) THEN received[i]
                    ELSE waiting[i - Len(received)]) = i
        <4>1. CASE i <= Len(received)
          BY <3>1, <3>2, <4>1 DEF InOrderUpTo
        <4>2. CASE ~(i <= Len(received))
          <5>1. i - Len(received) \in 1 .. Len(output_queue)
            BY <3>1, <3>2, <4>2 DEF InOrderUpTo
          <5>2. waiting[i - Len(received)] = Len(received) + (i - Len(received))
            BY <3>1, <5>1 DEF InOrderUpTo
          <5> QED BY <3>2, <4>2, <5>2
        <4> QED BY <4>1, <4>2
      <3>6. Len(received) + Len(waiting) = yielded
        BY <3>1, <3>3 DEF InOrderUpTo
      <3> QED BY <3>4, <3>5, <3>6
    <2> QED BY <2>1, <2>2 DEF DeliveryIsSound
  <1> QED BY <1>1, <1>2, <1>3, TypeCorrect, PTL DEF Spec
=============================================================================
