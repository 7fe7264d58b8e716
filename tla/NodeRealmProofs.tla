--------------------------- MODULE NodeRealmProofs ---------------------------
(* Proofs about the Node realm and the handle registry. *)
EXTENDS NodeRealm, TLAPS

LEMMA TakeOutTypes ==
  ASSUME RealmTypeOK, NEW p \in Calls \cup Realms, NEW gone \in SUBSET entries,
         TakeOut(p, gone)
  PROVE  /\ next_id' \in Ids /\ consumer_closed' \subseteq Ids
         /\ entries' \subseteq [id : Ids, owner : Realms,
                                kind : {"Operation", "Other"}]
         /\ removed' \in [Calls \cup Realms -> SUBSET Ids]
  <1>1. OperationsIn(gone) \subseteq Ids
    BY DEF OperationsIn, RealmTypeOK
  <1> QED BY <1>1 DEF TakeOut, RealmTypeOK

LEMMA CloseTakenTypes ==
  ASSUME RealmTypeOK, NEW p \in Calls \cup Realms, CloseTaken(p)
  PROVE  /\ next_id' \in Ids /\ consumer_closed' \subseteq Ids
         /\ entries' \subseteq [id : Ids, owner : Realms,
                                kind : {"Operation", "Other"}]
         /\ removed' \in [Calls \cup Realms -> SUBSET Ids]
  BY DEF CloseTaken, ConsumerClosed, RealmTypeOK

LEMMA GotoTypes ==
  ASSUME RealmTypeOK, NEW c \in Calls,
         NEW label \in {"idle", "request", "dispatch", "insert", "close",
                        "remember", "release", "closeall", "forget", "done",
                        "finish", "returned", "failed"},
         Goto(c, label)
  PROVE  pc' \in [Calls -> {"idle", "request", "dispatch", "insert", "close",
                       "remember", "release", "closeall", "forget", "done",
                       "finish", "returned", "failed"}]
  BY DEF Goto, RealmTypeOK

LEMMA UpdateSet ==
  ASSUME NEW S, NEW T, NEW f \in [S -> SUBSET T], NEW s \in S,
         NEW v \in SUBSET T
  PROVE  [f EXCEPT ![s] = v] \in [S -> SUBSET T]
  OBVIOUS

LEMMA SelectionsAreEntries ==
  ASSUME NEW r, NEW i
  PROVE  Removable(r, i) \in SUBSET entries /\ OwnedBy(r) \in SUBSET entries
  BY DEF Removable, OwnedBy

(* Every step of a call keeps the types. *)
LEMMA CallTypes ==
  ASSUME RealmTypeOK, NEW c \in Calls,
         CallStep(c) \/ DispatchAllocate(c) \/ DispatchFails(c)
  PROVE  RealmTypeOK'
  <1> USE DEF registryVars, resourceVars, callVars, jsVars
  <1>1. CASE Request(c)
    <2>1. realm[c] \in Realms /\ active[realm[c]] \cup {c} \in SUBSET Calls
      BY DEF RealmTypeOK
    <2>2. active' \in [Realms -> SUBSET Calls]
      BY <1>1, <2>1, UpdateSet DEF Request, RealmTypeOK
    <2> QED BY <1>1, <2>2, GotoTypes DEF Request, RealmTypeOK
  <1>2. CASE DispatchAborted(c)
    BY <1>2, GotoTypes DEF DispatchAborted, RealmTypeOK
  <1>3. CASE DispatchAllocate(c)
    <2>1. FollowingId \in Ids
      BY IdAssumption DEF FollowingId, Ids, RealmTypeOK
    <2> QED BY <1>3, <2>1, GotoTypes DEF DispatchAllocate, RealmTypeOK
  <1>4. CASE DispatchInsert(c)
    <2>1. entries' \subseteq [id : Ids, owner : Realms,
                              kind : {"Operation", "Other"}]
      BY <1>4 DEF DispatchInsert, RealmTypeOK
    <2> QED BY <1>4, <2>1, GotoTypes DEF DispatchInsert, RealmTypeOK
  <1>5. CASE DispatchDrop(c)
    BY <1>5, GotoTypes, TakeOutTypes, SelectionsAreEntries
    DEF DispatchDrop, RealmTypeOK
  <1>6. CASE DispatchDropClose(c)
    BY <1>6, GotoTypes, CloseTakenTypes DEF DispatchDropClose, RealmTypeOK
  <1>7. CASE Remember(c)
    <2>0. /\ realm[c] \in Realms
          /\ operations[realm[c]] \in SUBSET (Ids \X Calls)
          /\ operations[realm[c]] \cup {<<id[c], c>>} \in SUBSET (Ids \X Calls)
      BY DEF RealmTypeOK
    <2>1. operations' \in [Realms -> SUBSET (Ids \X Calls)]
      <3> DEFINE grown == operations[realm[c]] \cup {<<id[c], c>>}
      <3>1. \/ UNCHANGED operations
            \/ operations' = [operations EXCEPT ![realm[c]] = grown]
            \/ operations' = [operations EXCEPT ![realm[c]] = operations[realm[c]]]
        BY <1>7 DEF Remember
      <3>2. operations \in [Realms -> SUBSET (Ids \X Calls)]
        BY DEF RealmTypeOK
      <3>3. grown \in SUBSET (Ids \X Calls)
        BY <2>0
      <3> HIDE DEF grown
      <3> QED BY <2>0, <3>1, <3>2, <3>3
    <2> QED BY <1>7, <2>1, GotoTypes DEF Remember, RealmTypeOK
  <1>8. CASE RememberRelease(c)
    BY <1>8, GotoTypes, TakeOutTypes, SelectionsAreEntries
    DEF RememberRelease, RealmTypeOK
  <1>9. CASE RememberClose(c)
    BY <1>9, GotoTypes, CloseTakenTypes DEF RememberClose, RealmTypeOK
  <1>10. CASE Forget(c)
    <2>1. /\ operations' \in [Realms -> SUBSET (Ids \X Calls)]
          /\ signal' \in [Calls -> {"quiet", "aborted"}]
      BY <1>10 DEF Forget, ForgetSignal, RealmTypeOK
    <2> QED BY <1>10, <2>1, GotoTypes DEF Forget, RealmTypeOK
  <1>11. CASE Finish(c)
    <2>1. returned' \in [Realms -> SUBSET Ids]
      BY <1>11 DEF Finish, RealmTypeOK
    <2> QED BY <1>11, <2>1, GotoTypes DEF Finish, RealmTypeOK
  <1>12. CASE DispatchFails(c)
    BY <1>12, GotoTypes DEF DispatchFails, RealmTypeOK
  <1> QED BY <1>1, <1>2, <1>3, <1>4, <1>5, <1>6, <1>7, <1>8, <1>9, <1>10,
             <1>11, <1>12 DEF CallStep

(* So does every step of the JavaScript thread. *)
LEMMA JsTypes ==
  ASSUME RealmTypeOK, NEW r \in Realms,
         \/ \E i \in 1 .. IdMax : DropHandle(r, i)
         \/ Cleanup(r) \/ JsStep(r)
  PROVE  RealmTypeOK'
  <1> USE DEF registryVars, resourceVars, callVars, jsVars, Js
  <1>1. ASSUME NEW i \in 1 .. IdMax, DropHandle(r, i)
        PROVE  RealmTypeOK'
    <2>1. i \in Ids /\ drops[r] \cup {i} \in SUBSET Ids
      BY IdAssumption DEF Ids, RealmTypeOK
    <2>2. drops' \in [Realms -> SUBSET Ids]
      BY <1>1, <2>1, UpdateSet DEF DropHandle, RealmTypeOK
    <2> QED BY <1>1, <2>1, <2>2, TakeOutTypes, SelectionsAreEntries
            DEF DropHandle, RealmTypeOK
  <1>2. CASE DropHandleSignal(r)
    <2>1. /\ operations' \in [Realms -> SUBSET (Ids \X Calls)]
          /\ signal' \in [Calls -> {"quiet", "aborted"}]
      BY <1>2 DEF DropHandleSignal, ForgetSignal, RealmTypeOK
    <2> QED BY <1>2, <2>1 DEF DropHandleSignal, RealmTypeOK
  <1>3. CASE DropHandleClose(r)
    BY <1>3, CloseTakenTypes DEF DropHandleClose, RealmTypeOK
  <1>4. CASE Cleanup(r)
    <2>1. active[r] \cup {k[2] : k \in operations[r]} \in SUBSET Calls
      BY DEF RealmTypeOK
    <2>2. /\ taken' \in [Realms -> SUBSET Calls]
          /\ active' \in [Realms -> SUBSET Calls]
          /\ operations' \in [Realms -> SUBSET (Ids \X Calls)]
      BY <1>4, <2>1, UpdateSet DEF Cleanup, RealmTypeOK
    <2> QED BY <1>4, <2>2 DEF Cleanup, RealmTypeOK
  <1>5. CASE CleanupAbort(r)
    BY <1>5 DEF CleanupAbort, RealmTypeOK
  <1>6. CASE CleanupRelease(r)
    BY <1>6, TakeOutTypes, SelectionsAreEntries DEF CleanupRelease, RealmTypeOK
  <1>7. CASE CleanupClose(r)
    BY <1>7, CloseTakenTypes DEF CleanupClose, RealmTypeOK
  <1> QED BY <1>1, <1>2, <1>3, <1>4, <1>5, <1>6, <1>7 DEF JsStep

LEMMA SpawnTypes ==
  ASSUME RealmTypeOK, NEW c \in Calls, NEW t \in Tasks, NEW i \in 0 .. IdMax,
         Spawn(c, t, i)
  PROVE  RealmTypeOK'
  <1> USE DEF registryVars, resourceVars, jsVars
  <1>1. realm[c] \in Realms /\ i \in Ids /\ t \in {"start", "create", "drop"}
    BY RealmAssumption DEF RealmTypeOK, Ids
  <1>2. drops[realm[c]] \in SUBSET Ids /\ drops[realm[c]] \cup {i} \in SUBSET Ids
    BY <1>1 DEF RealmTypeOK
  <1>3. drops' \in [Realms -> SUBSET Ids]
    BY <1>1, <1>2, UpdateSet DEF Spawn, RealmTypeOK
  <1> QED BY <1>1, <1>3, GotoTypes DEF Spawn, RealmTypeOK

(* Every reachable state is well typed. *)
THEOREM RealmTypeCorrect == RealmSpec => []RealmTypeOK
  <1>1. RealmInit => RealmTypeOK
    BY IdAssumption DEF RealmInit, RegistryInit, RealmTypeOK, Ids
  <1>2. RealmTypeOK /\ [RealmNext]_realmVars => RealmTypeOK'
    <2> SUFFICES ASSUME RealmTypeOK, [RealmNext]_realmVars PROVE RealmTypeOK'
      OBVIOUS
    <2>1. CASE RealmNext
      <3>1. ASSUME NEW c \in Calls, UserAbort(c) PROVE RealmTypeOK'
        BY <3>1 DEF UserAbort, registryVars, resourceVars, callVars, jsVars,
          RealmTypeOK
      <3> QED BY <2>1, <3>1, CallTypes, JsTypes, SpawnTypes DEF RealmNext
    <2>2. CASE UNCHANGED realmVars
      BY <2>2 DEF realmVars, registryVars, resourceVars, callVars, jsVars,
        RealmTypeOK
    <2> QED BY <2>1, <2>2
  <1> QED BY <1>1, <1>2, PTL DEF RealmSpec

-----------------------------------------------------------------------------
(* Teardown *)

(* A realm is closed from the first step of its cleanup on. *)
ClosedByCleanup ==
  \A r \in Realms :
    js[r] \in {"abort", "release", "closeall", "down"} => closed[r] = "yes"

LEMMA ClosedStep ==
  ASSUME RealmTypeOK, ClosedByCleanup, RealmNext
  PROVE  ClosedByCleanup'
  <1> USE DEF ClosedByCleanup, registryVars, resourceVars, callVars, jsVars, Js,
              RealmTypeOK
  <1>1. ASSUME NEW c \in Calls,
               \/ \E t \in Tasks, i \in 0 .. IdMax : Spawn(c, t, i)
               \/ CallStep(c) \/ DispatchAllocate(c) \/ DispatchFails(c)
               \/ UserAbort(c)
        PROVE  UNCHANGED <<js, closed>>
    BY <1>1 DEF Spawn, CallStep, DispatchAllocate, DispatchFails, UserAbort, Request,
      DispatchAborted, DispatchInsert, DispatchDrop, DispatchDropClose,
      Remember, RememberRelease, RememberClose, Forget, Finish
  <1>2. ASSUME NEW r \in Realms, Cleanup(r) PROVE ClosedByCleanup'
    BY <1>2 DEF Cleanup
  <1>3. ASSUME NEW r \in Realms,
               (\E i \in 1 .. IdMax : DropHandle(r, i)) \/ JsStep(r)
        PROVE  ClosedByCleanup'
    BY <1>3 DEF DropHandle, JsStep, DropHandleSignal, DropHandleClose,
      CleanupAbort, CleanupRelease, CleanupClose
  <1> QED BY <1>1, <1>2, <1>3 DEF RealmNext

(* The entries only grow by an insert, which a remember follows; and once *)
(* the cleanup released the owner, only a call that has still to release  *)
(* again can leave that point.                                            *)
LEMMA TeardownStep ==
  ASSUME RealmTypeOK, ClosedByCleanup, TeardownIsComplete, RealmNext
  PROVE  TeardownIsComplete'
  <1> USE DEF registryVars, resourceVars, callVars, jsVars
  <1>0. ClosedByCleanup'
    BY ClosedStep
  <1>1. ASSUME NEW c \in Calls,
               \/ \E t \in Tasks, i \in 0 .. IdMax : Spawn(c, t, i)
               \/ Request(c) \/ DispatchAborted(c) \/ DispatchAllocate(c)
               \/ DispatchFails(c) \/ DispatchDrop(c) \/ DispatchDropClose(c)
               \/ RememberClose(c) \/ Forget(c) \/ Finish(c) \/ UserAbort(c)
        PROVE  TeardownIsComplete'
    <2>1. entries' \subseteq entries /\ UNCHANGED <<js, realm>>
      BY <1>1 DEF Spawn, Request, DispatchAborted, DispatchAllocate, DispatchFails,
        DispatchDrop, DispatchDropClose, RememberClose, Forget, Finish,
        UserAbort, TakeOut, CloseTaken
    <2>2. \A d \in Calls : pc[d] \in {"remember", "release"} => pc'[d] = pc[d]
      BY <1>1 DEF Spawn, Request, DispatchAborted, DispatchAllocate, DispatchFails,
        DispatchDrop, DispatchDropClose, RememberClose, Forget, Finish,
        UserAbort, Goto, RealmTypeOK
    <2> QED BY <2>1, <2>2 DEF TeardownIsComplete, OwnedBy
  <1>2. ASSUME NEW c \in Calls, DispatchInsert(c)
        PROVE  TeardownIsComplete'
    <2>1. /\ UNCHANGED <<js, realm>> /\ pc' = [pc EXCEPT ![c] = "remember"]
          /\ \A e \in entries' : e \in entries \/ e.owner = realm[c]
      BY <1>2 DEF DispatchInsert, Goto
    <2> QED BY <1>2, <2>1 DEF DispatchInsert, TeardownIsComplete, OwnedBy,
               RealmTypeOK
  <1>3. ASSUME NEW c \in Calls, Remember(c)
        PROVE  TeardownIsComplete'
    <2>1. UNCHANGED <<entries, js, realm, closed>>
      BY <1>3 DEF Remember
    <2>2. CASE RememberSeesClosed(c)
      <3>1. pc' = [pc EXCEPT ![c] = "release"]
        BY <1>3, <2>2 DEF Remember, Goto
      <3> QED BY <2>1, <3>1 DEF TeardownIsComplete, OwnedBy, RealmTypeOK
    <2>3. CASE ~RememberSeesClosed(c)
      <3>1. pc' = [pc EXCEPT ![c] = "forget"] /\ closed[realm[c]] # "yes"
        BY <1>3, <2>3 DEF Remember, Goto, RememberSeesClosed
      <3>2. js[realm[c]] \notin {"closeall", "down"} /\ realm[c] \in Realms
        BY <3>1 DEF ClosedByCleanup, RealmTypeOK
      <3> QED BY <2>1, <3>1, <3>2 DEF TeardownIsComplete, OwnedBy, RealmTypeOK
    <2> QED BY <2>2, <2>3
  <1>4. ASSUME NEW c \in Calls, RememberRelease(c)
        PROVE  TeardownIsComplete'
    <2>1. /\ UNCHANGED <<js, realm>> /\ pc' = [pc EXCEPT ![c] = "closeall"]
          /\ entries' = entries \ OwnedBy(realm[c])
      BY <1>4 DEF RememberRelease, TakeOut, Goto
    <2> QED BY <2>1 DEF TeardownIsComplete, OwnedBy, RealmTypeOK
  <1>5. ASSUME NEW r \in Realms, CleanupRelease(r)
        PROVE  TeardownIsComplete'
    <2>1. /\ UNCHANGED <<pc, realm>> /\ js' = [js EXCEPT ![r] = "closeall"]
          /\ entries' = entries \ OwnedBy(r)
      BY <1>5 DEF CleanupRelease, TakeOut, Js
    <2> QED BY <2>1 DEF TeardownIsComplete, OwnedBy, RealmTypeOK
  <1>6. ASSUME NEW r \in Realms,
               \/ \E i \in 1 .. IdMax : DropHandle(r, i)
               \/ DropHandleSignal(r) \/ DropHandleClose(r) \/ Cleanup(r)
               \/ CleanupAbort(r) \/ CleanupClose(r)
        PROVE  TeardownIsComplete'
    <2>1. UNCHANGED <<pc, realm>> /\ entries' \subseteq entries
      BY <1>6 DEF DropHandle, DropHandleSignal, DropHandleClose, Cleanup,
        CleanupAbort, CleanupClose, TakeOut, CloseTaken
    <2>2. \A q \in Realms : js'[q] \in {"closeall", "down"} =>
                             js[q] \in {"closeall", "down"}
      BY <1>6 DEF DropHandle, DropHandleSignal, DropHandleClose, Cleanup,
        CleanupAbort, CleanupClose, Js, RealmTypeOK
    <2> QED BY <2>1, <2>2 DEF TeardownIsComplete, OwnedBy
  <1> QED BY <1>1, <1>2, <1>3, <1>4, <1>5, <1>6 DEF RealmNext, CallStep, JsStep

(* An environment that was torn down owns no handle once its calls are    *)
(* over, for any number of environments and calls.                        *)
THEOREM TeardownLeavesNothing == RealmSpec => []TeardownIsComplete
  <1>1. RealmInit => ClosedByCleanup /\ TeardownIsComplete
    BY DEF RealmInit, ClosedByCleanup, TeardownIsComplete
  <1>2. RealmTypeOK /\ ClosedByCleanup /\ TeardownIsComplete
          /\ [RealmNext]_realmVars => (ClosedByCleanup /\ TeardownIsComplete)'
    <2> SUFFICES ASSUME RealmTypeOK, ClosedByCleanup, TeardownIsComplete,
                        [RealmNext]_realmVars
                 PROVE  (ClosedByCleanup /\ TeardownIsComplete)'
      OBVIOUS
    <2>1. CASE UNCHANGED realmVars
      BY <2>1 DEF realmVars, registryVars, resourceVars, callVars, jsVars,
        ClosedByCleanup, TeardownIsComplete, OwnedBy
    <2> QED BY <2>1, ClosedStep, TeardownStep
  <1> QED BY <1>1, <1>2, RealmTypeCorrect, PTL DEF RealmSpec

-----------------------------------------------------------------------------
(* Handle ids *)

InsertsAllocated ==
  \A c \in Calls : pc[c] = "insert" => task[c] # "drop" /\ id[c] # 0

(* Only an allocation, an insert and a new call touch ids or entries. *)
LEMMA IdWriters ==
  ASSUME RealmTypeOK, RealmNext
  PROVE  \/ \E c \in Calls : DispatchAllocate(c) \/ DispatchInsert(c)
         \/ \E c \in Calls, t \in Tasks, i \in 0 .. IdMax : Spawn(c, t, i)
         \/ /\ UNCHANGED <<id, task, next_id>> /\ entries' \subseteq entries
            /\ \A c \in Calls : pc'[c] = "insert" => pc[c] = "insert"
  <1> USE DEF registryVars, resourceVars, callVars, jsVars
  <1>1. ASSUME NEW c \in Calls, ~DispatchInsert(c),
               CallStep(c) \/ DispatchFails(c) \/ UserAbort(c)
        PROVE  /\ UNCHANGED <<id, task, next_id>> /\ entries' \subseteq entries
               /\ \A d \in Calls : pc'[d] = "insert" => pc[d] = "insert"
    BY <1>1 DEF CallStep, DispatchFails, UserAbort, Request, DispatchAborted, DispatchDrop,
      DispatchDropClose, Remember, RememberRelease, RememberClose, Forget,
      Finish, TakeOut, CloseTaken, Goto, RealmTypeOK
  <1>2. ASSUME NEW r \in Realms,
               \/ \E i \in 1 .. IdMax : DropHandle(r, i)
               \/ Cleanup(r) \/ JsStep(r)
        PROVE  UNCHANGED <<id, task, next_id, pc>> /\ entries' \subseteq entries
    BY <1>2 DEF JsStep, DropHandle, DropHandleSignal, DropHandleClose, Cleanup,
      CleanupAbort, CleanupRelease, CleanupClose, TakeOut, CloseTaken
  <1> QED BY <1>1, <1>2 DEF RealmNext

LEMMA IdsStep ==
  ASSUME RealmTypeOK, IdsAreUnique, InsertsAllocated, RealmNext
  PROVE  IdsAreUnique' /\ InsertsAllocated'
  <1> USE DEF registryVars, resourceVars, callVars, jsVars
  <1>0. /\ next_id \in Nat /\ id \in [Calls -> Nat]
        /\ \A e \in entries : e.id \in Nat
    BY IdAssumption DEF RealmTypeOK, Ids
  <1>1. ASSUME NEW c \in Calls, DispatchAllocate(c)
        PROVE  IdsAreUnique' /\ InsertsAllocated'
    <2>1. CASE next_id = 0
      <3>1. /\ UNCHANGED <<id, task, next_id, entries>>
            /\ pc' = [pc EXCEPT ![c] = "finish"]
        BY <1>1, <2>1 DEF DispatchAllocate, Goto
      <3> QED BY <3>1 DEF IdsAreUnique, InsertsAllocated, RealmTypeOK
    <2>2. CASE next_id # 0
      <3>1. /\ id' = [id EXCEPT ![c] = next_id]
            /\ UNCHANGED <<task, entries>> /\ task[c] # "drop"
            /\ pc' = [pc EXCEPT ![c] = "insert"]
            /\ next_id' = 0 \/ next_id' = next_id + 1
        BY <1>1, <2>2 DEF DispatchAllocate, Goto, FollowingId
      <3>2. InsertsAllocated'
        BY <2>2, <3>1 DEF InsertsAllocated, RealmTypeOK
      <3>3. \A d \in Calls : id'[d] = IF d = c THEN next_id ELSE id[d]
        BY <1>0, <3>1
      <3>4. \A d \in Calls : task[d] # "drop" /\ d # c => id[d] # next_id
        BY <1>0, <2>2 DEF IdsAreUnique
      <3> QED BY <1>0, <2>2, <3>1, <3>2, <3>3, <3>4 DEF IdsAreUnique
    <2> QED BY <2>1, <2>2
  <1>2. ASSUME NEW c \in Calls, DispatchInsert(c)
        PROVE  IdsAreUnique' /\ InsertsAllocated'
    <2>1. /\ UNCHANGED <<id, task, next_id>>
          /\ pc' = [pc EXCEPT ![c] = "remember"] /\ pc[c] = "insert"
          /\ \A e \in entries' : e \in entries \/ e.id = id[c]
      BY <1>2 DEF DispatchInsert, Goto
    <2> QED BY <2>1 DEF IdsAreUnique, InsertsAllocated, RealmTypeOK
  <1>3. ASSUME NEW c \in Calls, NEW t \in Tasks, NEW i \in 0 .. IdMax,
               Spawn(c, t, i)
        PROVE  IdsAreUnique' /\ InsertsAllocated'
    <2>1. /\ UNCHANGED <<next_id, entries>>
          /\ id' = [id EXCEPT ![c] = i] /\ task' = [task EXCEPT ![c] = t]
          /\ pc' = [pc EXCEPT ![c] = "request"] /\ (t # "drop" => i = 0)
      BY <1>3 DEF Spawn, Goto
    <2>2. \A d \in Calls : id'[d] = IF d = c THEN i ELSE id[d]
      BY <1>0, <2>1
    <2>3. \A d \in Calls : task'[d] = IF d = c THEN t ELSE task[d]
      <3>1. task \in [Calls -> {"start", "create", "drop"}] BY DEF RealmTypeOK
      <3> QED BY <2>1, <3>1
    <2>4. \A d \in Calls : pc'[d] = "insert" => d # c /\ pc[d] = "insert"
      BY <2>1 DEF RealmTypeOK
    <2>5. IdsAreUnique'
      <3>1. ASSUME NEW a \in Calls, task'[a] # "drop", id'[a] # 0
            PROVE  /\ a # c /\ task[a] # "drop" /\ id[a] # 0
                   /\ id'[a] = id[a]
        BY <2>1, <2>2, <2>3, <3>1
      <3>2. ASSUME NEW a \in Calls, task'[a] # "drop", id'[a] # 0,
                   NEW d \in Calls \ {a}, task'[d] # "drop"
            PROVE  id'[d] # id'[a]
        <4>1. CASE d = c
          BY <2>1, <2>2, <2>3, <3>2, <4>1
        <4>2. CASE d # c
          <5>1. id'[d] = id[d] /\ task[d] # "drop" BY <2>2, <2>3, <3>2, <4>2
          <5> QED BY <3>1, <3>2, <5>1 DEF IdsAreUnique
        <4> QED BY <4>1, <4>2
      <3> QED BY <2>1, <3>1, <3>2 DEF IdsAreUnique
    <2>6. InsertsAllocated'
      BY <2>2, <2>3, <2>4 DEF InsertsAllocated
    <2> QED BY <2>5, <2>6
  <1>4. CASE /\ UNCHANGED <<id, task, next_id>> /\ entries' \subseteq entries
             /\ \A c \in Calls : pc'[c] = "insert" => pc[c] = "insert"
    BY <1>4 DEF IdsAreUnique, InsertsAllocated
  <1> QED BY <1>1, <1>2, <1>3, <1>4, IdWriters

(* No handle id is ever given twice, and the exhausted allocator stays    *)
(* exhausted, for any number of calls and any id width.                   *)
THEOREM HandleIdsAreUnique == RealmSpec => []IdsAreUnique
  <1>1. RealmInit => IdsAreUnique /\ InsertsAllocated
    BY DEF RealmInit, RegistryInit, IdsAreUnique, InsertsAllocated
  <1>2. RealmTypeOK /\ IdsAreUnique /\ InsertsAllocated
          /\ [RealmNext]_realmVars => (IdsAreUnique /\ InsertsAllocated)'
    <2> SUFFICES ASSUME RealmTypeOK, IdsAreUnique, InsertsAllocated,
                        [RealmNext]_realmVars
                 PROVE  (IdsAreUnique /\ InsertsAllocated)'
      OBVIOUS
    <2>1. CASE UNCHANGED realmVars
      BY <2>1 DEF realmVars, registryVars, callVars, IdsAreUnique,
        InsertsAllocated
    <2> QED BY <2>1, IdsStep
  <1> QED BY <1>1, <1>2, RealmTypeCorrect, PTL DEF RealmSpec

-----------------------------------------------------------------------------
(* Handles, their operations and the signals kept for them *)

(* A drop is recorded before it takes effect. *)
DropsAreRecorded ==
  /\ \A c \in Calls : task[c] = "drop" /\ pc[c] # "idle" =>
       id[c] \in drops[realm[c]]
  /\ \A c \in Calls : pc[c] = "close" => task[c] = "drop"
  /\ \A r \in Realms : js[r] = "dropsignal" => js_id[r] \in drops[r]

(* Only a call that outlived its environment's cleanup releases again. *)
LateCallsAreClosed ==
  \A c \in Calls : pc[c] \in {"release", "closeall"} => closed[realm[c]] = "yes"

(* JavaScript knows the ids that calls returned to it. *)
ReturnedByCalls ==
  \A r \in Realms : \A i \in returned[r] :
    \E c \in Calls : /\ realm[c] = r /\ task[c] # "drop" /\ pc[c] = "returned"
                     /\ id[c] = i

(* What a call that creates a handle inserts. *)
EntryOf(c) == [id |-> id[c], owner |-> realm[c],
               kind |-> IF task[c] = "start" THEN "Operation" ELSE "Other"]

CreatedAreLive ==
  \A c \in Calls :
    /\ task[c] # "drop" /\ pc[c] \in {"remember", "forget", "done", "returned"}
    /\ closed[realm[c]] = "no" /\ id[c] \notin drops[realm[c]]
    => EntryOf(c) \in entries

(* Nothing waits to be closed except between a removal and its close. *)
NothingLeftToClose ==
  /\ \A c \in Calls : pc[c] \notin {"close", "closeall"} => removed[c] = {}
  /\ \A r \in Realms : js[r] \notin {"dropsignal", "dropclose", "closeall"}
       => removed[r] = {}

Created(c) == pc[c] \in {"remember", "release", "closeall", "forget", "done",
                         "returned"}

OperationsAreOwned ==
  \A c \in Calls : task[c] = "start" /\ Created(c) =>
    \/ \E e \in entries : e.id = id[c] /\ e.kind = "Operation"
    \/ id[c] \in consumer_closed
    \/ \E p \in Calls \cup Realms : id[c] \in removed[p]

StartedAreKept ==
  \A c \in Calls :
    /\ task[c] = "start" /\ pc[c] \in {"forget", "done", "returned"}
    /\ closed[realm[c]] = "no" /\ id[c] \notin drops[realm[c]]
    => <<id[c], c>> \in operations[realm[c]]

(* A drop that took the handle out and has yet to forget its signal. *)
Forgetting(r, i) ==
  \/ js[r] = "dropsignal" /\ js_id[r] = i
  \/ \E c \in Calls : /\ realm[c] = r /\ task[c] = "drop" /\ id[c] = i
                      /\ pc[c] \in {"close", "remember", "forget"}

KeptAreLive ==
  \A r \in Realms : closed[r] = "no" =>
    \A k \in operations[r] :
      (\E e \in OwnedBy(r) : e.id = k[1]) \/ Forgetting(r, k[1])

LEMMA DropsStep ==
  ASSUME RealmTypeOK, DropsAreRecorded, RealmNext
  PROVE  DropsAreRecorded'
  <1> USE DEF registryVars, resourceVars, callVars, jsVars, RealmTypeOK,
              DropsAreRecorded, Goto, Js
  <1>1. ASSUME NEW c \in Calls, NEW t \in Tasks, NEW i \in 0 .. IdMax, Spawn(c, t, i)
        PROVE  DropsAreRecorded'
    BY <1>1, RealmAssumption DEF Spawn
  <1>2. ASSUME NEW c \in Calls, DispatchAllocate(c)
        PROVE  DropsAreRecorded'
    BY <1>2 DEF DispatchAllocate
  <1>3. ASSUME NEW c \in Calls, CallStep(c) \/ DispatchFails(c) \/ UserAbort(c)
        PROVE  DropsAreRecorded'
    <2>1. /\ UNCHANGED <<realm, task, id, drops, js, js_id>>
          /\ \A d \in Calls : pc'[d] # "idle" => pc[d] # "idle"
          /\ \A d \in Calls : pc'[d] = "close" => pc[d] = "close" \/ task[d] = "drop"
      BY <1>3 DEF CallStep, DispatchFails, UserAbort, Request, DispatchAborted,
        DispatchInsert, DispatchDrop, DispatchDropClose, Remember,
        RememberRelease, RememberClose, Forget, Finish
    <2> QED BY <2>1
  <1>4. ASSUME NEW r \in Realms, NEW i \in 1 .. IdMax, DropHandle(r, i)
        PROVE  DropsAreRecorded'
    <2>1. /\ UNCHANGED <<realm, task, id, pc>>
          /\ js_id' = [js_id EXCEPT ![r] = i] /\ js' = [js EXCEPT ![r] = "dropsignal"]
          /\ drops' = [drops EXCEPT ![r] = drops[r] \cup {i}]
      BY <1>4 DEF DropHandle
    <2>2. \A q \in Realms : drops[q] \subseteq drops'[q]
      BY <2>1
    <2>3. \A q \in Realms : js'[q] = "dropsignal" => js_id'[q] \in drops'[q]
      BY <2>1
    <2>4. \A c \in Calls : realm[c] \in Realms
      OBVIOUS
    <2>5. \A c \in Calls : task[c] = "drop" /\ pc[c] # "idle" =>
            id[c] \in drops'[realm[c]]
      BY <2>2, <2>4
    <2> HIDE DEF RealmTypeOK
    <2> QED BY <2>1, <2>3, <2>5
  <1>5. ASSUME NEW r \in Realms, Cleanup(r) \/ JsStep(r)
        PROVE  DropsAreRecorded'
    BY <1>5 DEF JsStep, DropHandleSignal, DropHandleClose, Cleanup,
      CleanupAbort, CleanupRelease, CleanupClose
  <1> QED BY <1>1, <1>2, <1>3, <1>4, <1>5 DEF RealmNext

LEMMA LateStep ==
  ASSUME RealmTypeOK, LateCallsAreClosed, RealmNext
  PROVE  LateCallsAreClosed'
  <1> USE DEF registryVars, resourceVars, callVars, jsVars, RealmTypeOK,
              LateCallsAreClosed, Goto, Js
  <1>1. ASSUME NEW c \in Calls,
               \/ \E t \in Tasks, i \in 0 .. IdMax : Spawn(c, t, i)
               \/ CallStep(c) \/ DispatchAllocate(c) \/ DispatchFails(c)
               \/ UserAbort(c)
        PROVE  LateCallsAreClosed'
    <2>1. /\ UNCHANGED <<realm, closed>>
          /\ \A d \in Calls : pc'[d] \in {"release", "closeall"} =>
               pc[d] \in {"release", "closeall"} \/ closed[realm[d]] = "yes"
      BY <1>1 DEF Spawn, CallStep, DispatchAllocate, DispatchFails, UserAbort,
        Request, DispatchAborted, DispatchInsert, DispatchDrop,
        DispatchDropClose, Remember, RememberSeesClosed, RememberRelease,
        RememberClose, Forget, Finish
    <2> QED BY <2>1
  <1>2. ASSUME NEW r \in Realms,
               \/ \E i \in 1 .. IdMax : DropHandle(r, i)
               \/ Cleanup(r) \/ JsStep(r)
        PROVE  LateCallsAreClosed'
    BY <1>2 DEF JsStep, DropHandle, DropHandleSignal, DropHandleClose, Cleanup,
      CleanupAbort, CleanupRelease, CleanupClose
  <1> QED BY <1>1, <1>2 DEF RealmNext

LEMMA ReturnedStep ==
  ASSUME RealmTypeOK, ReturnedByCalls, RealmNext
  PROVE  ReturnedByCalls'
  <1> USE DEF registryVars, resourceVars, callVars, jsVars, RealmTypeOK, Goto
  <1>1. ASSUME NEW c \in Calls, NEW t \in Tasks, NEW i \in 0 .. IdMax, Spawn(c, t, i)
        PROVE  ReturnedByCalls'
    <2>1. /\ UNCHANGED <<realm, returned>> /\ pc[c] = "idle"
          /\ \A d \in Calls \ {c} : UNCHANGED <<task[d], id[d], pc[d]>>
      BY <1>1 DEF Spawn
    <2> QED BY <2>1 DEF ReturnedByCalls
  <1>2. ASSUME NEW c \in Calls, Finish(c)
        PROVE  ReturnedByCalls'
    <2>1. /\ UNCHANGED <<realm, task, id>> /\ pc[c] # "returned"
          /\ \A d \in Calls \ {c} : pc'[d] = pc[d]
          /\ \A r \in Realms : \A i \in returned'[r] :
               \/ i \in returned[r]
               \/ r = realm[c] /\ i = id[c] /\ task[c] # "drop" /\ pc'[c] = "returned"
      BY <1>2 DEF Finish
    <2> SUFFICES ASSUME NEW r \in Realms, NEW i \in returned'[r]
                 PROVE  \E d \in Calls : /\ realm[d] = r /\ task[d] # "drop"
                                         /\ pc'[d] = "returned" /\ id[d] = i
      BY <2>1 DEF ReturnedByCalls
    <2>2. CASE i \in returned[r]
      <3>1. PICK d \in Calls : /\ realm[d] = r /\ task[d] # "drop"
                               /\ pc[d] = "returned" /\ id[d] = i
        BY <2>2 DEF ReturnedByCalls
      <3>2. d # c
        BY <2>1, <3>1
      <3> HIDE DEF RealmTypeOK
      <3> QED BY <2>1, <3>1, <3>2
    <2>3. CASE r = realm[c] /\ i = id[c] /\ task[c] # "drop" /\ pc'[c] = "returned"
      BY <2>3
    <2> QED BY <2>1, <2>2, <2>3
  <1>3. ASSUME NEW c \in Calls, ~Finish(c),
               \/ CallStep(c) \/ DispatchAllocate(c) \/ DispatchFails(c)
               \/ UserAbort(c)
        PROVE  ReturnedByCalls'
    <2>1. /\ UNCHANGED <<realm, task, returned>>
          /\ \A d \in Calls : pc[d] = "returned" =>
               pc'[d] = "returned" /\ id'[d] = id[d]
      BY <1>3 DEF CallStep, DispatchAllocate, DispatchFails, UserAbort,
        Request, DispatchAborted, DispatchInsert, DispatchDrop,
        DispatchDropClose, Remember, RememberRelease, RememberClose, Forget
    <2> QED BY <2>1 DEF ReturnedByCalls
  <1>4. ASSUME NEW r \in Realms,
               \/ \E i \in 1 .. IdMax : DropHandle(r, i)
               \/ Cleanup(r) \/ JsStep(r)
        PROVE  ReturnedByCalls'
    <2>1. UNCHANGED <<realm, task, id, pc, returned>>
      BY <1>4 DEF JsStep, DropHandle, DropHandleSignal, DropHandleClose, Cleanup,
        CleanupAbort, CleanupRelease, CleanupClose
    <2> QED BY <2>1 DEF ReturnedByCalls
  <1> QED BY <1>1, <1>2, <1>3, <1>4 DEF RealmNext

-----------------------------------------------------------------------------
(* What a step does to calls, entries, operations and removals *)

(* A created call keeps its task, id and realm; only an insert creates. *)
LEMMA CreatedProgress ==
  ASSUME RealmTypeOK, DropsAreRecorded, RealmNext, NEW d \in Calls,
         task'[d] # "drop", Created(d)'
  PROVE  /\ UNCHANGED <<realm, task[d], id[d]>>
         /\ Created(d) \/ DispatchInsert(d)
  <1> USE DEF registryVars, resourceVars, callVars, jsVars, RealmTypeOK, Goto,
              Created
  <1>1. ASSUME NEW c \in Calls,
               \/ \E t \in Tasks, i \in 0 .. IdMax : Spawn(c, t, i)
               \/ DispatchAllocate(c)
        PROVE  /\ UNCHANGED <<realm, task[d], id[d]>> /\ Created(d)
    BY <1>1 DEF Spawn, DispatchAllocate
  <1>2. ASSUME NEW c \in Calls,
               CallStep(c) \/ DispatchFails(c) \/ UserAbort(c)
        PROVE  /\ UNCHANGED <<realm, task[d], id[d]>>
               /\ Created(d) \/ DispatchInsert(d)
    <2>1. UNCHANGED <<realm, task, id>>
      BY <1>2 DEF CallStep, DispatchFails, UserAbort, Request, DispatchAborted,
        DispatchInsert, DispatchDrop, DispatchDropClose, Remember,
        RememberRelease, RememberClose, Forget, Finish
    <2>2. CASE DispatchDropClose(c)
      BY <2>1, <2>2 DEF DispatchDropClose, DropsAreRecorded
    <2>3. CASE ~DispatchDropClose(c) /\ ~DispatchInsert(d)
      <3>1. \A e \in Calls : Created(e)' => Created(e) \/ DispatchInsert(e)
        BY <1>2, <2>3 DEF CallStep, DispatchFails, UserAbort, Request,
          DispatchAborted, DispatchInsert, DispatchDrop, Remember,
          RememberRelease, RememberClose, Forget, Finish
      <3> QED BY <2>1, <3>1
    <2> QED BY <2>1, <2>2, <2>3
  <1>3. ASSUME NEW r \in Realms,
               \/ \E i \in 1 .. IdMax : DropHandle(r, i)
               \/ Cleanup(r) \/ JsStep(r)
        PROVE  /\ UNCHANGED <<realm, task[d], id[d]>> /\ Created(d)
    <2>1. UNCHANGED <<realm, task, id, pc>>
      BY <1>3 DEF JsStep, DropHandle, DropHandleSignal, DropHandleClose, Cleanup,
        CleanupAbort, CleanupRelease, CleanupClose
    <2> QED BY <2>1
  <1> QED BY <1>1, <1>2, <1>3 DEF RealmNext

(* The records of drops and of closed realms only grow. *)
LEMMA OnlyGrow ==
  ASSUME RealmTypeOK, RealmNext, NEW r \in Realms
  PROVE  /\ drops[r] \subseteq drops'[r]
         /\ closed'[r] = "no" => closed[r] = "no"
  <1> USE DEF registryVars, resourceVars, callVars, jsVars, RealmTypeOK
  <1>1. ASSUME NEW c \in Calls, NEW t \in Tasks, NEW i \in 0 .. IdMax, Spawn(c, t, i)
        PROVE  UNCHANGED closed /\ drops[r] \subseteq drops'[r]
    BY <1>1 DEF Spawn
  <1>2. ASSUME NEW c \in Calls,
               \/ CallStep(c) \/ DispatchAllocate(c) \/ DispatchFails(c)
               \/ UserAbort(c)
        PROVE  UNCHANGED <<closed, drops>>
    BY <1>2 DEF CallStep, DispatchAllocate, DispatchFails, UserAbort, Request,
      DispatchAborted, DispatchInsert, DispatchDrop, DispatchDropClose,
      Remember, RememberRelease, RememberClose, Forget, Finish
  <1>3. ASSUME NEW q \in Realms, NEW i \in 1 .. IdMax, DropHandle(q, i)
        PROVE  UNCHANGED closed /\ drops[r] \subseteq drops'[r]
    BY <1>3 DEF DropHandle
  <1>4. ASSUME NEW q \in Realms, Cleanup(q) \/ JsStep(q)
        PROVE  UNCHANGED drops /\ (closed'[r] = "no" => closed[r] = "no")
    BY <1>4 DEF JsStep, DropHandleSignal, DropHandleClose, Cleanup,
      CleanupAbort, CleanupRelease, CleanupClose
  <1> QED BY <1>1, <1>2, <1>3, <1>4 DEF RealmNext

(* An entry goes only to a drop of its own realm, which is then under way, *)
(* or in the release of a realm that is closed.                            *)
LEMMA EntriesGo ==
  ASSUME RealmTypeOK, ClosedByCleanup, LateCallsAreClosed, RealmNext,
         NEW e \in entries, e \notin entries'
  PROVE  \/ closed[e.owner] = "yes"
         \/ \E c \in Calls : /\ DispatchDrop(c) /\ realm[c] = e.owner
                             /\ id[c] = e.id
         \/ \E r \in Realms : DropHandle(r, e.id) /\ r = e.owner
  <1> USE DEF registryVars, resourceVars, callVars, jsVars
  <1>1. ASSUME NEW c \in Calls,
               \/ \E t \in Tasks, i \in 0 .. IdMax : Spawn(c, t, i)
               \/ CallStep(c) \/ DispatchAllocate(c) \/ DispatchFails(c)
               \/ UserAbort(c)
        PROVE  DispatchDrop(c) \/ RememberRelease(c)
    BY <1>1 DEF Spawn, CallStep, DispatchAllocate, DispatchFails, UserAbort,
      Request, DispatchAborted, DispatchInsert, DispatchDropClose, Remember,
      RememberClose, Forget, Finish, CloseTaken
  <1>2. ASSUME NEW c \in Calls, DispatchDrop(c)
        PROVE  realm[c] = e.owner /\ id[c] = e.id
    BY <1>2 DEF DispatchDrop, TakeOut, Removable
  <1>3. ASSUME NEW c \in Calls, RememberRelease(c)
        PROVE  closed[e.owner] = "yes"
    BY <1>3 DEF RememberRelease, TakeOut, OwnedBy, LateCallsAreClosed
  <1>4. ASSUME NEW r \in Realms, Cleanup(r) \/ JsStep(r)
        PROVE  CleanupRelease(r)
    BY <1>4 DEF JsStep, DropHandleSignal, DropHandleClose, Cleanup,
      CleanupAbort, CleanupClose, CloseTaken
  <1>5. ASSUME NEW r \in Realms, CleanupRelease(r)
        PROVE  closed[e.owner] = "yes"
    BY <1>5 DEF CleanupRelease, TakeOut, OwnedBy, ClosedByCleanup
  <1>6. ASSUME NEW r \in Realms, NEW i \in 1 .. IdMax, DropHandle(r, i)
        PROVE  r = e.owner /\ i = e.id
    BY <1>6 DEF DropHandle, TakeOut, Removable
  <1> QED BY <1>1, <1>2, <1>3, <1>4, <1>5, <1>6 DEF RealmNext

LEMMA LiveStep ==
  ASSUME RealmTypeOK, ClosedByCleanup, LateCallsAreClosed, DropsAreRecorded,
         CreatedAreLive, RealmNext
  PROVE  CreatedAreLive'
  <1> SUFFICES ASSUME NEW d \in Calls, task'[d] # "drop",
                      pc'[d] \in {"remember", "forget", "done", "returned"},
                      closed'[realm'[d]] = "no", id'[d] \notin drops'[realm'[d]]
               PROVE  EntryOf(d)' \in entries'
    BY DEF CreatedAreLive
  <1>1. /\ UNCHANGED <<realm, task[d], id[d]>>
        /\ Created(d) \/ DispatchInsert(d)
    BY CreatedProgress DEF Created
  <1>2. EntryOf(d)' = EntryOf(d) /\ realm[d] \in Realms
    BY <1>1 DEF EntryOf, RealmTypeOK
  <1>3. CASE DispatchInsert(d)
    BY <1>2, <1>3 DEF DispatchInsert, EntryOf
  <1>4. CASE ~DispatchInsert(d)
    <2>1. closed[realm[d]] = "no" /\ id[d] \notin drops[realm[d]]
      BY <1>1, <1>2, OnlyGrow
    <2>2. pc[d] \in {"remember", "forget", "done", "returned"}
      <3>1. pc[d] \notin {"release", "closeall"}
        BY <2>1 DEF LateCallsAreClosed
      <3> QED BY <1>1, <1>4, <3>1 DEF Created
    <2>3. EntryOf(d) \in entries
      BY <1>1, <2>1, <2>2 DEF CreatedAreLive
    <2>4. EntryOf(d).owner = realm[d] /\ EntryOf(d).id = id[d]
      BY DEF EntryOf
    <2>5. ASSUME NEW c \in Calls, DispatchDrop(c), realm[c] = realm[d], id[c] = id[d]
          PROVE  FALSE
      BY <2>1, <2>5 DEF DispatchDrop, DropsAreRecorded
    <2>6. ASSUME NEW r \in Realms, DropHandle(r, id[d]), r = realm[d]
          PROVE  FALSE
      BY <1>1, <2>6 DEF DropHandle, RealmTypeOK
    <2> QED BY <1>2, <2>1, <2>3, <2>4, <2>5, <2>6, EntriesGo
  <1> QED BY <1>3, <1>4

-----------------------------------------------------------------------------
(* Operations that left the registry *)

(* The actor of a removal had nothing left to close, and so the names of   *)
(* what it takes out now are not mixed with earlier ones.                  *)
LEMMA RegistryEffects ==
  ASSUME RealmTypeOK, NothingLeftToClose, RealmNext
  PROVE  \/ \E c \in Calls : DispatchInsert(c)
         \/ \E p \in Calls \cup Realms, gone \in SUBSET entries :
              TakeOut(p, gone) /\ removed[p] = {}
         \/ \E p \in Calls \cup Realms : CloseTaken(p)
         \/ UNCHANGED <<entries, consumer_closed, removed>>
  <1> USE DEF registryVars, resourceVars, callVars, jsVars
  <1>1. ASSUME NEW c \in Calls,
               ~DispatchInsert(c),
               \/ \E t \in Tasks, i \in 0 .. IdMax : Spawn(c, t, i)
               \/ CallStep(c) \/ DispatchAllocate(c) \/ DispatchFails(c)
               \/ UserAbort(c)
        PROVE  \/ DispatchDrop(c) \/ RememberRelease(c) \/ CloseTaken(c)
               \/ UNCHANGED <<entries, consumer_closed, removed>>
    BY <1>1 DEF Spawn, CallStep, DispatchAllocate, DispatchFails, UserAbort,
      Request, DispatchAborted, DispatchDropClose, Remember, RememberClose,
      Forget, Finish
  <1>2. ASSUME NEW c \in Calls, DispatchDrop(c)
        PROVE  /\ TakeOut(c, Removable(realm[c], id[c])) /\ removed[c] = {}
               /\ Removable(realm[c], id[c]) \in SUBSET entries
    BY <1>2, SelectionsAreEntries DEF DispatchDrop, NothingLeftToClose
  <1>3. ASSUME NEW c \in Calls, RememberRelease(c)
        PROVE  /\ TakeOut(c, OwnedBy(realm[c])) /\ removed[c] = {}
               /\ OwnedBy(realm[c]) \in SUBSET entries
    BY <1>3, SelectionsAreEntries DEF RememberRelease, NothingLeftToClose
  <1>4. ASSUME NEW r \in Realms, Cleanup(r) \/ JsStep(r)
        PROVE  \/ CleanupRelease(r) \/ CloseTaken(r)
               \/ UNCHANGED <<entries, consumer_closed, removed>>
    BY <1>4 DEF JsStep, DropHandleSignal, DropHandleClose, Cleanup,
      CleanupAbort, CleanupClose
  <1>5. ASSUME NEW r \in Realms, CleanupRelease(r)
        PROVE  /\ TakeOut(r, OwnedBy(r)) /\ removed[r] = {}
               /\ OwnedBy(r) \in SUBSET entries
    BY <1>5, SelectionsAreEntries DEF CleanupRelease, NothingLeftToClose
  <1>6. ASSUME NEW r \in Realms, NEW i \in 1 .. IdMax, DropHandle(r, i)
        PROVE  /\ TakeOut(r, Removable(r, i)) /\ removed[r] = {}
               /\ Removable(r, i) \in SUBSET entries
    BY <1>6, SelectionsAreEntries DEF DropHandle, NothingLeftToClose
  <1>7. CASE \E c \in Calls :
               \/ \E t \in Tasks, i \in 0 .. IdMax : Spawn(c, t, i)
               \/ CallStep(c) \/ DispatchAllocate(c) \/ DispatchFails(c)
               \/ UserAbort(c)
    BY <1>1, <1>2, <1>3, <1>7
  <1>8. CASE \E r \in Realms :
               \/ \E i \in 1 .. IdMax : DropHandle(r, i)
               \/ Cleanup(r) \/ JsStep(r)
    BY <1>4, <1>5, <1>6, <1>8
  <1> QED BY <1>7, <1>8 DEF RealmNext

LEMMA NothingLeftStep ==
  ASSUME RealmTypeOK, NothingLeftToClose, RealmNext
  PROVE  NothingLeftToClose'
  <1> USE DEF registryVars, resourceVars, callVars, jsVars, Goto, Js
  <1>0. /\ pc \in [Calls -> {"idle", "request", "dispatch", "insert", "close",
                             "remember", "release", "closeall", "forget",
                             "done", "finish", "returned", "failed"}]
        /\ js \in [Realms -> {"open", "dropsignal", "dropclose", "abort",
                              "release", "closeall", "down"}]
        /\ removed \in [Calls \cup Realms -> SUBSET Ids]
    BY DEF RealmTypeOK
  <1>d. Realms \cap Calls = {}
    BY RealmAssumption
  <1>1. ASSUME NEW c \in Calls,
               ~DispatchDrop(c), ~RememberRelease(c), ~DispatchDropClose(c),
               ~RememberClose(c),
               \/ \E t \in Tasks, i \in 0 .. IdMax : Spawn(c, t, i)
               \/ CallStep(c) \/ DispatchAllocate(c) \/ DispatchFails(c)
               \/ UserAbort(c)
        PROVE  NothingLeftToClose'
    <2>1. /\ UNCHANGED <<removed, js>>
          /\ \A d \in Calls : pc[d] \in {"close", "closeall"} => pc'[d] = pc[d]
      BY <1>0, <1>1 DEF Spawn, CallStep, DispatchAllocate, DispatchFails,
        UserAbort, Request, DispatchAborted, DispatchInsert, Remember, Forget,
        Finish
    <2> QED BY <2>1 DEF NothingLeftToClose
  <1>2. ASSUME NEW c \in Calls, DispatchDrop(c) \/ RememberRelease(c)
        PROVE  NothingLeftToClose'
    <2>1. /\ UNCHANGED js /\ pc'[c] \in {"close", "closeall"}
          /\ \A d \in Calls \ {c} : pc'[d] = pc[d]
          /\ \A p \in (Calls \cup Realms) \ {c} : removed'[p] = removed[p]
      BY <1>0, <1>2 DEF DispatchDrop, RememberRelease, TakeOut
    <2> QED BY <1>d, <2>1 DEF NothingLeftToClose
  <1>3. ASSUME NEW c \in Calls, DispatchDropClose(c) \/ RememberClose(c)
        PROVE  NothingLeftToClose'
    <2>1. /\ UNCHANGED js /\ removed'[c] = {}
          /\ \A d \in Calls \ {c} : pc'[d] = pc[d]
          /\ \A p \in (Calls \cup Realms) \ {c} : removed'[p] = removed[p]
      BY <1>0, <1>3 DEF DispatchDropClose, RememberClose, CloseTaken
    <2> QED BY <1>d, <2>1 DEF NothingLeftToClose
  <1>4. ASSUME NEW r \in Realms,
               CleanupRelease(r) \/ \E i \in 1 .. IdMax : DropHandle(r, i)
        PROVE  NothingLeftToClose'
    <2>1. /\ UNCHANGED pc /\ js'[r] \in {"dropsignal", "closeall"}
          /\ \A q \in Realms \ {r} : js'[q] = js[q]
          /\ \A p \in (Calls \cup Realms) \ {r} : removed'[p] = removed[p]
      BY <1>0, <1>4 DEF DropHandle, CleanupRelease, TakeOut
    <2> QED BY <1>d, <2>1 DEF NothingLeftToClose
  <1>5. ASSUME NEW r \in Realms, DropHandleClose(r) \/ CleanupClose(r)
        PROVE  NothingLeftToClose'
    <2>1. /\ UNCHANGED pc /\ removed'[r] = {}
          /\ \A q \in Realms \ {r} : js'[q] = js[q]
          /\ \A p \in (Calls \cup Realms) \ {r} : removed'[p] = removed[p]
      BY <1>0, <1>5 DEF DropHandleClose, CleanupClose, CloseTaken
    <2> QED BY <1>d, <2>1 DEF NothingLeftToClose
  <1>6. ASSUME NEW r \in Realms,
               Cleanup(r) \/ DropHandleSignal(r) \/ CleanupAbort(r)
        PROVE  NothingLeftToClose'
    <2>1. /\ UNCHANGED <<pc, removed>>
          /\ \A q \in Realms :
               js[q] \in {"dropsignal", "dropclose", "closeall"} =>
                 js'[q] \in {"dropsignal", "dropclose", "closeall"}
      BY <1>0, <1>6 DEF Cleanup, DropHandleSignal, CleanupAbort
    <2> QED BY <2>1 DEF NothingLeftToClose
  <1> QED BY <1>1, <1>2, <1>3, <1>4, <1>5, <1>6 DEF RealmNext, JsStep

LEMMA OwnedStep ==
  ASSUME RealmTypeOK, DropsAreRecorded, NothingLeftToClose, OperationsAreOwned,
         RealmNext
  PROVE  OperationsAreOwned'
  <1> SUFFICES ASSUME NEW d \in Calls, task'[d] = "start", Created(d)'
               PROVE  \/ \E e \in entries' : e.id = id'[d] /\ e.kind = "Operation"
                      \/ id'[d] \in consumer_closed'
                      \/ \E p \in Calls \cup Realms : id'[d] \in removed'[p]
    BY DEF OperationsAreOwned
  <1>1. /\ UNCHANGED <<task[d], id[d]>>
        /\ Created(d) \/ DispatchInsert(d)
    BY CreatedProgress
  <1>2. CASE DispatchInsert(d)
    <2>1. [id |-> id[d], owner |-> realm[d], kind |-> "Operation"] \in entries'
      BY <1>1, <1>2 DEF DispatchInsert
    <2> QED BY <1>1, <2>1
  <1>3. CASE Created(d)
    <2>1. \/ \E e \in entries : e.id = id[d] /\ e.kind = "Operation"
          \/ id[d] \in consumer_closed
          \/ \E p \in Calls \cup Realms : id[d] \in removed[p]
      BY <1>1, <1>3 DEF OperationsAreOwned
    <2>2. ASSUME NEW c \in Calls, DispatchInsert(c)
          PROVE  /\ entries \subseteq entries'
                 /\ UNCHANGED <<consumer_closed, removed>>
      BY <2>2 DEF DispatchInsert
    <2>3. ASSUME NEW p \in Calls \cup Realms, NEW gone \in SUBSET entries,
                 TakeOut(p, gone), removed[p] = {}
          PROVE  \/ \E e \in entries' : e.id = id[d] /\ e.kind = "Operation"
                 \/ id[d] \in consumer_closed'
                 \/ \E q \in Calls \cup Realms : id[d] \in removed'[q]
      <3>1. /\ entries' = entries \ gone /\ UNCHANGED consumer_closed
            /\ removed'[p] = OperationsIn(gone)
            /\ \A q \in (Calls \cup Realms) \ {p} : removed'[q] = removed[q]
        BY <2>3 DEF TakeOut, RealmTypeOK
      <3>2. ASSUME NEW e \in gone, e.id = id[d], e.kind = "Operation"
            PROVE  id[d] \in removed'[p]
        BY <3>1, <3>2 DEF OperationsIn
      <3> QED BY <2>1, <2>3, <3>1, <3>2
    <2>4. ASSUME NEW p \in Calls \cup Realms, CloseTaken(p)
          PROVE  \/ \E e \in entries' : e.id = id[d] /\ e.kind = "Operation"
                 \/ id[d] \in consumer_closed'
                 \/ \E q \in Calls \cup Realms : id[d] \in removed'[q]
      <3>1. /\ entries' = entries
            /\ consumer_closed' = consumer_closed \cup removed[p]
            /\ \A q \in (Calls \cup Realms) \ {p} : removed'[q] = removed[q]
        BY <2>4 DEF CloseTaken, ConsumerClosed, RealmTypeOK
      <3> QED BY <2>1, <3>1
    <2> QED BY <1>1, <2>1, <2>2, <2>3, <2>4, RegistryEffects
  <1> QED BY <1>1, <1>2, <1>3

-----------------------------------------------------------------------------
(* Signals *)

LEMMA ForgetEffect ==
  ASSUME RealmTypeOK, NEW r \in Realms, NEW i, ForgetSignal(r, i)
  PROVE  \A q \in Realms :
           /\ operations'[q] \subseteq operations[q]
           /\ \A k \in operations[q] : k \in operations'[q] \/ (q = r /\ k[1] = i)
           /\ q = r => \A k \in operations'[q] : k[1] # i
  BY DEF ForgetSignal, Kept, RealmTypeOK

(* A kept signal goes only to a drop of its handle or to the cleanup. *)
LEMMA SignalsGo ==
  ASSUME RealmTypeOK, DropsAreRecorded, RealmNext, NEW r \in Realms,
         NEW k \in operations[r], k \notin operations'[r]
  PROVE  closed'[r] = "yes" \/ k[1] \in drops[r]
  <1> USE DEF registryVars, resourceVars, callVars, jsVars
  <1>0. operations \in [Realms -> SUBSET (Ids \X Calls)]
    BY DEF RealmTypeOK
  <1>1. ASSUME NEW c \in Calls,
               \/ \E t \in Tasks, i \in 0 .. IdMax : Spawn(c, t, i)
               \/ CallStep(c) \/ DispatchAllocate(c) \/ DispatchFails(c)
               \/ UserAbort(c)
        PROVE  Remember(c) \/ Forget(c)
    BY <1>1 DEF Spawn, CallStep, DispatchAllocate, DispatchFails, UserAbort,
      Request, DispatchAborted, DispatchInsert, DispatchDrop,
      DispatchDropClose, RememberRelease, RememberClose, Finish
  <1>2. ASSUME NEW c \in Calls, Remember(c) PROVE FALSE
    <2>1. realm[c] \in Realms
      BY DEF RealmTypeOK
    <2> QED BY <1>0, <1>2, <2>1 DEF Remember
  <1>3. ASSUME NEW c \in Calls, Forget(c)
        PROVE  k[1] \in drops[r]
    <2>1. ForgetSignal(realm[c], id[c]) /\ task[c] = "drop" /\ pc[c] # "idle"
      BY <1>3 DEF Forget
    <2>2. realm[c] = r /\ k[1] = id[c]
      BY <2>1, ForgetEffect DEF RealmTypeOK
    <2> QED BY <2>1, <2>2 DEF DropsAreRecorded
  <1>4. ASSUME NEW q \in Realms,
               \/ \E i \in 1 .. IdMax : DropHandle(q, i)
               \/ Cleanup(q) \/ JsStep(q)
        PROVE  Cleanup(q) \/ DropHandleSignal(q)
    BY <1>4 DEF JsStep, DropHandle, DropHandleClose, CleanupAbort,
      CleanupRelease, CleanupClose
  <1>5. ASSUME NEW q \in Realms, Cleanup(q) PROVE closed'[r] = "yes"
    BY <1>5 DEF Cleanup, RealmTypeOK
  <1>6. ASSUME NEW q \in Realms, DropHandleSignal(q) PROVE k[1] \in drops[r]
    <2>1. ForgetSignal(q, js_id[q]) /\ js[q] = "dropsignal"
      BY <1>6 DEF DropHandleSignal
    <2>2. q = r /\ k[1] = js_id[q]
      BY <2>1, ForgetEffect
    <2> QED BY <2>1, <2>2 DEF DropsAreRecorded
  <1> QED BY <1>1, <1>2, <1>3, <1>4, <1>5, <1>6 DEF RealmNext

LEMMA StartedStep ==
  ASSUME RealmTypeOK, ClosedByCleanup, LateCallsAreClosed, DropsAreRecorded,
         CreatedAreLive, StartedAreKept, RealmNext
  PROVE  StartedAreKept'
  <1> SUFFICES ASSUME NEW d \in Calls, task'[d] = "start",
                      pc'[d] \in {"forget", "done", "returned"},
                      closed'[realm'[d]] = "no", id'[d] \notin drops'[realm'[d]]
               PROVE  <<id'[d], d>> \in operations'[realm'[d]]
    BY DEF StartedAreKept
  <1>1. /\ UNCHANGED <<realm, task[d], id[d]>>
        /\ Created(d) \/ DispatchInsert(d)
    BY CreatedProgress DEF Created
  <1>2. realm[d] \in Realms
    BY DEF RealmTypeOK
  <1>3. closed[realm[d]] = "no" /\ id[d] \notin drops[realm[d]]
    BY <1>1, <1>2, OnlyGrow
  <1>4. pc[d] \in {"remember", "forget", "done", "returned"}
    <2>1. pc[d] \notin {"release", "closeall"}
      BY <1>3 DEF LateCallsAreClosed
    <2>2. ~DispatchInsert(d)
      BY DEF DispatchInsert, Goto, RealmTypeOK
    <2> QED BY <1>1, <2>1, <2>2 DEF Created
  <1>5. CASE pc[d] = "remember"
    <2>1. Remember(d)
      <3> USE DEF registryVars, resourceVars, callVars, jsVars, RealmTypeOK, Goto
      <3>1. ASSUME NEW c \in Calls, ~Remember(d),
                   \/ \E t \in Tasks, i \in 0 .. IdMax : Spawn(c, t, i)
                   \/ CallStep(c) \/ DispatchAllocate(c) \/ DispatchFails(c)
                   \/ UserAbort(c)
            PROVE  pc'[d] = "remember"
        BY <1>5, <3>1 DEF Spawn, CallStep, DispatchAllocate, DispatchFails,
          UserAbort, Request, DispatchAborted, DispatchInsert, DispatchDrop,
          DispatchDropClose, Remember, RememberRelease, RememberClose, Forget,
          Finish
      <3>2. ASSUME NEW r \in Realms,
                   \/ \E i \in 1 .. IdMax : DropHandle(r, i)
                   \/ Cleanup(r) \/ JsStep(r)
            PROVE  UNCHANGED pc
        BY <3>2 DEF JsStep, DropHandle, DropHandleSignal, DropHandleClose,
          Cleanup, CleanupAbort, CleanupRelease, CleanupClose
      <3> QED BY <1>5, <3>1, <3>2 DEF RealmNext
    <2>2. EntryOf(d) \in entries
      BY <1>1, <1>3, <1>5 DEF CreatedAreLive
    <2>3. IsOperation(realm[d], id[d])
      <3>1. /\ EntryOf(d) \in Removable(realm[d], id[d])
            /\ EntryOf(d).kind = "Operation" /\ EntryOf(d).id = id[d]
        BY <1>1, <2>2 DEF EntryOf, Removable
      <3> QED BY <3>1 DEF IsOperation, OperationsIn
    <2>4. ~RememberSeesClosed(d)
      BY <1>3 DEF RememberSeesClosed
    <2>5. operations' = [operations EXCEPT ![realm[d]] =
                           operations[realm[d]] \cup {<<id[d], d>>}]
      BY <1>1, <2>1, <2>3, <2>4 DEF Remember
    <2> QED BY <1>1, <1>2, <2>5 DEF RealmTypeOK
  <1>6. CASE pc[d] # "remember"
    <2>1. <<id[d], d>> \in operations[realm[d]]
      BY <1>1, <1>3, <1>4, <1>6 DEF StartedAreKept
    <2> QED BY <1>1, <1>2, <1>3, <2>1, SignalsGo
  <1> QED BY <1>5, <1>6

(* A drop under way stays so until the signal was forgotten. *)
LEMMA ForgettingStep ==
  ASSUME RealmTypeOK, RealmNext, NEW r \in Realms, closed'[r] = "no",
         NEW i, Forgetting(r, i),
         \E k \in operations'[r] : k[1] = i
  PROVE  Forgetting(r, i)'
  <1> USE DEF registryVars, resourceVars, callVars, jsVars, Goto, Js
  <1>0. closed[r] = "no"
    BY OnlyGrow
  <1>1. CASE js[r] = "dropsignal" /\ js_id[r] = i
    <2>1. js'[r] = "dropsignal" /\ js_id'[r] = i
      <3>1. ASSUME NEW c \in Calls,
                   \/ \E t \in Tasks, j \in 0 .. IdMax : Spawn(c, t, j)
                   \/ CallStep(c) \/ DispatchAllocate(c) \/ DispatchFails(c)
                   \/ UserAbort(c)
            PROVE  UNCHANGED <<js, js_id>>
        BY <3>1 DEF Spawn, CallStep, DispatchAllocate, DispatchFails,
          UserAbort, Request, DispatchAborted, DispatchInsert, DispatchDrop,
          DispatchDropClose, Remember, RememberRelease, RememberClose, Forget,
          Finish
      <3>2. ASSUME NEW q \in Realms, DropHandleSignal(q), q = r
            PROVE  FALSE
        BY <1>1, <3>2, ForgetEffect DEF DropHandleSignal
      <3>3. ASSUME NEW q \in Realms, ~(DropHandleSignal(q) /\ q = r),
                   \/ \E j \in 1 .. IdMax : DropHandle(q, j)
                   \/ Cleanup(q) \/ JsStep(q)
            PROVE  js'[r] = js[r] /\ js_id'[r] = js_id[r]
        BY <1>1, <3>3 DEF JsStep, DropHandle, DropHandleSignal,
          DropHandleClose, Cleanup, CleanupAbort, CleanupRelease,
          CleanupClose, RealmTypeOK
      <3> QED BY <1>1, <3>1, <3>2, <3>3 DEF RealmNext
    <2> QED BY <2>1 DEF Forgetting
  <1>2. ASSUME NEW d \in Calls, realm[d] = r, task[d] = "drop", id[d] = i,
               pc[d] \in {"close", "remember", "forget"}
        PROVE  Forgetting(r, i)'
    <2>1. ~Forget(d)
      <3> SUFFICES ASSUME Forget(d) PROVE FALSE
        OBVIOUS
      <3>1. ForgetSignal(r, i)
        BY <1>2 DEF Forget
      <3> QED BY <3>1, ForgetEffect
    <2>2. ~(Remember(d) /\ RememberSeesClosed(d))
      BY <1>0, <1>2 DEF RememberSeesClosed
    <2>3. ASSUME NEW c \in Calls,
                 \/ \E t \in Tasks, j \in 0 .. IdMax : Spawn(c, t, j)
                 \/ CallStep(c) \/ DispatchAllocate(c) \/ DispatchFails(c)
                 \/ UserAbort(c)
          PROVE  /\ realm'[d] = r /\ task'[d] = "drop" /\ id'[d] = i
                 /\ pc'[d] \in {"close", "remember", "forget"}
      BY <1>2, <2>1, <2>2, <2>3 DEF Spawn, CallStep, DispatchAllocate,
        DispatchFails, UserAbort, Request, DispatchAborted, DispatchInsert,
        DispatchDrop, DispatchDropClose, Remember, RememberRelease,
        RememberClose, Forget, Finish, RealmTypeOK
    <2>4. ASSUME NEW q \in Realms,
                 \/ \E j \in 1 .. IdMax : DropHandle(q, j)
                 \/ Cleanup(q) \/ JsStep(q)
          PROVE  UNCHANGED <<realm, task, id, pc>>
      BY <2>4 DEF JsStep, DropHandle, DropHandleSignal, DropHandleClose,
        Cleanup, CleanupAbort, CleanupRelease, CleanupClose
    <2> QED BY <1>2, <2>3, <2>4 DEF RealmNext, Forgetting
  <1> QED BY <1>1, <1>2 DEF Forgetting

LEMMA KeptStep ==
  ASSUME RealmTypeOK, ClosedByCleanup, LateCallsAreClosed, DropsAreRecorded,
         KeptAreLive, RealmNext
  PROVE  KeptAreLive'
  <1> USE DEF registryVars, resourceVars, callVars, jsVars
  <1> SUFFICES ASSUME NEW r \in Realms, closed'[r] = "no",
                      NEW k \in operations'[r]
               PROVE  (\E e \in OwnedBy(r)' : e.id = k[1]) \/ Forgetting(r, k[1])'
    BY DEF KeptAreLive
  <1>0. closed[r] = "no"
    BY OnlyGrow
  <1>1. CASE k \in operations[r]
    <2>1. CASE Forgetting(r, k[1])
      BY <2>1, ForgettingStep
    <2>2. ASSUME NEW e \in entries, e.owner = r, e.id = k[1]
          PROVE  (\E f \in OwnedBy(r)' : f.id = k[1]) \/ Forgetting(r, k[1])'
      <3>1. CASE e \in entries'
        BY <2>2, <3>1 DEF OwnedBy
      <3>2. ASSUME NEW c \in Calls, DispatchDrop(c), realm[c] = r, id[c] = k[1]
            PROVE  Forgetting(r, k[1])'
        <4>1. /\ UNCHANGED <<realm, task, id>> /\ task[c] = "drop"
              /\ pc'[c] = "close"
          BY <3>2 DEF DispatchDrop, Goto, RealmTypeOK
        <4> QED BY <3>2, <4>1 DEF Forgetting
      <3>3. ASSUME NEW q \in Realms, DropHandle(q, k[1]), q = r
            PROVE  Forgetting(r, k[1])'
        <4>1. js'[r] = "dropsignal" /\ js_id'[r] = k[1]
          BY <3>3 DEF DropHandle, Js, RealmTypeOK
        <4> QED BY <4>1 DEF Forgetting
      <3> QED BY <1>0, <2>2, <3>1, <3>2, <3>3, EntriesGo
    <2> QED BY <1>0, <1>1, <2>1, <2>2 DEF KeptAreLive, OwnedBy
  <1>2. CASE k \notin operations[r]
    <2>0. operations \in [Realms -> SUBSET (Ids \X Calls)] /\ realm \in [Calls -> Realms]
      BY DEF RealmTypeOK
    <2>1. ASSUME NEW c \in Calls, ForgetSignal(realm[c], id[c]) PROVE FALSE
      BY <1>2, <2>0, <2>1, ForgetEffect
    <2>2. ASSUME NEW q \in Realms, ForgetSignal(q, js_id[q]) PROVE FALSE
      BY <1>2, <2>0, <2>2, ForgetEffect
    <2>3. \E c \in Calls : Remember(c)
      <3>1. ASSUME NEW c \in Calls,
                   \/ \E t \in Tasks, j \in 0 .. IdMax : Spawn(c, t, j)
                   \/ CallStep(c) \/ DispatchAllocate(c) \/ DispatchFails(c)
                   \/ UserAbort(c)
            PROVE  Remember(c)
        BY <1>2, <2>1, <3>1 DEF Spawn, CallStep, DispatchAllocate,
          DispatchFails, UserAbort, Request, DispatchAborted, DispatchInsert,
          DispatchDrop, DispatchDropClose, RememberRelease, RememberClose,
          Forget, Finish
      <3>2. ASSUME NEW q \in Realms,
                   \/ \E j \in 1 .. IdMax : DropHandle(q, j)
                   \/ Cleanup(q) \/ JsStep(q)
            PROVE  FALSE
        BY <1>2, <2>0, <2>2, <3>2 DEF JsStep, DropHandle, DropHandleSignal,
          DropHandleClose, Cleanup, CleanupAbort, CleanupRelease, CleanupClose
      <3> QED BY <3>1, <3>2 DEF RealmNext
    <2>4. PICK c \in Calls : Remember(c)
      BY <2>3
    <2>5. /\ realm[c] = r /\ k = <<id[c], c>> /\ IsOperation(r, id[c])
          /\ UNCHANGED entries
      BY <1>2, <2>0, <2>4 DEF Remember
    <2>6. \E e \in entries : e.id = id[c] /\ e.owner = r
      BY <2>5 DEF IsOperation, OperationsIn, Removable
    <2> QED BY <2>5, <2>6 DEF OwnedBy
  <1> QED BY <1>1, <1>2

(* What HandlesAreCoherent rests on, step after step. *)
HandleInv ==
  /\ ClosedByCleanup /\ DropsAreRecorded /\ LateCallsAreClosed
  /\ ReturnedByCalls /\ CreatedAreLive /\ NothingLeftToClose
  /\ OperationsAreOwned /\ StartedAreKept /\ KeptAreLive

LEMMA CoherentFromInv ==
  ASSUME RealmTypeOK, HandleInv
  PROVE  HandlesAreCoherent
  <1> USE DEF HandleInv
  <1>1. LiveUntilDropped
    <2> SUFFICES ASSUME NEW r \in Realms, closed[r] = "no",
                        NEW i \in returned[r] \ drops[r]
                 PROVE  \E e \in OwnedBy(r) : e.id = i
      BY DEF LiveUntilDropped
    <2>1. PICK c \in Calls : /\ realm[c] = r /\ task[c] # "drop"
                             /\ pc[c] = "returned" /\ id[c] = i
      BY DEF ReturnedByCalls
    <2>2. EntryOf(c) \in entries
      BY <2>1 DEF CreatedAreLive
    <2>3. EntryOf(c).owner = r /\ EntryOf(c).id = i
      BY <2>1 DEF EntryOf
    <2> QED BY <2>2, <2>3 DEF OwnedBy
  <1>2. NoOrphanedOperation
    BY DEF NoOrphanedOperation, OperationsAreOwned, Created
  <1>3. SignalsFollowHandles
    <2>1. ASSUME NEW r \in Realms, NEW i, Forgetting(r, i)
          PROVE  \/ js[r] = "dropsignal" /\ js_id[r] = i
                 \/ \E c \in Calls : /\ realm[c] = r /\ task[c] = "drop"
                                     /\ InProgress(c) /\ id[c] = i
      BY <2>1 DEF Forgetting, InProgress
    <2>2. ASSUME NEW r \in Realms, closed[r] = "no", NEW c \in Calls,
                 realm[c] = r, task[c] = "start", pc[c] = "returned",
                 id[c] \notin drops[r]
          PROVE  <<id[c], c>> \in operations[r]
      BY <2>2 DEF StartedAreKept
    <2> QED BY <2>1, <2>2 DEF SignalsFollowHandles, KeptAreLive
  <1> QED BY <1>1, <1>2, <1>3 DEF HandlesAreCoherent

(* lib.rs and handle.rs: in an open environment every handle JavaScript    *)
(* has and did not drop is live, no Operation is left without an owner,    *)
(* and the realm keeps exactly the signals of the live ones, for any       *)
(* number of environments and calls.                                       *)
THEOREM HandlesStayCoherent == RealmSpec => []HandlesAreCoherent
  <1>1. RealmInit => HandleInv
    BY DEF RealmInit, RegistryInit, HandleInv, ClosedByCleanup,
      DropsAreRecorded, LateCallsAreClosed, ReturnedByCalls, CreatedAreLive,
      NothingLeftToClose, OperationsAreOwned, StartedAreKept, KeptAreLive,
      Created
  <1>2. RealmTypeOK /\ HandleInv /\ [RealmNext]_realmVars => HandleInv'
    <2> SUFFICES ASSUME RealmTypeOK, HandleInv, [RealmNext]_realmVars
                 PROVE  HandleInv'
      OBVIOUS
    <2>1. CASE RealmNext
      BY <2>1, ClosedStep, DropsStep, LateStep, ReturnedStep, LiveStep,
        NothingLeftStep, OwnedStep, StartedStep, KeptStep DEF HandleInv
    <2>2. CASE UNCHANGED realmVars
      BY <2>2 DEF HandleInv, realmVars, registryVars, resourceVars, callVars,
        jsVars, ClosedByCleanup, DropsAreRecorded, LateCallsAreClosed,
        ReturnedByCalls, CreatedAreLive, NothingLeftToClose,
        OperationsAreOwned, StartedAreKept, KeptAreLive, Created, EntryOf,
        Forgetting, OwnedBy
    <2> QED BY <2>1, <2>2
  <1> QED BY <1>1, <1>2, RealmTypeCorrect, CoherentFromInv, PTL DEF RealmSpec
=============================================================================
