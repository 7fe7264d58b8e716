------------------------------ MODULE NodeRealm ------------------------------
(***************************************************************************)
(* The Realm of the Node binding, bindings/node/src/lib.rs: one per        *)
(* JavaScript environment.  Its asynchronous calls run on tokio threads    *)
(* and create or drop handles in the shared registry; drop_handle and the  *)
(* cleanup of the environment run on its JavaScript thread.                *)
(*                                                                         *)
(* Three kinds of call are told apart: one that starts an Operation, one   *)
(* that creates any other handle, and handle.drop.  A signal is named by   *)
(* the call that it was made for.                                          *)
(***************************************************************************)
EXTENDS HandleRegistry, Functions

CONSTANTS
  Realms,       \* the environments, each with its own Owner::Node
  Calls,        \* the calls of Runtime.call, each made at most once
  Tasks         \* which of "start", "create" and "drop" are called

ASSUME RealmAssumption ==
  Realms \cap Calls = {} /\ Tasks \subseteq {"start", "create", "drop"}

VARIABLES
  \* struct Resources, per realm
  closed,       \* "no" or "yes"
  active,       \* calls whose Request is alive
  operations,   \* <<id, call>>: the signal an Operation keeps
  \* the calls
  pc, realm, task, id,
  signal,       \* "quiet" or "aborted"
  \* the JavaScript thread of each realm
  js,           \* "open", in drop_handle, in cleanup, or "down"
  js_id,        \* the handle drop_handle was given
  taken,        \* the signals cleanup took
  removed,      \* Operations a call or thread removed and has yet to close
  returned,     \* the ids JavaScript was given
  drops         \* the ids JavaScript asked to drop

callVars == <<pc, realm, task, id>>
resourceVars == <<closed, active, operations>>
jsVars == <<js, js_id, taken>>
realmVars == <<registryVars, resourceVars, callVars, signal, jsVars, removed,
               returned, drops>>

RealmInit ==
  /\ RegistryInit
  /\ closed = [r \in Realms |-> "no"] /\ active = [r \in Realms |-> {}]
  /\ operations = [r \in Realms |-> {}]
  /\ pc = [c \in Calls |-> "idle"]
  /\ realm \in [Calls -> Realms]
  /\ task = [c \in Calls |-> "create"] /\ id = [c \in Calls |-> 0]
  /\ signal = [c \in Calls |-> "quiet"]
  /\ js = [r \in Realms |-> "open"] /\ js_id = [r \in Realms |-> 0]
  /\ taken = [r \in Realms |-> {}]
  /\ removed = [p \in Calls \cup Realms |-> {}]
  /\ returned = [r \in Realms |-> {}] /\ drops = [r \in Realms |-> {}]

(* A critical section of the registry that takes entries out. *)
TakeOut(p, gone) ==
  /\ entries' = entries \ gone
  /\ removed' = [removed EXCEPT ![p] = OperationsIn(gone)]
  /\ UNCHANGED <<next_id, consumer_closed>>

(* consumer_close on what was taken out, after the unlock. *)
ConsumerClosed(p) == consumer_closed' = consumer_closed \cup removed[p]

CloseTaken(p) ==
  /\ ConsumerClosed(p)
  /\ removed' = [removed EXCEPT ![p] = {}]
  /\ UNCHANGED <<next_id, entries>>

Goto(c, label) == pc' = [pc EXCEPT ![c] = label]

-----------------------------------------------------------------------------
(* Runtime.call *)

(* JavaScript makes the call; its body runs later, on a tokio thread.  An *)
(* id may come from any realm: it is a string.                            *)
Spawn(c, t, target) ==
  /\ pc[c] = "idle" /\ js[realm[c]] = "open"
  /\ t = "drop" => target \in UNION Range(returned)
  /\ t # "drop" => target = 0
  /\ Goto(c, "request")
  /\ task' = [task EXCEPT ![c] = t]
  /\ id' = [id EXCEPT ![c] = target]
  /\ drops' = [drops EXCEPT ![realm[c]] =
                 IF t = "drop" THEN @ \cup {target} ELSE @]
  /\ UNCHANGED <<registryVars, resourceVars, realm, signal, jsVars, removed,
                 returned>>

(* Realm::request *)
Request(c) ==
  /\ pc[c] = "request"
  /\ \/ /\ closed[realm[c]] = "yes"
        /\ Goto(c, "failed")
        /\ UNCHANGED active
     \/ /\ closed[realm[c]] = "no"
        /\ Goto(c, "dispatch")
        /\ active' = [active EXCEPT ![realm[c]] = @ \cup {c}]
  /\ UNCHANGED <<registryVars, closed, operations, realm, task, id, signal,
                 jsVars, removed, returned, drops>>

(* The select of call_registered sees the abort first. *)
DispatchAborted(c) ==
  /\ pc[c] = "dispatch" /\ task[c] = "start" /\ signal[c] = "aborted"
  /\ Goto(c, "finish")
  /\ UNCHANGED <<registryVars, resourceVars, realm, task, id, signal, jsVars,
                 removed, returned, drops>>

(* Preflight or the handler fails, before an id is allocated. *)
DispatchFails(c) ==
  /\ pc[c] = "dispatch"
  /\ Goto(c, "finish")
  /\ UNCHANGED <<registryVars, resourceVars, realm, task, id, signal, jsVars,
                 removed, returned, drops>>

(* The handler made its resource and allocates an id, or there is none.   *)
DispatchAllocate(c) ==
  /\ pc[c] = "dispatch"
  /\ task[c] = "create" \/ (task[c] = "start" /\ signal[c] = "quiet")
  /\ \/ /\ next_id = 0
        /\ Goto(c, "finish")
        /\ UNCHANGED <<next_id, id>>
     \/ /\ next_id # 0
        /\ id' = [id EXCEPT ![c] = next_id]
        /\ next_id' = FollowingId
        /\ Goto(c, "insert")
  /\ UNCHANGED <<entries, consumer_closed, resourceVars, realm, task, signal,
                 jsVars, removed, returned, drops>>

(* The end of insert.  It needs no second look at the abort signal.       *)
DispatchInsert(c) ==
  /\ pc[c] = "insert"
  /\ entries' = entries \cup
       {[id |-> id[c], owner |-> realm[c],
         kind |-> IF task[c] = "start" THEN "Operation" ELSE "Other"]}
  /\ Goto(c, "remember")
  /\ UNCHANGED <<next_id, consumer_closed, resourceVars, realm, task, id,
                 signal, jsVars, removed, returned, drops>>

(* handle.drop: remove, then consumer_close. *)
DispatchDrop(c) ==
  /\ pc[c] = "dispatch" /\ task[c] = "drop"
  /\ TakeOut(c, Removable(realm[c], id[c]))
  /\ Goto(c, "close")
  /\ UNCHANGED <<resourceVars, realm, task, id, signal, jsVars, returned, drops>>

DispatchDropClose(c) ==
  /\ pc[c] = "close"
  /\ CloseTaken(c)
  /\ Goto(c, "remember")
  /\ UNCHANGED <<resourceVars, realm, task, id, signal, jsVars, returned, drops>>

(* Realm::remember.  A call that outlived the cleanup releases again;     *)
(* otherwise an Operation keeps the signal of the call that started it.   *)
RememberIgnoresClosed(c) == FALSE
RememberSeesClosed(c) == closed[realm[c]] = "yes"

Remember(c) ==
  /\ pc[c] = "remember"
  /\ \/ /\ RememberSeesClosed(c)
        /\ signal' = [signal EXCEPT ![c] = "aborted"]
        /\ Goto(c, "release")
        /\ UNCHANGED operations
     \/ /\ ~RememberSeesClosed(c)
        /\ operations' = [operations EXCEPT ![realm[c]] =
             IF task[c] # "drop" /\ IsOperation(realm[c], id[c])
             THEN @ \cup {<<id[c], c>>} ELSE @]
        /\ Goto(c, "forget")
        /\ UNCHANGED signal
  /\ UNCHANGED <<registryVars, closed, active, realm, task, id, jsVars,
                 removed, returned, drops>>

RememberRelease(c) ==
  /\ pc[c] = "release"
  /\ TakeOut(c, OwnedBy(realm[c]))
  /\ Goto(c, "closeall")
  /\ UNCHANGED <<resourceVars, realm, task, id, signal, jsVars, returned, drops>>

RememberClose(c) ==
  /\ pc[c] = "closeall"
  /\ CloseTaken(c)
  /\ Goto(c, "forget")
  /\ UNCHANGED <<resourceVars, realm, task, id, signal, jsVars, returned, drops>>

(* The signal kept for an Operation, taken out and aborted. *)
Kept(r, i) == {k \in operations[r] : k[1] = i}

KeepSignal(r, i) == UNCHANGED <<operations, signal>>
ForgetSignal(r, i) ==
  /\ operations' = [operations EXCEPT ![r] = @ \ Kept(r, i)]
  /\ signal' = [c \in Calls |-> IF <<i, c>> \in Kept(r, i) THEN "aborted"
                                                          ELSE signal[c]]

(* After handle.drop the signal kept for the handle goes. *)
Forget(c) ==
  /\ pc[c] = "forget"
  /\ \/ task[c] = "drop" /\ ForgetSignal(realm[c], id[c])
     \/ task[c] # "drop" /\ UNCHANGED <<operations, signal>>
  /\ Goto(c, "done")
  /\ UNCHANGED <<registryVars, closed, active, realm, task, id, jsVars,
                 removed, returned, drops>>

(* The Request is dropped; JavaScript, if it is still there, gets the id. *)
Finish(c) ==
  /\ pc[c] \in {"done", "finish"}
  /\ active' = [active EXCEPT ![realm[c]] = @ \ {c}]
  /\ returned' = [returned EXCEPT ![realm[c]] =
       IF pc[c] = "done" /\ task[c] # "drop" THEN @ \cup {id[c]} ELSE @]
  /\ Goto(c, IF pc[c] = "done" THEN "returned" ELSE "failed")
  /\ UNCHANGED <<registryVars, closed, operations, realm, task, id, signal,
                 jsVars, removed, drops>>

(* The Abort object given to the call. *)
UserAbort(c) ==
  /\ pc[c] # "idle" /\ signal[c] = "quiet" /\ js[realm[c]] = "open"
  /\ signal' = [signal EXCEPT ![c] = "aborted"]
  /\ UNCHANGED <<registryVars, resourceVars, callVars, jsVars, removed,
                 returned, drops>>

-----------------------------------------------------------------------------
(* The JavaScript thread: drop_handle, and the cleanup hook *)

Js(r, label) == js' = [js EXCEPT ![r] = label]

DropHandle(r, i) ==
  /\ js[r] = "open" /\ i \in UNION Range(returned)
  /\ TakeOut(r, Removable(r, i))
  /\ Js(r, "dropsignal")
  /\ js_id' = [js_id EXCEPT ![r] = i]
  /\ drops' = [drops EXCEPT ![r] = @ \cup {i}]
  /\ UNCHANGED <<resourceVars, callVars, signal, taken, returned>>

DropHandleSignal(r) ==
  /\ js[r] = "dropsignal"
  /\ ForgetSignal(r, js_id[r])
  /\ Js(r, "dropclose")
  /\ UNCHANGED <<registryVars, closed, active, callVars, js_id, taken,
                 removed, returned, drops>>

DropHandleClose(r) ==
  /\ js[r] = "dropclose"
  /\ CloseTaken(r)
  /\ Js(r, "open")
  /\ UNCHANGED <<resourceVars, callVars, signal, js_id, taken, returned, drops>>

(* Realm::cleanup: close and take the signals, abort them, release. *)
Cleanup(r) ==
  /\ js[r] = "open"
  /\ closed' = [closed EXCEPT ![r] = "yes"]
  /\ taken' = [taken EXCEPT ![r] = active[r] \cup {k[2] : k \in operations[r]}]
  /\ active' = [active EXCEPT ![r] = {}]
  /\ operations' = [operations EXCEPT ![r] = {}]
  /\ Js(r, "abort")
  /\ UNCHANGED <<registryVars, callVars, signal, js_id, removed, returned,
                 drops>>

AbortOperationsOnly(r) == {c \in taken[r] : pc[c] = "returned"}
AbortAll(r) == taken[r]

CleanupAbort(r) ==
  /\ js[r] = "abort"
  /\ signal' = [c \in Calls |-> IF c \in AbortAll(r) THEN "aborted"
                                                    ELSE signal[c]]
  /\ Js(r, "release")
  /\ UNCHANGED <<registryVars, resourceVars, callVars, js_id, taken, removed,
                 returned, drops>>

CleanupRelease(r) ==
  /\ js[r] = "release"
  /\ TakeOut(r, OwnedBy(r))
  /\ Js(r, "closeall")
  /\ UNCHANGED <<resourceVars, callVars, signal, js_id, taken, returned, drops>>

CleanupClose(r) ==
  /\ js[r] = "closeall"
  /\ CloseTaken(r)
  /\ Js(r, "down")
  /\ UNCHANGED <<resourceVars, callVars, signal, js_id, taken, returned, drops>>

-----------------------------------------------------------------------------
CallStep(c) ==
  \/ Request(c) \/ DispatchAborted(c) \/ DispatchInsert(c) \/ DispatchDrop(c)
  \/ DispatchDropClose(c) \/ Remember(c) \/ RememberRelease(c)
  \/ RememberClose(c) \/ Forget(c) \/ Finish(c)

JsStep(r) ==
  \/ DropHandleSignal(r) \/ DropHandleClose(r)
  \/ CleanupAbort(r) \/ CleanupRelease(r) \/ CleanupClose(r)

RealmNext ==
  \/ \E c \in Calls :
       \/ \E t \in Tasks, i \in 0 .. IdMax : Spawn(c, t, i)
       \/ CallStep(c) \/ DispatchAllocate(c) \/ DispatchFails(c)
       \/ UserAbort(c)
  \/ \E r \in Realms :
       \/ \E i \in 1 .. IdMax : DropHandle(r, i)
       \/ Cleanup(r) \/ JsStep(r)

RealmSpec == RealmInit /\ [][RealmNext]_realmVars

(***************************************************************************)
(* Fairness.  Tokio runs ready tasks and the JavaScript thread finishes    *)
(* what it began.  Making the resource (DispatchAllocate) may take forever *)
(* for an Operation: only the abort must end it.  The other handlers       *)
(* create their resource without waiting.                                  *)
(***************************************************************************)
RealmFairness ==
  /\ \A c \in Calls : /\ WF_realmVars(CallStep(c))
                      /\ WF_realmVars(task[c] = "create" /\ DispatchAllocate(c))
  /\ \A r \in Realms : WF_realmVars(JsStep(r))

RealmFairSpec == RealmSpec /\ RealmFairness

-----------------------------------------------------------------------------
(* Properties *)

InProgress(c) == pc[c] \notin {"idle", "failed", "returned"}
Ids == 0 .. IdMax

RealmTypeOK ==
  /\ next_id \in Ids
  /\ entries \subseteq [id : Ids, owner : Realms, kind : {"Operation", "Other"}]
  /\ consumer_closed \subseteq Ids
  /\ closed \in [Realms -> {"no", "yes"}] /\ active \in [Realms -> SUBSET Calls]
  /\ operations \in [Realms -> SUBSET (Ids \X Calls)]
  /\ pc \in [Calls -> {"idle", "request", "dispatch", "insert", "close",
                       "remember", "release", "closeall", "forget", "done",
                       "finish", "returned", "failed"}]
  /\ realm \in [Calls -> Realms] /\ id \in [Calls -> Ids]
  /\ task \in [Calls -> {"start", "create", "drop"}]
  /\ signal \in [Calls -> {"quiet", "aborted"}]
  /\ js \in [Realms -> {"open", "dropsignal", "dropclose", "abort",
                        "release", "closeall", "down"}]
  /\ js_id \in [Realms -> Ids] /\ taken \in [Realms -> SUBSET Calls]
  /\ removed \in [Calls \cup Realms -> SUBSET Ids]
  /\ returned \in [Realms -> SUBSET Ids] /\ drops \in [Realms -> SUBSET Ids]

(* An environment that was torn down owns nothing, once the calls that    *)
(* were in flight are over: what they created late is released too.       *)
TeardownIsComplete ==
  \A r \in Realms :
    js[r] \in {"closeall", "down"} /\ OwnedBy(r) # {} =>
      \E c \in Calls : realm[c] = r /\ pc[c] \in {"remember", "release"}

(* Every id names one resource for ever: no two calls are given the same, *)
(* none is given 0, and none is given again after the handle was dropped. *)
IdsAreUnique ==
  /\ \A c \in Calls : task[c] # "drop" /\ id[c] # 0 =>
       /\ next_id # 0 => id[c] < next_id
       /\ \A d \in Calls \ {c} : task[d] # "drop" => id[d] # id[c]
  /\ \A e \in entries : e.id # 0 /\ (next_id # 0 => e.id < next_id)

(* A handle lives until its own environment drops it or is torn down: no  *)
(* drop of a foreign environment touches it.                              *)
LiveUntilDropped ==
  \A r \in Realms : closed[r] = "no" =>
    \A i \in returned[r] \ drops[r] : \E e \in OwnedBy(r) : e.id = i

(* An Operation that left the registry is closed, or about to be: none is *)
(* left running without an owner.                                         *)
NoOrphanedOperation ==
  \A c \in Calls :
    task[c] = "start" /\ pc[c] \in {"remember", "release", "closeall",
                                    "forget", "done", "returned"} =>
      \/ \E e \in entries : e.id = id[c]
      \/ id[c] \in consumer_closed
      \/ \E p \in Calls \cup Realms : id[c] \in removed[p]

(* The realm keeps the signal of each live Operation that JavaScript can  *)
(* reach, and of no other: dropping the handle aborts and forgets it.     *)
SignalsFollowHandles ==
  \A r \in Realms : closed[r] = "no" =>
    /\ \A c \in Calls : /\ realm[c] = r /\ task[c] = "start"
                        /\ pc[c] = "returned" /\ id[c] \notin drops[r]
                        => <<id[c], c>> \in operations[r]
    /\ \A k \in operations[r] :
         \/ \E e \in OwnedBy(r) : e.id = k[1]
         \/ js[r] = "dropsignal" /\ js_id[r] = k[1]
         \/ \E c \in Calls : /\ realm[c] = r /\ task[c] = "drop"
                             /\ InProgress(c) /\ id[c] = k[1]

(* lib.rs and handle.rs: while an environment is open its handles stay     *)
(* live, no operation is without an owner, and kept signals follow them.   *)
HandlesAreCoherent ==
  LiveUntilDropped /\ NoOrphanedOperation /\ SignalsFollowHandles

(* Teardown ends every call in flight and leaves nothing owned, even one  *)
(* whose provider never answers.                                          *)
TeardownFinishes ==
  \A r \in Realms :
    closed[r] = "yes" ~>
      [](/\ js[r] = "down" /\ OwnedBy(r) = {}
         /\ \A c \in Calls : realm[c] = r => ~InProgress(c))
=============================================================================
