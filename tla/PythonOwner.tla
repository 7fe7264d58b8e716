----------------------------- MODULE PythonOwner -----------------------------
(***************************************************************************)
(* The interpreter owners of the Python binding, bindings/python/src/      *)
(* lib.rs.  Every object of an interpreter (the module's guard, a Client,  *)
(* an Abort) holds its owner; the last one dropped queues release_owner on *)
(* the runtime.  A blocking call waits for a worker that inserts a handle; *)
(* a Python signal ends the wait and cancels the worker, which stops at    *)
(* its next await only.                                                    *)
(***************************************************************************)
EXTENDS HandleRegistry

CONSTANTS
    Interpreters, Objects, Calls,
    TokenMax        \* owners ever allocated

VARIABLES
    tokens,         \* owners allocated so far
    owners,         \* OWNERS: the weak reference of each interpreter, 0 if none
    objects,        \* live objects: object, interpreter and token
    releases,       \* release_owner calls queued
    call,           \* per call: where its worker is
    made,           \* per call: the handle its worker inserted, or 0
    of,             \* per call: the object it was made on
    waiting,        \* calls Python waits for
    known,          \* [token, id] of the handles Python holds
    dropping        \* and of those drop_later has queued

pyVars == <<tokens, owners, objects, releases, call, made, of,
            waiting, known, dropping>>
ownerVars == <<tokens, owners, objects, releases>>
vars == <<registryVars, pyVars>>

NoObject == [object |-> 0, interpreter |-> 0, token |-> 0]
Holds(objs, token) == \E o \in objs : o.token = token

Init ==
    /\ RegistryInit
    /\ tokens = 0 /\ owners = [i \in Interpreters |-> 0]
    /\ objects = {} /\ releases = {}
    /\ call = [c \in Calls |-> "idle"] /\ of = [c \in Calls |-> NoObject]
    /\ made = [c \in Calls |-> 0] /\ waiting = {} /\ known = {} /\ dropping = {}

-----------------------------------------------------------------------------
CurrentOwnerUnshared(i) == tokens + 1

(* current_owner, under the GIL and the lock of OWNERS: the interpreter's  *)
(* owner while something holds it, else a new one.                         *)
CurrentOwner(i) == IF Holds(objects, owners[i]) THEN owners[i] ELSE tokens + 1

NewObject(o, i) ==
    /\ \A p \in objects : p.object # o
    /\ CurrentOwner(i) <= TokenMax
    /\ objects' = objects \cup
          {[object |-> o, interpreter |-> i, token |-> CurrentOwner(i)]}
    /\ owners' = [owners EXCEPT ![i] = CurrentOwner(i)]
    /\ tokens' = IF CurrentOwner(i) > tokens THEN CurrentOwner(i) ELSE tokens
    /\ UNCHANGED <<registryVars, releases, call, made, of, waiting, known,
                   dropping>>

LeavesOwner(o) == ~Holds(objects \ {o}, o.token)

(* An object nobody uses goes; InterpreterOwner is dropped with the last.  *)
DropObject(o) ==
    /\ o \in objects /\ \A c \in waiting : of[c] # o
    /\ objects' = objects \ {o}
    /\ releases' = releases \cup (IF LeavesOwner(o) THEN {o.token} ELSE {})
    /\ UNCHANGED <<registryVars, tokens, owners, call, made, of,
                   waiting, known, dropping>>

Release(token) ==
    /\ token \in releases
    /\ releases' = releases \ {token}
    /\ entries' = entries \ OwnedBy(token)
    /\ consumer_closed' = consumer_closed \cup OperationsIn(OwnedBy(token))
    /\ UNCHANGED <<next_id, tokens, owners, objects, call, made, of, waiting, known,
                   dropping>>

-----------------------------------------------------------------------------
(* Client.call: check_owner, then the worker of wait_call.                 *)
Call(c, o, i) ==
    /\ call[c] = "idle" /\ o \in objects
    /\ CurrentOwner(i) = o.token
    /\ call' = [call EXCEPT ![c] = "running"] /\ of' = [of EXCEPT ![c] = o]
    /\ waiting' = waiting \cup {c}
    /\ UNCHANGED <<registryVars, ownerVars, made, known, dropping>>

(* check_owner itself asks for the owner of the interpreter the object is  *)
(* in: one that has none left gets an owner for the test, dropped after.   *)
(* Where it has one, a refusal changes nothing.                            *)
CallRefused(o, i) ==
    /\ o \in objects /\ ~Holds(objects, owners[i])
    /\ CurrentOwner(i) # o.token /\ CurrentOwner(i) <= TokenMax
    /\ tokens' = CurrentOwner(i)
    /\ owners' = [owners EXCEPT ![i] = CurrentOwner(i)]
    /\ releases' = releases \cup {CurrentOwner(i)}
    /\ UNCHANGED <<registryVars, objects, call, made, of, waiting, known, dropping>>

(* The worker has a copy of the token and keeps no object alive.           *)
WorkerInserts(c) ==
    /\ call[c] = "running" /\ next_id # 0
    /\ next_id' = FollowingId
    /\ entries' = entries \cup
          {[id |-> next_id, owner |-> of[c].token, kind |-> "Operation"]}
    /\ call' = [call EXCEPT ![c] = "inserted"] /\ made' = [made EXCEPT ![c] = next_id]
    /\ UNCHANGED <<consumer_closed, ownerVars, of, waiting, known, dropping>>

(* Its handler fails, or it was cancelled and is at an await.              *)
WorkerEnds(c) ==
    /\ call[c] = "running" /\ call' = [call EXCEPT ![c] = "failed"]
    /\ UNCHANGED <<registryVars, ownerVars, made, of, waiting, known, dropping>>

Return(c) ==
    /\ c \in waiting /\ call[c] # "running"
    /\ waiting' = waiting \ {c}
    /\ known' = IF call[c] # "inserted" THEN known
                ELSE known \cup {[token |-> of[c].token, id |-> made[c]]}
    /\ UNCHANGED <<registryVars, ownerVars, call, made, of, dropping>>

(* check_signals raises: the worker is cancelled and the result is lost.   *)
Interrupt(c) ==
    /\ c \in waiting /\ waiting' = waiting \ {c}
    /\ UNCHANGED <<registryVars, ownerVars, call, made, of, known, dropping>>

(* drop_later, and the handle.drop it queues.                              *)
DropLater(h) ==
    /\ h \in known /\ Holds(objects, h.token)
    /\ known' = known \ {h} /\ dropping' = dropping \cup {h}
    /\ UNCHANGED <<registryVars, ownerVars, call, made, of, waiting>>

HandleDrop(h) ==
    /\ h \in dropping /\ dropping' = dropping \ {h}
    /\ entries' = entries \ Removable(h.token, h.id)
    /\ consumer_closed' = consumer_closed \cup OperationsIn(Removable(h.token, h.id))
    /\ UNCHANGED <<next_id, ownerVars, call, made, of, waiting, known>>

Next ==
    \/ \E i \in Interpreters :
          \/ \E o \in Objects : NewObject(o, i)
          \/ \E c \in Calls, o \in objects : Call(c, o, i)
          \/ \E o \in objects : CallRefused(o, i)
    \/ \E o \in objects : DropObject(o)
    \/ \E token \in releases : Release(token)
    \/ \E c \in Calls : WorkerInserts(c) \/ WorkerEnds(c) \/ Return(c) \/ Interrupt(c)
    \/ \E h \in known : DropLater(h)
    \/ \E h \in dropping : HandleDrop(h)

Spec == Init /\ [][Next]_vars

-----------------------------------------------------------------------------
(* The objects of one interpreter share an owner that no other interpreter *)
(* has (current_owner), and a handle Python holds is in the registry while *)
(* any of them lives: a release never outruns an owner in use.             *)
OwnersAreSafe ==
    /\ \A o, p \in objects : o.interpreter = p.interpreter <=> o.token = p.token
    /\ \A h \in known : Holds(objects, h.token) => Removable(h.token, h.id) # {}
=============================================================================
