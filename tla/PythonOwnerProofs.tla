-------------------------- MODULE PythonOwnerProofs --------------------------
(***************************************************************************)
(* Proofs about the interpreter owners of the Python binding: no object    *)
(* ever holds an owner whose release is queued, and no queued drop names a *)
(* handle that Python still holds.                                         *)
(***************************************************************************)
EXTENDS PythonOwner, TLAPS

Objs == [object : Objects, interpreter : Interpreters, token : 1 .. tokens]

OwnerTypes ==
  /\ tokens \in Nat /\ next_id \in Nat
  /\ owners \in [Interpreters -> 0 .. tokens]
  /\ objects \subseteq Objs /\ releases \subseteq 1 .. tokens
  /\ call \in [Calls -> {"idle", "running", "inserted", "failed"}]
  /\ made \in [Calls -> Nat] /\ waiting \subseteq Calls
  /\ DOMAIN of = Calls /\ \A c \in Calls : of[c].token \in 0 .. tokens
  /\ \A h \in known : h.token \in 0 .. tokens

(* The owner of OWNERS is the one the interpreter's objects hold, and two  *)
(* interpreters never share one.                                           *)
OwnersArePrivate ==
  /\ \A o \in objects : owners[o.interpreter] = o.token
  /\ \A i, j \in Interpreters : owners[i] = owners[j] /\ owners[i] # 0 => i = j

(* An owner whose release is queued is held by nothing.                    *)
ReleasedAreGone == \A token \in releases : ~Holds(objects, token)

(* The object of a call that Python waits for is alive.                    *)
WaitersHold == \A c \in waiting : call[c] # "idle" /\ of[c] \in objects

(* The ids that workers inserted are all different and below NEXT_ID.      *)
IdsAreOwn ==
  /\ \A c \in Calls : call[c] = "inserted" => next_id = 0 \/ made[c] < next_id
  /\ \A c, d \in Calls :
        call[c] = "inserted" /\ call[d] = "inserted" /\ made[c] = made[d] => c = d

HandleOf(c) == [token |-> of[c].token, id |-> made[c]]

(* A handle comes from one call that has returned; it is dropped only once *)
(* Python no longer holds it.                                              *)
HandlesAreReturned ==
  /\ \A h \in known \cup dropping : \E c \in Calls \ waiting :
        call[c] = "inserted" /\ h = HandleOf(c)
  /\ known \cap dropping = {}

Kept(h) == \E e \in entries : e.id = h.id /\ e.owner = h.token

(* Held or about to be returned, a handle is in the registry.              *)
HandlesAreKept ==
  /\ \A h \in known : Holds(objects, h.token) => Kept(h)
  /\ \A c \in waiting : call[c] = "inserted" => Kept(HandleOf(c))

OwnerInv ==
  OwnerTypes /\ OwnersArePrivate /\ ReleasedAreGone /\ WaitersHold
  /\ IdsAreOwn /\ HandlesAreReturned /\ HandlesAreKept

-----------------------------------------------------------------------------
(* current_owner gives the owner the interpreter's objects hold, or one    *)
(* that nothing has ever held.                                             *)
LEMMA CurrentOwnerIs ==
  ASSUME OwnerTypes, OwnersArePrivate, NEW i \in Interpreters
  PROVE  \/ CurrentOwner(i) = owners[i] /\ Holds(objects, owners[i])
            /\ CurrentOwner(i) \in 1 .. tokens
         \/ CurrentOwner(i) = tokens + 1 /\ ~Holds(objects, owners[i])
            /\ ~Holds(objects, tokens + 1)
  <1>1. CASE Holds(objects, owners[i])
    BY <1>1 DEF CurrentOwner, Holds, OwnerTypes, Objs
  <1>2. CASE ~Holds(objects, owners[i])
    <2>1. ~Holds(objects, tokens + 1)
      BY DEF Holds, OwnerTypes, Objs
    <2> QED BY <1>2, <2>1 DEF CurrentOwner
  <1> QED BY <1>1, <1>2

LEMMA NewObjectKeeps ==
  ASSUME OwnerInv, NEW o \in Objects, NEW i \in Interpreters, NewObject(o, i)
  PROVE  OwnerInv'
  <1> DEFINE t == CurrentOwner(i)
  <1> DEFINE new == [object |-> o, interpreter |-> i, token |-> t]
  <1>1. /\ OwnerTypes /\ OwnersArePrivate /\ ReleasedAreGone /\ WaitersHold
        /\ IdsAreOwn /\ HandlesAreReturned /\ HandlesAreKept
    BY DEF OwnerInv
  <1>2. /\ objects' = objects \cup {new} /\ owners' = [owners EXCEPT ![i] = t]
        /\ tokens' = IF t > tokens THEN t ELSE tokens
        /\ next_id' = next_id /\ entries' = entries /\ releases' = releases
        /\ call' = call /\ made' = made /\ of' = of /\ waiting' = waiting
        /\ known' = known /\ dropping' = dropping
    BY DEF NewObject, registryVars
  <1>3. \/ t = owners[i] /\ Holds(objects, t) /\ t \in 1 .. tokens /\ tokens' = tokens
        \/ t = tokens + 1 /\ ~Holds(objects, owners[i]) /\ ~Holds(objects, t)
           /\ tokens' = tokens + 1
    <2> HIDE DEF t
    <2>1. tokens \in Nat
      BY <1>1 DEF OwnerTypes
    <2>2. \/ t = owners[i] /\ Holds(objects, owners[i]) /\ t \in 1 .. tokens
          \/ t = tokens + 1 /\ ~Holds(objects, owners[i]) /\ ~Holds(objects, tokens + 1)
      BY <1>1, CurrentOwnerIs DEF t
    <2> QED BY <1>2, <2>1, <2>2
  <1> HIDE DEF t
  <1>4. /\ tokens \in Nat /\ tokens' \in Nat /\ tokens <= tokens' /\ t \in 1 .. tokens'
    BY <1>1, <1>3 DEF OwnerTypes
  <1>5. OwnerTypes'
    <2>1. objects' \subseteq Objs' /\ releases' \subseteq 1 .. tokens'
      BY <1>1, <1>2, <1>4 DEF OwnerTypes, Objs
    <2>2. owners' \in [Interpreters -> 0 .. tokens']
      BY <1>1, <1>2, <1>4 DEF OwnerTypes
    <2>3. /\ \A c \in Calls : of'[c].token \in 0 .. tokens'
          /\ \A h \in known' : h.token \in 0 .. tokens'
      BY <1>1, <1>2, <1>4 DEF OwnerTypes
    <2> QED BY <1>1, <1>2, <1>4, <2>1, <2>2, <2>3 DEF OwnerTypes
  <1>6. OwnersArePrivate'
    <2>1. \A p \in objects' : owners'[p.interpreter] = p.token
      BY <1>1, <1>2, <1>3 DEF OwnersArePrivate, OwnerTypes, Objs, Holds
    <2>2. \A j \in Interpreters : j # i => owners[j] # t
      BY <1>1, <1>3, <1>4 DEF OwnersArePrivate, OwnerTypes
    <2>3. \A j, k \in Interpreters : owners'[j] = owners'[k] /\ owners'[j] # 0 => j = k
      BY <1>1, <1>2, <2>2 DEF OwnersArePrivate, OwnerTypes
    <2> QED BY <2>1, <2>3 DEF OwnersArePrivate
  <1>7. \A token \in 0 .. tokens : Holds(objects', token) => Holds(objects, token)
    BY <1>1, <1>2, <1>3 DEF Holds, OwnerTypes
  <1>8. ReleasedAreGone'
    <2>1. releases \subseteq 0 .. tokens
      BY <1>1 DEF OwnerTypes
    <2>2. \A token \in releases : ~Holds(objects', token)
      BY <1>1, <1>7, <2>1 DEF ReleasedAreGone
    <2> QED BY <1>2, <2>2 DEF ReleasedAreGone
  <1>9. WaitersHold' /\ IdsAreOwn' /\ HandlesAreReturned'
    BY <1>1, <1>2 DEF WaitersHold, IdsAreOwn, HandlesAreReturned, HandleOf
  <1>10. HandlesAreKept'
    BY <1>1, <1>2, <1>7 DEF HandlesAreKept, Kept, HandleOf, OwnerTypes
  <1> QED BY <1>5, <1>6, <1>8, <1>9, <1>10 DEF OwnerInv

LEMMA DropObjectKeeps ==
  ASSUME OwnerInv, NEW o \in objects, DropObject(o)
  PROVE  OwnerInv'
  <1>1. /\ OwnerTypes /\ OwnersArePrivate /\ ReleasedAreGone /\ WaitersHold
        /\ IdsAreOwn /\ HandlesAreReturned /\ HandlesAreKept
    BY DEF OwnerInv
  <1>2. /\ objects' = objects \ {o} /\ tokens' = tokens /\ owners' = owners
        /\ next_id' = next_id /\ entries' = entries
        /\ call' = call /\ made' = made /\ of' = of /\ waiting' = waiting
        /\ known' = known /\ dropping' = dropping
        /\ releases' = releases \cup (IF LeavesOwner(o) THEN {o.token} ELSE {})
        /\ \A c \in waiting : of[c] # o
    BY DEF DropObject, registryVars
  <1>3. \A token : Holds(objects', token) => Holds(objects, token)
    BY <1>2 DEF Holds
  <1>4. OwnerTypes' /\ OwnersArePrivate' /\ WaitersHold' /\ IdsAreOwn'
    <2>1. o.token \in 1 .. tokens
      BY <1>1 DEF OwnerTypes, Objs
    <2>2. OwnerTypes'
      BY <1>1, <1>2, <2>1 DEF OwnerTypes, Objs
    <2>3. OwnersArePrivate' /\ WaitersHold' /\ IdsAreOwn'
      BY <1>1, <1>2 DEF OwnersArePrivate, WaitersHold, IdsAreOwn
    <2> QED BY <2>2, <2>3
  <1>5. ReleasedAreGone'
    BY <1>1, <1>2, <1>3 DEF ReleasedAreGone, LeavesOwner
  <1>6. HandlesAreReturned' /\ HandlesAreKept'
    BY <1>1, <1>2, <1>3 DEF HandlesAreReturned, HandlesAreKept, Kept, HandleOf
  <1> QED BY <1>4, <1>5, <1>6 DEF OwnerInv

(* A release only takes entries of an owner that nothing holds.            *)
LEMMA ReleaseKeeps ==
  ASSUME OwnerInv, NEW token \in releases, Release(token)
  PROVE  OwnerInv'
  <1>1. /\ OwnerTypes /\ OwnersArePrivate /\ ReleasedAreGone /\ WaitersHold
        /\ IdsAreOwn /\ HandlesAreReturned /\ HandlesAreKept
    BY DEF OwnerInv
  <1>2. /\ releases' = releases \ {token} /\ entries' = entries \ OwnedBy(token)
        /\ objects' = objects /\ tokens' = tokens /\ owners' = owners
        /\ next_id' = next_id /\ call' = call /\ made' = made /\ of' = of
        /\ waiting' = waiting /\ known' = known /\ dropping' = dropping
    BY DEF Release
  <1>3. /\ OwnerTypes' /\ OwnersArePrivate' /\ ReleasedAreGone' /\ WaitersHold'
        /\ IdsAreOwn' /\ HandlesAreReturned'
    BY <1>1, <1>2 DEF OwnerTypes, Objs, OwnersArePrivate, ReleasedAreGone,
       WaitersHold, IdsAreOwn, HandlesAreReturned, HandleOf
  <1>4. \A h : Holds(objects, h.token) /\ Kept(h) => Kept(h)'
    BY <1>1, <1>2 DEF Kept, OwnedBy, ReleasedAreGone
  <1>5. HandlesAreKept'
    <2>1. \A h \in known' : Holds(objects', h.token) => Kept(h)'
      BY <1>1, <1>2, <1>4 DEF HandlesAreKept
    <2>2. \A c \in waiting : call[c] = "inserted" => Kept(HandleOf(c))
      BY <1>1 DEF HandlesAreKept
    <2>3. \A c \in waiting : call[c] = "inserted" =>
             \E e \in entries' : e.id = made[c] /\ e.owner = of[c].token
      BY <1>1, <1>2, <2>2 DEF Kept, HandleOf, OwnedBy, ReleasedAreGone, WaitersHold, Holds
    <2> QED BY <1>2, <2>1, <2>3 DEF HandlesAreKept, Kept, HandleOf
  <1> QED BY <1>3, <1>5 DEF OwnerInv

(* The owner made to refuse a call is new, and nothing holds it.           *)
LEMMA CallRefusedKeeps ==
  ASSUME OwnerInv, NEW o \in objects, NEW i \in Interpreters, CallRefused(o, i)
  PROVE  OwnerInv'
  <1> DEFINE t == tokens + 1
  <1>1. /\ OwnerTypes /\ OwnersArePrivate /\ ReleasedAreGone /\ WaitersHold
        /\ IdsAreOwn /\ HandlesAreReturned /\ HandlesAreKept
    BY DEF OwnerInv
  <1>2. /\ ~Holds(objects, owners[i]) /\ tokens' = t /\ owners' = [owners EXCEPT ![i] = t]
        /\ releases' = releases \cup {t} /\ objects' = objects
        /\ next_id' = next_id /\ entries' = entries
        /\ call' = call /\ made' = made /\ of' = of /\ waiting' = waiting
        /\ known' = known /\ dropping' = dropping
    BY DEF CallRefused, CurrentOwner, registryVars
  <1>3. tokens \in Nat /\ t \in Nat /\ tokens < t /\ ~Holds(objects, t)
    BY <1>1 DEF OwnerTypes, Objs, Holds
  <1> HIDE DEF t
  <1>4. OwnerTypes'
    <2>0. t \in 1 .. t /\ \A k \in 1 .. tokens : k \in 1 .. t
      BY <1>3
    <2>1a. releases \subseteq 1 .. tokens /\ objects \subseteq Objs
      BY <1>1 DEF OwnerTypes
    <2>1b. releases' \subseteq 1 .. tokens'
      BY <1>2, <2>0, <2>1a
    <2>1c. \A p \in objects' : p \in Objs'
      BY <1>2, <2>0, <2>1a DEF Objs
    <2>1. objects' \subseteq Objs' /\ releases' \subseteq 1 .. tokens'
      BY <2>1b, <2>1c
    <2>2. owners' \in [Interpreters -> 0 .. tokens']
      BY <1>1, <1>2, <1>3 DEF OwnerTypes
    <2>3. /\ \A c \in Calls : of'[c].token \in 0 .. tokens'
          /\ \A h \in known' : h.token \in 0 .. tokens'
      BY <1>1, <1>2, <1>3 DEF OwnerTypes
    <2> QED BY <1>1, <1>2, <1>3, <2>1, <2>2, <2>3 DEF OwnerTypes
  <1>5. OwnersArePrivate'
    <2>1. \A p \in objects : p.interpreter \in Interpreters /\ p.interpreter # i
      BY <1>1, <1>2 DEF OwnersArePrivate, OwnerTypes, Objs, Holds
    <2>2. \A p \in objects' : owners'[p.interpreter] = p.token
      BY <1>1, <1>2, <2>1 DEF OwnersArePrivate, OwnerTypes
    <2>3. \A j \in Interpreters : owners[j] # t
      BY <1>1, <1>3 DEF OwnerTypes
    <2>4. \A j, k \in Interpreters : owners'[j] = owners'[k] /\ owners'[j] # 0 => j = k
      BY <1>1, <1>2, <2>3 DEF OwnersArePrivate, OwnerTypes
    <2> QED BY <2>2, <2>4 DEF OwnersArePrivate
  <1>6. ReleasedAreGone'
    BY <1>1, <1>2, <1>3 DEF ReleasedAreGone
  <1>7. WaitersHold' /\ IdsAreOwn' /\ HandlesAreReturned' /\ HandlesAreKept'
    BY <1>1, <1>2 DEF WaitersHold, IdsAreOwn, HandlesAreReturned, HandlesAreKept, Kept, HandleOf
  <1> QED BY <1>4, <1>5, <1>6, <1>7 DEF OwnerInv

-----------------------------------------------------------------------------
LEMMA CallKeeps ==
  ASSUME OwnerInv, NEW c \in Calls, NEW o \in objects, NEW i \in Interpreters,
         Call(c, o, i)
  PROVE  OwnerInv'
  <1>1. /\ OwnerTypes /\ OwnersArePrivate /\ ReleasedAreGone /\ WaitersHold
        /\ IdsAreOwn /\ HandlesAreReturned /\ HandlesAreKept
    BY DEF OwnerInv
  <1>2. /\ releases' = releases /\ entries' = entries
        /\ objects' = objects /\ tokens' = tokens /\ owners' = owners
        /\ next_id' = next_id /\ made' = made
        /\ known' = known /\ dropping' = dropping
        /\ call[c] = "idle" /\ call' = [call EXCEPT ![c] = "running"]
        /\ of' = [of EXCEPT ![c] = o] /\ waiting' = waiting \cup {c}
    BY DEF Call, registryVars, ownerVars
  <1>3. OwnerTypes'
    <2>1. o.token \in 0 .. tokens
      BY <1>1 DEF OwnerTypes, Objs
    <2>2. DOMAIN of' = Calls /\ \A d \in Calls : of'[d].token \in 0 .. tokens
      BY <1>1, <1>2, <2>1 DEF OwnerTypes
    <2> QED BY <1>1, <1>2, <2>2 DEF OwnerTypes, Objs
  <1>4. OwnersArePrivate' /\ ReleasedAreGone'
    BY <1>1, <1>2 DEF OwnersArePrivate, ReleasedAreGone
  <1>5. WaitersHold' /\ IdsAreOwn'
    BY <1>1, <1>2 DEF WaitersHold, IdsAreOwn, OwnerTypes
  <1>6. \A d \in Calls : call'[d] = "inserted" =>
           d # c /\ call[d] = "inserted" /\ of'[d] = of[d]
    BY <1>1, <1>2 DEF OwnerTypes
  <1>7. HandlesAreReturned' /\ HandlesAreKept'
    <2>1. \A d \in Calls \ waiting : call[d] = "inserted" =>
             d \in Calls \ waiting' /\ call'[d] = "inserted" /\ of'[d] = of[d]
      BY <1>1, <1>2 DEF OwnerTypes
    <2>2. HandlesAreReturned'
      BY <1>1, <1>2, <2>1 DEF HandlesAreReturned, HandleOf
    <2>3. HandlesAreKept'
      BY <1>1, <1>2, <1>6 DEF HandlesAreKept, HandleOf, Kept, OwnerTypes
    <2> QED BY <2>2, <2>3
  <1> QED BY <1>3, <1>4, <1>5, <1>7 DEF OwnerInv

(* The inserted id is NEXT_ID, above every id that was given out.          *)
LEMMA WorkerInsertsKeeps ==
  ASSUME OwnerInv, NEW c \in Calls, WorkerInserts(c)
  PROVE  OwnerInv'
  <1>1. /\ OwnerTypes /\ OwnersArePrivate /\ ReleasedAreGone /\ WaitersHold
        /\ IdsAreOwn /\ HandlesAreReturned /\ HandlesAreKept
    BY DEF OwnerInv
  <1> DEFINE new == [id |-> next_id, owner |-> of[c].token, kind |-> "Operation"]
  <1>2. /\ releases' = releases /\ entries' = entries \cup {new}
        /\ objects' = objects /\ tokens' = tokens /\ owners' = owners
        /\ next_id' = FollowingId /\ next_id # 0
        /\ made' = [made EXCEPT ![c] = next_id]
        /\ known' = known /\ dropping' = dropping
        /\ call[c] = "running" /\ call' = [call EXCEPT ![c] = "inserted"]
        /\ of' = of /\ waiting' = waiting
    BY DEF WorkerInserts, ownerVars
  <1>3. next_id' \in Nat /\ (next_id' = 0 \/ next_id < next_id')
    BY <1>1, <1>2, IdAssumption DEF FollowingId, OwnerTypes
  <1>4. OwnerTypes'
    BY <1>1, <1>2, <1>3 DEF OwnerTypes, Objs
  <1>5. OwnersArePrivate' /\ ReleasedAreGone' /\ WaitersHold'
    BY <1>1, <1>2 DEF OwnersArePrivate, ReleasedAreGone, WaitersHold, OwnerTypes
  <1>6. \A d \in Calls : d # c => call'[d] = call[d] /\ made'[d] = made[d]
    BY <1>1, <1>2 DEF OwnerTypes
  <1>7. call'[c] = "inserted" /\ made'[c] = next_id
    BY <1>1, <1>2 DEF OwnerTypes
  <1>8. \A d \in Calls : d # c /\ call[d] = "inserted" => made[d] < next_id
    BY <1>1, <1>2 DEF IdsAreOwn
  <1>9. IdsAreOwn'
    <2>1. \A d \in Calls : call'[d] = "inserted" => next_id' = 0 \/ made'[d] < next_id'
      BY <1>1, <1>3, <1>6, <1>7, <1>8 DEF OwnerTypes
    <2>2. \A d \in Calls : d # c /\ call[d] = "inserted" => made[d] # next_id
      BY <1>1, <1>8 DEF OwnerTypes
    <2>3. \A d, e \in Calls : call'[d] = "inserted" /\ call'[e] = "inserted"
                              /\ made'[d] = made'[e] => d = e
      BY <1>1, <1>6, <1>7, <2>2 DEF IdsAreOwn
    <2> QED BY <2>1, <2>3 DEF IdsAreOwn
  <1>10. HandlesAreReturned'
    <2>1. \A d \in Calls \ waiting : call[d] = "inserted" =>
             d \in Calls \ waiting' /\ call'[d] = "inserted"
             /\ of'[d] = of[d] /\ made'[d] = made[d]
      BY <1>2, <1>6
    <2> QED BY <1>1, <1>2, <2>1 DEF HandlesAreReturned, HandleOf
  <1>11. HandlesAreKept'
    <2>1. \A h \in known' : Holds(objects', h.token) =>
             \E e \in entries' : e.id = h.id /\ e.owner = h.token
      BY <1>1, <1>2 DEF HandlesAreKept, Kept
    <2>2. \A d \in waiting' : call'[d] = "inserted" =>
             \E e \in entries' : e.id = made'[d] /\ e.owner = of'[d].token
      <3> SUFFICES ASSUME NEW d \in waiting', call'[d] = "inserted"
                   PROVE  \E e \in entries' : e.id = made'[d] /\ e.owner = of'[d].token
        OBVIOUS
      <3>1. CASE d = c
        <4>1. new \in entries' /\ new.id = made'[c] /\ new.owner = of'[c].token
          BY <1>2, <1>7
        <4> QED BY <3>1, <4>1
      <3>2. CASE d # c
        <4>1. d \in Calls /\ d \in waiting /\ call[d] = "inserted" /\ made'[d] = made[d]
          BY <3>2, <1>1, <1>2, <1>6 DEF OwnerTypes
        <4>2. \E e \in entries : e.id = made[d] /\ e.owner = of[d].token
          BY <4>1, <1>1 DEF HandlesAreKept, Kept, HandleOf
        <4> QED BY <4>1, <4>2, <1>2
      <3> QED BY <3>1, <3>2
    <2> QED BY <2>1, <2>2 DEF HandlesAreKept, Kept, HandleOf
  <1> QED BY <1>4, <1>5, <1>9, <1>10, <1>11 DEF OwnerInv

LEMMA WorkerEndsKeeps ==
  ASSUME OwnerInv, NEW c \in Calls, WorkerEnds(c)
  PROVE  OwnerInv'
  <1>1. /\ OwnerTypes /\ OwnersArePrivate /\ ReleasedAreGone /\ WaitersHold
        /\ IdsAreOwn /\ HandlesAreReturned /\ HandlesAreKept
    BY DEF OwnerInv
  <1>2. /\ releases' = releases /\ entries' = entries
        /\ objects' = objects /\ tokens' = tokens /\ owners' = owners
        /\ next_id' = next_id /\ made' = made /\ of' = of /\ waiting' = waiting
        /\ known' = known /\ dropping' = dropping
        /\ call[c] = "running" /\ call' = [call EXCEPT ![c] = "failed"]
    BY DEF WorkerEnds, registryVars, ownerVars
  <1>3. \A d \in Calls : call'[d] = "inserted" <=> call[d] = "inserted"
    BY <1>1, <1>2 DEF OwnerTypes
  <1>4. OwnerTypes'
    BY <1>1, <1>2 DEF OwnerTypes, Objs
  <1>5. OwnersArePrivate' /\ ReleasedAreGone' /\ WaitersHold'
    BY <1>1, <1>2 DEF OwnersArePrivate, ReleasedAreGone, WaitersHold, OwnerTypes
  <1>6. IdsAreOwn' /\ HandlesAreReturned'
    BY <1>1, <1>2, <1>3 DEF IdsAreOwn, HandlesAreReturned, HandleOf
  <1>7. HandlesAreKept'
    BY <1>1, <1>2, <1>3 DEF HandlesAreKept, HandleOf, Kept, OwnerTypes
  <1> QED BY <1>4, <1>5, <1>6, <1>7 DEF OwnerInv

LEMMA ReturnKeeps ==
  ASSUME OwnerInv, NEW c \in Calls, Return(c)
  PROVE  OwnerInv'
  <1>1. /\ OwnerTypes /\ OwnersArePrivate /\ ReleasedAreGone /\ WaitersHold
        /\ IdsAreOwn /\ HandlesAreReturned /\ HandlesAreKept
    BY DEF OwnerInv
  <1>2. /\ releases' = releases /\ entries' = entries
        /\ objects' = objects /\ tokens' = tokens /\ owners' = owners
        /\ next_id' = next_id /\ made' = made /\ of' = of /\ call' = call
        /\ dropping' = dropping
        /\ c \in waiting /\ waiting' = waiting \ {c}
        /\ known' = IF call[c] # "inserted" THEN known
                    ELSE known \cup {HandleOf(c)}
    BY DEF Return, registryVars, ownerVars, HandleOf
  <1>3. OwnerTypes'
    BY <1>1, <1>2 DEF OwnerTypes, Objs, HandleOf
  <1>4. OwnersArePrivate' /\ ReleasedAreGone' /\ WaitersHold' /\ IdsAreOwn'
    BY <1>1, <1>2 DEF OwnersArePrivate, ReleasedAreGone, WaitersHold, IdsAreOwn
  <1>5. HandlesAreReturned'
    <2>1. \A h \in known' \cup dropping' : \E d \in Calls \ waiting' :
             call[d] = "inserted" /\ h = HandleOf(d)
      BY <1>1, <1>2 DEF HandlesAreReturned
    <2>2. call[c] = "inserted" => HandleOf(c) \notin dropping
      <3> SUFFICES ASSUME call[c] = "inserted", HandleOf(c) \in dropping
                   PROVE  FALSE
        OBVIOUS
      <3>1. PICK d \in Calls \ waiting : call[d] = "inserted" /\ HandleOf(c) = HandleOf(d)
        BY <1>1 DEF HandlesAreReturned
      <3>2. made[c] = made[d]
        BY <3>1 DEF HandleOf
      <3> QED BY <1>1, <1>2, <3>1, <3>2 DEF IdsAreOwn
    <2>3. known' \cap dropping' = {}
      BY <1>1, <1>2, <2>2 DEF HandlesAreReturned
    <2> QED BY <1>2, <2>1, <2>3 DEF HandlesAreReturned, HandleOf
  <1>6. HandlesAreKept'
    <2>1. \A h \in known' : Holds(objects, h.token) => Kept(h)
      BY <1>1, <1>2 DEF HandlesAreKept
    <2>2. \A d \in waiting' : call[d] = "inserted" => Kept(HandleOf(d))
      BY <1>1, <1>2 DEF HandlesAreKept
    <2> QED BY <1>2, <2>1, <2>2 DEF HandlesAreKept, Kept, HandleOf
  <1> QED BY <1>3, <1>4, <1>5, <1>6 DEF OwnerInv

LEMMA InterruptKeeps ==
  ASSUME OwnerInv, NEW c \in Calls, Interrupt(c)
  PROVE  OwnerInv'
  <1>1. /\ OwnerTypes /\ OwnersArePrivate /\ ReleasedAreGone /\ WaitersHold
        /\ IdsAreOwn /\ HandlesAreReturned /\ HandlesAreKept
    BY DEF OwnerInv
  <1>2. /\ releases' = releases /\ entries' = entries
        /\ objects' = objects /\ tokens' = tokens /\ owners' = owners
        /\ next_id' = next_id /\ made' = made /\ of' = of /\ call' = call
        /\ dropping' = dropping /\ known' = known /\ waiting' = waiting \ {c}
    BY DEF Interrupt, registryVars, ownerVars
  <1>3. OwnerTypes'
    BY <1>1, <1>2 DEF OwnerTypes, Objs
  <1>4. OwnersArePrivate' /\ ReleasedAreGone' /\ WaitersHold' /\ IdsAreOwn'
    BY <1>1, <1>2 DEF OwnersArePrivate, ReleasedAreGone, WaitersHold, IdsAreOwn
  <1>5. HandlesAreReturned' /\ HandlesAreKept'
    BY <1>1, <1>2 DEF HandlesAreReturned, HandlesAreKept, Kept, HandleOf
  <1> QED BY <1>3, <1>4, <1>5 DEF OwnerInv

LEMMA DropLaterKeeps ==
  ASSUME OwnerInv, NEW h \in known, DropLater(h)
  PROVE  OwnerInv'
  <1>1. /\ OwnerTypes /\ OwnersArePrivate /\ ReleasedAreGone /\ WaitersHold
        /\ IdsAreOwn /\ HandlesAreReturned /\ HandlesAreKept
    BY DEF OwnerInv
  <1>2. /\ releases' = releases /\ entries' = entries
        /\ objects' = objects /\ tokens' = tokens /\ owners' = owners
        /\ next_id' = next_id /\ made' = made /\ of' = of /\ call' = call
        /\ waiting' = waiting
        /\ known' = known \ {h} /\ dropping' = dropping \cup {h}
    BY DEF DropLater, registryVars, ownerVars
  <1>3. OwnerTypes'
    BY <1>1, <1>2 DEF OwnerTypes, Objs
  <1>4. OwnersArePrivate' /\ ReleasedAreGone' /\ WaitersHold' /\ IdsAreOwn'
    BY <1>1, <1>2 DEF OwnersArePrivate, ReleasedAreGone, WaitersHold, IdsAreOwn
  <1>5. HandlesAreReturned' /\ HandlesAreKept'
    BY <1>1, <1>2 DEF HandlesAreReturned, HandlesAreKept, Kept, HandleOf
  <1> QED BY <1>3, <1>4, <1>5 DEF OwnerInv

(* The id a queued drop names is that of no other handle.                  *)
LEMMA HandleDropKeeps ==
  ASSUME OwnerInv, NEW h \in dropping, HandleDrop(h)
  PROVE  OwnerInv'
  <1>1. /\ OwnerTypes /\ OwnersArePrivate /\ ReleasedAreGone /\ WaitersHold
        /\ IdsAreOwn /\ HandlesAreReturned /\ HandlesAreKept
    BY DEF OwnerInv
  <1>2. /\ releases' = releases /\ entries' = entries \ Removable(h.token, h.id)
        /\ objects' = objects /\ tokens' = tokens /\ owners' = owners
        /\ next_id' = next_id /\ made' = made /\ of' = of /\ call' = call
        /\ waiting' = waiting
        /\ known' = known /\ dropping' = dropping \ {h}
    BY DEF HandleDrop, ownerVars
  <1>3. OwnerTypes'
    BY <1>1, <1>2 DEF OwnerTypes, Objs
  <1>4. OwnersArePrivate' /\ ReleasedAreGone' /\ WaitersHold' /\ IdsAreOwn'
    BY <1>1, <1>2 DEF OwnersArePrivate, ReleasedAreGone, WaitersHold, IdsAreOwn
  <1>5. HandlesAreReturned'
    BY <1>1, <1>2 DEF HandlesAreReturned, HandleOf
  <1>6. PICK c \in Calls \ waiting : call[c] = "inserted" /\ h = HandleOf(c)
    BY <1>1 DEF HandlesAreReturned
  <1>7. \A d \in Calls : call[d] = "inserted" /\ d # c => made[d] # h.id
    BY <1>1, <1>6 DEF IdsAreOwn, HandleOf
  <1>8. \A g \in known : g.id # h.id
    <2> SUFFICES ASSUME NEW g \in known, g.id = h.id
                 PROVE  FALSE
      OBVIOUS
    <2>1. PICK d \in Calls \ waiting : call[d] = "inserted" /\ g = HandleOf(d)
      BY <1>1 DEF HandlesAreReturned
    <2>2. d = c
      BY <1>7, <2>1 DEF HandleOf
    <2> QED BY <1>1, <1>6, <2>1, <2>2 DEF HandlesAreReturned
  <1>9. \A e \in entries : e.id # h.id => e \in entries'
    BY <1>2 DEF Removable
  <1>10. HandlesAreKept'
    <2>1. \A g \in known : Holds(objects, g.token) =>
             \E e \in entries' : e.id = g.id /\ e.owner = g.token
      BY <1>1, <1>8, <1>9 DEF HandlesAreKept, Kept
    <2>2. \A d \in waiting : call[d] = "inserted" =>
             \E e \in entries' : e.id = made[d] /\ e.owner = of[d].token
      BY <1>1, <1>6, <1>7, <1>9 DEF HandlesAreKept, Kept, HandleOf, OwnerTypes
    <2> QED BY <1>2, <2>1, <2>2 DEF HandlesAreKept, Kept, HandleOf
  <1> QED BY <1>3, <1>4, <1>5, <1>10 DEF OwnerInv

-----------------------------------------------------------------------------
(* The objects of an interpreter share an owner no other interpreter has,  *)
(* and a handle Python holds stays in the registry while one of them lives *)
(* (current_owner, InterpreterOwner::drop, wait_call, drop_later), for any *)
(* numbers of interpreters, objects, calls, owners and ids.                *)
THEOREM OwnersStaySafe == Spec => []OwnersAreSafe
  <1>1. Init => OwnerInv
    BY DEF Init, RegistryInit, OwnerInv, OwnerTypes, Objs, OwnersArePrivate,
       ReleasedAreGone, WaitersHold, IdsAreOwn, HandlesAreReturned, HandlesAreKept,
       NoObject
  <1>2. OwnerInv /\ [Next]_vars => OwnerInv'
    <2> SUFFICES ASSUME OwnerInv, [Next]_vars
                 PROVE  OwnerInv'
      OBVIOUS
    <2>1. CASE UNCHANGED vars
      BY <2>1 DEF vars, registryVars, pyVars, OwnerInv, OwnerTypes, Objs,
         OwnersArePrivate, ReleasedAreGone, WaitersHold, IdsAreOwn,
         HandlesAreReturned, HandlesAreKept, Kept, HandleOf
    <2>2. CASE Next
      BY <2>2, NewObjectKeeps, DropObjectKeeps, ReleaseKeeps, CallKeeps, CallRefusedKeeps,
         WorkerInsertsKeeps, WorkerEndsKeeps, ReturnKeeps, InterruptKeeps,
         DropLaterKeeps, HandleDropKeeps, Zenon DEF Next
    <2> QED BY <2>1, <2>2
  <1>3. OwnerInv => OwnersAreSafe
    <2> SUFFICES ASSUME OwnerInv
                 PROVE  OwnersAreSafe
      OBVIOUS
    <2>1. OwnerTypes /\ OwnersArePrivate /\ HandlesAreKept
      BY DEF OwnerInv
    <2>2. \A o, p \in objects : o.interpreter = p.interpreter <=> o.token = p.token
      BY <2>1 DEF OwnerTypes, Objs, OwnersArePrivate
    <2>3. \A h \in known : Holds(objects, h.token) => Removable(h.token, h.id) # {}
      BY <2>1 DEF HandlesAreKept, Kept, Removable
    <2> QED BY <2>2, <2>3 DEF OwnersAreSafe
  <1> QED BY <1>1, <1>2, <1>3, PTL DEF Spec
=============================================================================
