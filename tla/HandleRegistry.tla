--------------------------- MODULE HandleRegistry ----------------------------
(***************************************************************************)
(* HandleRegistry of aimux-ops/src/handle.rs: the process-wide table of    *)
(* handles and the allocator of their ids.  Each operator is one critical  *)
(* section of its mutex, or one successful compare-exchange.               *)
(***************************************************************************)
EXTENDS Integers, FiniteSets

CONSTANT IdMax      \* u64::MAX

ASSUME IdAssumption == IdMax \in Nat \ {0}

VARIABLES
  next_id,          \* NEXT_ID; 0 once IdMax has been allocated
  entries,          \* the live handles: [id, owner, kind]
  consumer_closed   \* the operations whose consumer_close was called

registryVars == <<next_id, entries, consumer_closed>>

RegistryInit == next_id = 1 /\ entries = {} /\ consumer_closed = {}

UnboundedId == next_id + 1
WrappingId == IF next_id < IdMax THEN next_id + 1 ELSE 1

(* allocate: 0 is the exhausted sentinel, never left. *)
FollowingId == IF next_id < IdMax THEN next_id + 1 ELSE 0

(* remove: only the owner's entry goes. *)
Removable(owner, id) == {e \in entries : e.id = id /\ e.owner = owner}

(* release_owner, up to the unlock. *)
OwnedBy(owner) == {e \in entries : e.owner = owner}

OperationsIn(removed) == {e.id : e \in {f \in removed : f.kind = "Operation"}}

(* get, with Operation as the only allowed kind. *)
IsOperation(owner, id) == id \in OperationsIn(Removable(owner, id))
=============================================================================
