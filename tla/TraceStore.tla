----------------------------- MODULE TraceStore ------------------------------
(***************************************************************************)
(* RingTraceStore of aimux-core/src/trace/store.rs and the requests that   *)
(* TraceLayer traces in it.  A request is stamped when it starts; when it  *)
(* ends it looks its body up and appends its record, in two critical       *)
(* sections.  The attempts of a retried call and the children of a         *)
(* composite one are requests under one call id.  A body is its chain of   *)
(* block hashes, empty when the layer has none.                            *)
(***************************************************************************)
EXTENDS Integers, FiniteSets, Sequences, SequencesExt, FiniteSetsExt, Functions

CONSTANTS
    Requests, Scopes,
    CallOf,           \* the call id each request is recorded under
    SessionsOf,       \* and its session
    Chains,           \* the request bodies, as sequences of block hashes
    Low64(_),         \* the half of a hash that the index is keyed by
    Cap, PerScopeCap,
    Generations,      \* 2^32
    Ttl, ClockMax

ASSUME TraceAssumption ==
    /\ {Cap, PerScopeCap, Generations} \subseteq Nat \ {0} /\ {Ttl, ClockMax} \subseteq Nat
    /\ CallOf \in [Requests -> Range(CallOf)]
    /\ SessionsOf \in [Requests -> Range(SessionsOf)]
    /\ \A chain \in Chains : chain \in Seq(Range(chain)) \ {<<>>}
    /\ 0 \notin Scopes   \* the scope of None

VARIABLES
    ring, next, index, scope_count, tombstone_hits,  \* TraceStore
    records, by_session,                             \* Inner
    clock, requests,
    orphans           \* requests kept while a record of their call and
                      \* session was evicted (history)

store == <<ring, next, index, scope_count, tombstone_hits>>
traceVars == <<store, records, by_session, orphans, clock, requests>>

Slots == 0 .. Cap - 1
None == [scope |-> 0, t |-> 0, blocks |-> <<>>]
Held(i) == ring[i].record # None
Sessions == Range(SessionsOf)
Done == [scope |-> 0, t |-> 0, chain |-> <<>>, at |-> "recorded"]

TraceInit ==
    /\ ring = [i \in Slots |-> [generation |-> 0, record |-> None]]
    /\ next = 0 /\ index = {} /\ tombstone_hits = 0
    /\ scope_count = [s \in Scopes |-> 0]
    /\ records = <<>> /\ by_session = [s \in Sessions |-> <<>>]
    /\ clock = 0 /\ requests = <<>> /\ orphans = {}

-----------------------------------------------------------------------------
(* lookup.  The index is the set of its references: those of one record    *)
(* are never equal, and an equal one of a later record stands for both.    *)

CommonPrefixBlocks(a, b) ==
    LET n == Min({Len(a), Len(b)})
        differs == {i \in 1 .. n : a[i] # b[i]}
    IN  IF differs = {} THEN n ELSE Min(differs) - 1

RefsOf(scope, first) ==
    {r \in index : r.scope = scope /\ r.key = Low64(first) /\ r.block = 0}

Tombstones(scope, first) ==
    {r \in RefsOf(scope, first) : ring[r.slot].generation # r.generation}

VerifiedByKey(rec, scope, first) == rec.scope = scope

(* What a reference leads to is compared in full: the key and the          *)
(* generation may both be those of another record.                         *)
Verified(rec, scope, first) ==
    rec.scope = scope /\ rec.blocks # <<>> /\ rec.blocks[1] = first

Candidates(scope, first) ==
    {ring[r.slot].record : r \in {q \in RefsOf(scope, first) \ Tombstones(scope, first) :
        Held(q.slot) /\ Verified(ring[q.slot].record, scope, first)}}

Expired(rec, now) == now - rec.t > Ttl

(* The longest prefix wins, then the latest.                               *)
Best(found, chain) ==
    LET shared(rec) == CommonPrefixBlocks(rec.blocks, chain)
    IN  CHOOSE r \in found : \A o \in found :
            \/ shared(r) > shared(o)
            \/ shared(r) = shared(o) /\ r.t >= o.t

Lookup(scope, chain) ==
    LET all == Candidates(scope, chain[1])
        fresh == {rec \in all : ~Expired(rec, clock)}
        best == Best(fresh, chain)
    IN  IF chain = <<>> THEN [blocks |-> 0, t |-> -1, expired |-> FALSE]
        ELSE IF fresh = {} THEN [blocks |-> 0, t |-> -1, expired |-> all # {}]
        ELSE [blocks |-> CommonPrefixBlocks(best.blocks, chain), t |-> best.t,
              expired |-> FALSE]

RefsTo(i, rec, generation) ==
    {[scope |-> rec.scope, key |-> Low64(rec.blocks[b]), slot |-> i,
      generation |-> generation, block |-> b - 1] : b \in 1 .. Len(rec.blocks)}

(* The tombstones found are counted; beyond a quarter of the references    *)
(* the index is built again.                                               *)
CountTombstones(scope, chain) ==
    LET hits == tombstone_hits + (IF chain = <<>> THEN 0
                                  ELSE Cardinality(Tombstones(scope, chain[1])))
        rebuild == index # {} /\ hits * 4 > Cardinality(index)
    IN  /\ tombstone_hits' = IF rebuild THEN 0 ELSE hits
        /\ index' = IF ~rebuild THEN index
                    ELSE UNION {RefsTo(i, ring[i].record, ring[i].generation) :
                                   i \in {j \in Slots : Held(j)}}

-----------------------------------------------------------------------------
Bump(generation) == (generation + 1) % Generations

(* evict_oldest_in_scope, as the slot: the first of the earliest.          *)
OldestIn(scope) ==
    LET held == {i \in Slots : Held(i) /\ ring[i].record.scope = scope}
    IN  CHOOSE i \in held : \A j \in held :
            \/ ring[i].record.t < ring[j].record.t
            \/ ring[i].record.t = ring[j].record.t /\ i <= j

(* insert: the scope's cap first, then the slot the ring has come to.      *)
Insert(rec) ==
    LET full == scope_count[rec.scope] >= PerScopeCap
        oldest == OldestIn(rec.scope)
        freed == IF full
                 THEN [ring EXCEPT ![oldest] =
                          [generation |-> Bump(@.generation), record |-> None]]
                 ELSE ring
        slot == next % Cap
        generation == Bump(freed[slot].generation)
        over == freed[slot].record
    IN  /\ next' = next + 1
        /\ ring' = [freed EXCEPT ![slot] = [generation |-> generation, record |-> rec]]
        /\ scope_count' = [s \in Scopes |-> scope_count[s]
              - (IF full /\ s = rec.scope THEN 1 ELSE 0)
              - (IF over # None /\ s = over.scope THEN 1 ELSE 0)
              + (IF s = rec.scope THEN 1 ELSE 0)]
        /\ index' = index \cup RefsTo(slot, rec, generation)

-----------------------------------------------------------------------------
Tick ==
    /\ clock < ClockMax /\ clock' = clock + 1
    /\ UNCHANGED <<store, records, by_session, orphans, requests>>

(* make_record_ctx                                                         *)
Start(r, scope) ==
    /\ r \notin DOMAIN requests
    /\ requests' = [x \in DOMAIN requests \cup {r} |->
          IF x = r THEN [scope |-> scope, t |-> clock, chain |-> <<>>, at |-> "sent"]
          ELSE requests[x]]
    /\ UNCHANGED <<store, records, by_session, orphans, clock>>

(* record, up to the lookup: none for a request that failed or was dropped *)
(* in mid-stream, whose blocks are kept all the same, or for one without a *)
(* body.                                                                   *)
LookUp(r, chain, failed) ==
    /\ r \in DOMAIN requests /\ requests[r].at = "sent"
    /\ IF failed \/ chain = <<>> THEN UNCHANGED <<index, tombstone_hits>>
       ELSE CountTombstones(requests[r].scope, chain)
    /\ requests' = [requests EXCEPT ![r].chain = chain, ![r].at = "judged"]
    /\ UNCHANGED <<ring, next, scope_count, records, by_session, orphans, clock>>

(* ids.retain.  The id that a request pushed stands as that request; those *)
(* of the evicted record's call all go, later requests' included.          *)
SameCall(q, r) == CallOf[q] = CallOf[r]
Retain(ids, old) ==
    LET at == {i \in DOMAIN ids : ~SameCall(ids[i], old)}
        Nth(k) == CHOOSE i \in at : Cardinality({j \in at : j <= i}) = k
    IN  [k \in 1 .. Cardinality(at) |-> ids[Nth(k)]]

(* append: the ring, then the oldest record goes, then the new one comes.  *)
Record(r) ==
    /\ r \in DOMAIN requests /\ requests[r].at = "judged"
    /\ Insert([scope |-> requests[r].scope, t |-> requests[r].t, blocks |-> requests[r].chain])
    /\ LET full == Len(records) >= Cap
           old == Head(records)
       IN  /\ records' = Append(IF full THEN Tail(records) ELSE records, r)
           /\ by_session' = [s \in Sessions |->
                 (IF full /\ s = SessionsOf[old]
                  THEN Retain(by_session[s], old) ELSE by_session[s])
                 \o (IF s = SessionsOf[r] THEN <<r>> ELSE <<>>)]
           /\ orphans' = IF ~full THEN orphans
                ELSE orphans \cup {q \in Range(records) :
                        SameCall(q, old) /\ SessionsOf[q] = SessionsOf[old]}
    /\ requests' = [requests EXCEPT ![r] = Done]
    /\ UNCHANGED <<tombstone_hits, clock>>

(* clear                                                                   *)
Clear ==
    /\ ring' = [i \in Slots |-> [generation |-> 0, record |-> None]]
    /\ next' = 0 /\ index' = {} /\ tombstone_hits' = 0
    /\ scope_count' = [s \in Scopes |-> 0]
    /\ records' = <<>> /\ by_session' = [s \in Sessions |-> <<>>]
    /\ UNCHANGED <<clock, requests, orphans>>

TraceNext ==
    \/ Tick \/ Clear
    \/ \E r \in Requests :
          \/ \E scope \in Scopes : Start(r, scope)
          \/ \E chain \in Chains \cup {<<>>}, failed \in BOOLEAN : LookUp(r, chain, failed)
          \/ Record(r)

-----------------------------------------------------------------------------
(* What a lookup must find, without the index: among the records the ring  *)
(* holds of the scope, that start as the request does.                     *)
Reference(scope, chain) ==
    LET all == {ring[i].record : i \in {j \in Slots : Held(j) /\
                  Verified(ring[j].record, scope, chain[1])}}
        fresh == {rec \in all : ~Expired(rec, clock)}
        shared == {CommonPrefixBlocks(rec.blocks, chain) : rec \in fresh}
        longest == {rec \in fresh : CommonPrefixBlocks(rec.blocks, chain) = Max(shared)}
    IN  IF fresh = {} THEN [blocks |-> 0, t |-> -1, expired |-> all # {}]
        ELSE [blocks |-> Max(shared), t |-> Max({rec.t : rec \in longest}),
              expired |-> FALSE]

(* A lookup finds what a search of the ring would, whatever keys collide   *)
(* and generations wrap, and however stale the index is (lookup, insert,   *)
(* evict_oldest_in_scope, maybe_rebuild_index).                            *)
LookupIsExact ==
    \A scope \in Scopes, chain \in Chains :
        Lookup(scope, chain) = Reference(scope, chain)

(* A session lists, in their order, the records kept of it except those    *)
(* whose call lost one while they were kept: their ids go with its.        *)
ListsInOrder(ids, s) ==
    /\ Range(ids) = {r \in Range(records) : SessionsOf[r] = s /\ r \notin orphans}
    /\ \A i, j \in DOMAIN ids : i < j =>
          \E k, l \in DOMAIN records : k < l /\ records[k] = ids[i] /\ records[l] = ids[j]

(* A scope's count is that of its records in the ring and within its cap;  *)
(* no request is kept twice, and each session lists its own.               *)
CountsAreLive ==
    /\ \A s \in Scopes :
          /\ scope_count[s] <= PerScopeCap
          /\ scope_count[s] = Cardinality({i \in Slots :
                                 Held(i) /\ ring[i].record.scope = s})
    /\ IsInjective(records)
    /\ \A s \in Sessions : ListsInOrder(by_session[s], s)

(* What the store finds, counts and lists is what it holds.                *)
StoreIsExact == LookupIsExact /\ CountsAreLive
=============================================================================
