------------------------------ MODULE Sessions -------------------------------
(***************************************************************************)
(* SessionInferer and SessionStore of aimux-core/src/session.rs.  A call   *)
(* resolves its session under the inferer's lock and appends itself under  *)
(* the store's; calls run concurrently, so appends may come in another     *)
(* order.  A prompt is a sequence of messages.                             *)
(***************************************************************************)
EXTENDS Naturals, FiniteSets, Sequences, SequencesExt, Functions

CONSTANTS
    Calls,
    Named,        \* the session ids callers pass
    Prompts,
    MaxSessions, MaxCallsPerSession,
    RecentMax     \* DEFAULT_INFERER_CAPACITY

(* A new "auto-" id is named for the call that it was made for.            *)
AutoId(c) == <<"auto", c>>
Ids == Named \cup {AutoId(c) : c \in Calls}
Messages == UNION {Range(prompt) : prompt \in Prompts}

(* The capacities are positive, and the ids that callers pass are their    *)
(* own, not ones that resolve made up.                                     *)
ASSUME SessionsAssumption ==
    /\ {MaxSessions, MaxCallsPerSession, RecentMax} \subseteq Nat \ {0}
    /\ Prompts \subseteq Seq(Messages)
    /\ \A c \in Calls : AutoId(c) \notin Named

VARIABLES
    sessions, lru,   \* Inner
    enabled,         \* whether the registered inferer infers
    recent,          \* the inferer's <<prompt, session>>, newest first
    resolved,        \* the session of each call that resolved one
    appended,        \* calls appended to the store
    history          \* per session, the [call, step] it was given since clear

sessionVars == <<sessions, lru, enabled, recent, resolved, appended, history>>

SessionInit ==
    /\ enabled \in BOOLEAN
    /\ sessions = <<>> /\ lru = <<>> /\ recent = <<>> /\ resolved = <<>>
    /\ appended = {} /\ history = [s \in Ids |-> <<>>]

-----------------------------------------------------------------------------
WeakPrefix(old, prompt) == IsPrefix(old, prompt) \/ IsPrefix(prompt, old)

(* find_by_strong_prefix, as a position of recent, or 0.                   *)
StrongPrefix(old, prompt) == IsPrefix(old, prompt)
FindByStrongPrefix(prompt) ==
    SelectInSeq(recent, LAMBDA r : StrongPrefix(r[1], prompt))

Remember(prompt, s) ==
    recent' = <<<<prompt, s>>>> \o
        (IF Len(recent) >= RecentMax THEN Front(recent) ELSE recent)

(* resolve: an explicit id wins, else the newest call the prompt extends.  *)
(* With inference off a call that passes no id has no session: it is never *)
(* appended and nothing remembers it.                                      *)
Resolve(c, explicit, prompt) ==
    /\ c \notin DOMAIN resolved /\ (explicit # {} \/ enabled)
    /\ LET at == FindByStrongPrefix(prompt)
           s == IF explicit # {} THEN CHOOSE x \in explicit : TRUE
                ELSE IF at # 0 THEN recent[at][2] ELSE AutoId(c)
       IN  /\ Remember(prompt, s)
           /\ resolved' = [x \in DOMAIN resolved \cup {c} |->
                 IF x = c THEN [session |-> s, prompt |-> prompt] ELSE resolved[x]]
    /\ UNCHANGED <<sessions, lru, enabled, appended, history>>

-----------------------------------------------------------------------------
Touch(ids, s) == Append(RemoveFirst(ids, s), s)
New == [calls |-> <<>>, next_step |-> 0]

(* append: a new session evicts the least recently used one.               *)
AppendCall(c) ==
    /\ c \in DOMAIN resolved /\ c \notin appended
    /\ LET s == resolved[c].session
           touched == Touch(lru, s)
           evicts == s \notin DOMAIN sessions
                     /\ Cardinality(DOMAIN sessions) >= MaxSessions
           kept == DOMAIN sessions \ (IF evicts THEN {Head(touched)} ELSE {})
           entry == IF s \in kept THEN sessions[s] ELSE New
           call == [call |-> c, step |-> entry.next_step]
           calls == Append(IF Len(entry.calls) >= MaxCallsPerSession
                           THEN Tail(entry.calls) ELSE entry.calls, call)
       IN  /\ lru' = IF evicts THEN Tail(touched) ELSE touched
           /\ sessions' = [x \in kept \cup {s} |->
                 IF x = s THEN [calls |-> calls, next_step |-> entry.next_step + 1]
                 ELSE sessions[x]]
           /\ history' = [history EXCEPT ![s] = Append(@, call)]
    /\ appended' = appended \cup {c}
    /\ UNCHANGED <<enabled, recent, resolved>>

(* session_calls: a query makes a known session the most recent.           *)
Query(s) ==
    /\ s \in DOMAIN sessions /\ lru' = Touch(lru, s)
    /\ UNCHANGED <<sessions, enabled, recent, resolved, appended, history>>

ClearSessions ==
    /\ sessions' = <<>> /\ lru' = <<>> /\ history' = [s \in Ids |-> <<>>]
    /\ UNCHANGED <<enabled, recent, resolved, appended>>

SessionNext ==
    \/ \E c \in Calls : AppendCall(c) \/
          \E explicit \in {{}} \cup {{s} : s \in Named}, prompt \in Prompts :
              Resolve(c, explicit, prompt)
    \/ \E s \in Ids : Query(s)
    \/ ClearSessions

-----------------------------------------------------------------------------
(* The store holds at most MaxSessions, each of them can be evicted, and a *)
(* session's calls are the newest of those it was given since it came in,  *)
(* numbered in order (append, touch, session_calls, clear).                *)
StoreCoherent ==
    /\ Range(lru) = DOMAIN sessions /\ IsInjective(lru)
    /\ Cardinality(DOMAIN sessions) <= MaxSessions
    /\ \A s \in DOMAIN sessions :
          LET calls == sessions[s].calls
          IN  /\ Len(calls) <= MaxCallsPerSession
              /\ IsSuffix(calls, history[s])
              /\ \A i \in 1 .. Len(calls) :
                    calls[i].step = sessions[s].next_step - Len(calls) + i - 1

(* The calls inference put in one session are one conversation: each       *)
(* extends the prompt of the call that opened it (resolve).                *)
InferredIsOneConversation ==
    \A c, d \in DOMAIN resolved :
        resolved[d].session = AutoId(c) => IsPrefix(resolved[c].prompt, resolved[d].prompt)

(* Eviction and inference leave whole conversations, in order.             *)
SessionsAreSound == StoreCoherent /\ InferredIsOneConversation
=============================================================================
