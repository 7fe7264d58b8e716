----------------------------- MODULE MCNodeRealm -----------------------------
(***************************************************************************)
(* The two bindings that own handles on behalf of something that can go    *)
(* away: the environments of Node and the interpreters of Python.  A       *)
(* process loads one of them; the other keeps its first state, in which    *)
(* none of its fair actions is enabled.  Two environments or interpreters, *)
(* two calls, and allocators that can run out.                             *)
(***************************************************************************)
EXTENDS NodeRealm

CONSTANTS
  Interpreters, Objects, TokenMax,
  PyIdMax       \* the IdMax of a Python process

VARIABLES
  binding,      \* "node" or "python"
  pyNext, pyEntries, pyClosed,
  tokens, owners, objects, releases, call, made, of, waiting, known, dropping

Py == INSTANCE PythonOwner WITH
        next_id <- pyNext, entries <- pyEntries, consumer_closed <- pyClosed,
        IdMax <- PyIdMax

pyOnly == <<pyNext, pyEntries, pyClosed, tokens, owners, objects, releases,
            call, made, of, waiting, known, dropping>>

FirstRealm == [c \in Calls |-> CHOOSE r \in Realms : TRUE]

Init ==
  /\ RealmInit /\ Py!Init
  /\ binding = "node" \/ (binding = "python" /\ realm = FirstRealm)

Next ==
  \/ binding = "node" /\ RealmNext /\ UNCHANGED <<binding, pyOnly>>
  \/ binding = "python" /\ Py!Next /\ UNCHANGED <<binding, realmVars>>

FairSpec ==
  Init /\ [][Next]_<<binding, realmVars, pyOnly>> /\ RealmFairness

-----------------------------------------------------------------------------
(* The properties of the environments are those of NodeRealm; this is the  *)
(* interpreters'.                                                          *)

(* current_owner of the Python binding, lib.rs: the objects of one         *)
(* interpreter share an owner no other has, and the handles Python holds   *)
(* are in the registry while one of them lives, although the releases and  *)
(* the drops are queued.                                                   *)
OwnersAreSafe == Py!OwnersAreSafe
=============================================================================
