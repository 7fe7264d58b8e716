------------------------------ MODULE MCStores -------------------------------
(***************************************************************************)
(* The two stores that calls are grouped in, side by side: the sessions of *)
(* session.rs and the traces of trace/store.rs.  They share no state and   *)
(* no lock, so a behaviour exercises one of them.                          *)
(***************************************************************************)
EXTENDS Sessions, TraceStore, TLC

CONSTANTS r1, r2, r3, r4

VARIABLE under   \* the store a behaviour exercises

MCPrompts == {<<"x">>, <<"x", "y">>}
(* Two attempts of one call, another call of their session, and a child of *)
(* the first that has a session of its own.                                *)
MCSessionsOf == [r \in Requests |-> IF r = r4 THEN "other" ELSE "session"]
MCCallOf == [r \in Requests |-> IF r = r3 THEN "second" ELSE "first"]
MCChains == {<<"a">>, <<"a", "b">>, <<"c">>}
(* "a" and "c" differ only in the half that the index does not use.        *)
MCLow64(h) == IF h = "c" THEN "a" ELSE h
Interchangeable == Permutations(Scopes) \cup Permutations({r1, r2})

Init == under \in {"sessions", "trace"} /\ SessionInit /\ TraceInit

Next ==
    \/ under = "sessions" /\ SessionNext /\ UNCHANGED <<under, traceVars>>
    \/ under = "trace" /\ TraceNext /\ UNCHANGED <<under, sessionVars>>

Spec == Init /\ [][Next]_<<under, sessionVars, traceVars>>
=============================================================================
