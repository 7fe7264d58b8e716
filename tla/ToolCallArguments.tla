-------------------------- MODULE ToolCallArguments --------------------------
(***************************************************************************)
(* StreamingToolCallArgumentState, aimux-providers/src/stream/             *)
(* tool_call_arguments.rs: whether the fragments of a tool call's          *)
(* arguments have closed a top-level object or array.  A fragment is a     *)
(* sequence of tokens: brackets, "quote", "escape", "space" and "char".    *)
(***************************************************************************)
EXTENDS Naturals, Sequences, SequencesExt

Opening == {"{", "["}
Opener(t) == IF t = "}" THEN "{" ELSE "["

FreshState == [structure |-> "Undetermined", stack |-> <<>>, string |-> "out"]

TrimStart(fragment) ==
    LET kept == {i \in 1 .. Len(fragment) : fragment[i] # "space"} IN
    IF kept = {} THEN <<>>
    ELSE SubSeq(fragment, CHOOSE i \in kept : \A j \in kept : i <= j, Len(fragment))

StartsStructured(fragment) ==
    LET rest == TrimStart(fragment) IN rest # <<>> /\ rest[1] \in Opening

Unclosed(state) == [state EXCEPT !.stack = Front(@)]

(* Mutant: any closing bracket closes any opening one.                     *)
CloseMismatch(state, t) == state.stack = <<>>
Mismatch(state, t) == state.stack = <<>> \/ Last(state.stack) # Opener(t)

ScanString(state, t) ==
    CASE state.string = "escaped" -> [state EXCEPT !.string = "in"]
      [] state.string = "in" /\ t = "escape" -> [state EXCEPT !.string = "escaped"]
      [] state.string = "in" /\ t = "quote" -> [state EXCEPT !.string = "out"]
      [] OTHER -> state

(* One byte of the scan; a state that is not Open ignores what follows.    *)
Scan(state, t) ==
    CASE state.structure # "Open" -> state
      [] state.structure = "Open" /\ state.string # "out" -> ScanString(state, t)
      [] OTHER ->
           CASE t = "quote" -> [state EXCEPT !.string = "in"]
             [] t \in Opening -> [state EXCEPT !.stack = Append(@, t)]
             [] t \in {"}", "]"} ->
                  IF Mismatch(state, t) THEN [FreshState EXCEPT !.structure = "Other"]
                  ELSE IF Len(state.stack) = 1
                         THEN [FreshState EXCEPT !.structure = "Complete"]
                         ELSE Unclosed(state)
             [] OTHER -> state

AppendFragment(state, fragment) ==
    LET undetermined == state.structure = "Undetermined"
        rest == IF undetermined THEN TrimStart(fragment) ELSE fragment
    IN  CASE undetermined /\ rest = <<>> -> state
          [] undetermined /\ rest # <<>> /\ rest[1] \notin Opening ->
               [state EXCEPT !.structure = "Other"]
          [] OTHER ->
               FoldLeft(Scan, IF undetermined THEN [state EXCEPT !.structure = "Open"]
                              ELSE state, rest)

IsComplete(state) == state.structure = "Complete"
=============================================================================
