---------------------------- MODULE ChatToolCalls ----------------------------
(***************************************************************************)
(* ChatToolCalls, aimux-providers/src/stream/chat_tool_calls.rs: the tool  *)
(* calls of a chat stream put together from labelled fragments.            *)
(*                                                                         *)
(* An optional field is a set of at most one element.  A delta has the     *)
(* fields index, id, name, arguments (a sequence of tokens), type and tag  *)
(* (which fragment it is, for the properties).  An id is <<base, suffix>>. *)
(* An operation is a function of the calls so far to [calls, parts, ok].   *)
(***************************************************************************)
EXTENDS ToolCallArguments, FiniteSets

(* non_blank, of a name and of an id.                                      *)
Blank == "blank"
BlankId == <<"blank", 0>>
NonBlank(name) == name \ {Blank}
NonBlankId(id) == id \ {BlankId}

Existing(n) == <<"existing", n>>
New == <<"new", 0>>
Ambiguous == <<"ambiguous", 0>>

(* matching: among the calls the predicate selected.                       *)
Matching(calls, candidates, explicit) ==
    LET continuable == {n \in candidates : ~IsComplete(calls[n].state)} IN
    CASE candidates = {} -> New
      [] Cardinality(candidates) = 1 /\ ~explicit -> Existing(CHOOSE n \in candidates : TRUE)
      [] OTHER ->
           CASE Cardinality(continuable) = 1 -> Existing(CHOOSE n \in continuable : TRUE)
             [] continuable = {} /\ explicit -> New
             [] OTHER -> Ambiguous

(* resolve: the table of chat_tool_calls.rs:74-83.                         *)
Resolve(calls, d) ==
    LET id == NonBlankId(d.id)
        name == NonBlank(d.name)
        explicit == name # {} /\ \E a \in d.arguments : StartsStructured(a)
        empty == \A a \in d.arguments : TrimStart(a) = <<>>
        atIndex == {n \in DOMAIN calls : d.index \cap calls[n].indices # {}}
        named == {n \in DOMAIN calls : name \subseteq {calls[n].name}}
        hasId == {n \in DOMAIN calls : id \cap calls[n].wire_ids # {}}
        both == Matching(calls, hasId \cap atIndex \cap named, explicit)
    IN  CASE id = {} /\ atIndex # {} -> Matching(calls, atIndex \cap named, explicit)
          [] id = {} /\ atIndex = {} /\ name # {} -> New
          [] id = {} /\ atIndex = {} /\ name = {} -> Matching(calls, DOMAIN calls, FALSE)
          [] id # {} /\ hasId = {} ->
               IF explicit THEN New
               ELSE Matching(calls, atIndex \cap named, name # {} /\ empty)
          [] hasId # {} /\ d.index = {} ->
               Matching(calls, hasId \cap named, explicit)
          [] hasId # {} /\ d.index # {} ->
               CASE both # New -> both
                 [] both = New /\ name # {} -> New
                 [] both = New /\ name = {} /\ atIndex # {} -> Ambiguous
                 [] OTHER -> Matching(calls, hasId, FALSE)

(* Mutant: the wire id even when another call has it.                     *)
UnsharedId(calls, id, generated) ==
    IF id # {} THEN CHOOSE w \in id : TRUE ELSE <<generated, Len(calls)>>

(* unique_id: the wire id, the generated id, or its first free suffix.     *)
UniqueId(calls, id, generated) ==
    LET used == {calls[n].id : n \in DOMAIN calls}
        free == {n \in 0 .. Len(calls) + 1 : <<generated, n>> \notin used}
    IN  IF id # {} /\ id \cap used = {} THEN CHOOSE w \in id : TRUE
        ELSE <<generated, CHOOSE n \in free : \A m \in free : n <= m>>

Fragment(d) == IF d.arguments = {} THEN <<>> ELSE CHOOSE a \in d.arguments : TRUE
Tags(d) == IF d.arguments = {} \/ d.tag = <<>> THEN <<>> ELSE <<d.tag>>
Reply(calls, parts, ok) == [calls |-> calls, parts |-> parts, ok |-> ok]
InputDelta(id) == <<"delta", "tool", id>>

(* start, and the index delta adds to the call.                            *)
StartCall(calls, d, generated) ==
    LET id == UniqueId(calls, NonBlankId(d.id), generated)
        call == [id |-> id, name |-> CHOOSE n \in d.name : TRUE,
                 state |-> AppendFragment(FreshState, Fragment(d)), tags |-> Tags(d),
                 index |-> d.index, wire_ids |-> NonBlankId(d.id), indices |-> d.index]
    IN  Reply(Append(calls, call),
              << <<"start", "tool", id>> >> \o
                 (IF Fragment(d) = <<>> THEN <<>> ELSE <<InputDelta(id)>>), "yes")

ContinueCall(calls, n, d) ==
    Reply([calls EXCEPT ![n].wire_ids = @ \cup NonBlankId(d.id),
                        ![n].indices = @ \cup d.index,
                        ![n].state = AppendFragment(@, Fragment(d)),
                        ![n].tags = @ \o Tags(d)],
          IF d.arguments = {} THEN <<>> ELSE <<InputDelta(calls[n].id)>>, "yes")

Invalid(calls) == Reply(calls, << <<"failed", "none", "none">> >>, "no")

(* delta.  An ambiguous fragment, and a blank name nothing matches, are    *)
(* dropped.                                                                *)
Applied(to, calls, d, generated) ==
    CASE to = Ambiguous -> Reply(calls, <<>>, "yes")
      [] to = New /\ d.name = {Blank} -> Reply(calls, <<>>, "yes")
      [] to = New /\ d.name # {Blank} ->
           IF d.type = "invalid" \/ d.name = {} THEN Invalid(calls)
           ELSE StartCall(calls, d, generated)
      [] OTHER -> ContinueCall(calls, to[2], d)
ApplyDelta(calls, d, generated) == Applied(Resolve(calls, d), calls, d, generated)

(* strict_delta: by index alone, and nothing is repaired.                  *)
StrictDelta(calls, d, generated) ==
    LET at == {n \in DOMAIN calls : d.index \subseteq calls[n].index}
        first == CHOOSE n \in at : \A m \in at : n <= m
    IN  CASE d.index = {} -> Invalid(calls)
          [] d.index # {} /\ at = {} ->
               IF \/ NonBlankId(d.id) = {} \/ NonBlank(d.name) = {} \/ d.type = "invalid"
                  \/ \E n \in DOMAIN calls : calls[n].id \in d.id
                 THEN Invalid(calls) ELSE StartCall(calls, d, generated)
          [] OTHER ->
               IF d.id \subseteq {calls[first].id} /\ d.name \subseteq {calls[first].name}
                 THEN ContinueCall(calls, first, d) ELSE Invalid(calls)

(* finish: by index when every call has one, else by arrival; the sort is  *)
(* stable.                                                                 *)
FinishParts(calls) ==
    LET IndexOf(c) == CHOOSE i \in c.index : TRUE
        n == Len(calls)
        before(i, j) == IndexOf(calls[i]) < IndexOf(calls[j])
                        \/ (IndexOf(calls[i]) = IndexOf(calls[j]) /\ i <= j)
        order == IF \E i \in 1 .. n : calls[i].index = {} THEN [i \in 1 .. n |-> i]
                 ELSE CHOOSE p \in [1 .. n -> 1 .. n] :
                        \A i, j \in 1 .. n : i < j => p[i] # p[j] /\ before(p[i], p[j])
        ended(i) == LET id == calls[order[i]].id
                    IN << <<"end", "tool", id>>, <<"call", "client", id>> >>
    IN FlattenSeq([i \in 1 .. n |-> ended(i)])
=============================================================================
