--------------------------- MODULE RecordingProofs ---------------------------
(***************************************************************************)
(* Proofs about the recorder of recording.rs, for every set of calls, what *)
(* they send and all capacities.                                           *)
(***************************************************************************)
EXTENDS Recording, FiniteSetTheorems, SequenceTheorems, WellFoundedInduction, TLAPS

Events == Fields \cup {Closed}
Trailing == Updates \cup {Closed}
Items == (Events \X Calls) \cup {<<"flush">>}
PendingRecs == [got : SUBSET Fields, closed : BOOLEAN]
FileLines == [call : Calls, got : SUBSET Fields, complete : BOOLEAN]
Got(c) == IF IsPending(c) THEN pending[c].got ELSE {}
Known(c) == c \in DOMAIN pending \cup Range(evicted)

-----------------------------------------------------------------------------
(* The inductive invariant *)

SenderTypes ==
    /\ sent \in [Calls -> [Senders -> Nat]]
    /\ \A c \in Calls, s \in Senders : sent[c][s] <= Len(Script(c, s))
    /\ \A c \in Calls, x \in Exchanges : sent[c][x] > 0 => Began(c, x)
    /\ lost \in [Calls -> SUBSET Events]

WriterTypes ==
    /\ lossy \subseteq Calls /\ inconsistent \subseteq Calls
    /\ DOMAIN pending \subseteq Calls /\ IsFiniteSet(DOMAIN pending)
    /\ \A c \in DOMAIN pending : pending[c] \in PendingRecs
    /\ order \in Seq(Calls) /\ evicted \in Seq(Calls)
    /\ DOMAIN pending \cap Range(evicted) = {}
    /\ writeError \in BOOLEAN /\ lines \in [Calls -> Seq(FileLines)]

(* The channel: an event is in it once, the input of a call before the     *)
(* rest, and behind the outcome only what the body sends.                  *)
InOrder(items) ==
    /\ items \in Seq(Items)
    /\ \A c \in Calls, e \in Events : \A p, q \in 1 .. Len(items) : p < q =>
          /\ items[p] = <<e, c>> /\ items[q] = <<e, c>> => e = Closed
          /\ items[p] = <<e, c>> => items[q] # <<Input, c>>
          /\ items[p] = <<Outcome, c>> /\ items[q] = <<e, c>> => e \in Trailing

QueueInOrder == InOrder(queue)

(* What was sent of a call is in one place, and the writer has met no call *)
(* whose input is still to come.                                           *)
Placed(c) ==
    /\ Queued(c) \cup lost[c] \cup Got(c) \subseteq SentBy(c)
    /\ Fields \cap Queued(c) \cap (lost[c] \cup Got(c)) = {}
    /\ Fields \cap Got(c) \cap lost[c] = {}
    /\ Known(c) => Input \notin Queued(c) /\ sent[c][0] > 0
    /\ Outcome \in Got(c) => Queued(c) \subseteq Trailing

(* The input of the call is queued or held, so it may still be completed:  *)
(* then what its operation lost is marked, but for the mark to come.       *)
Whole(c) == Input \in Queued(c) \cup Got(c)
Marked(c) ==
    Whole(c) /\ c \notin lossy =>
        \A i \in 1 .. sent[c][0] :
            \/ OperationEvents[c][i] \in {Closed} \cup Queued(c) \cup Got(c)
            \/ i = sent[c][0] /\ <<c, 0>> \in marking

(* Nothing more can come of a call that was written as complete.           *)
Settled(c) ==
    /\ Recorded(c) \ {Closed} \subseteq SentBy(c) /\ lost[c] \subseteq {Closed}
    /\ Queued(c) \subseteq {Closed} /\ ~IsPending(c)

CompleteIsSettled(c) ==
    \A i \in 1 .. Len(lines[c]) : lines[c][i].complete =>
        /\ Settled(c) /\ lines[c][i].got = Recorded(c) \ {Closed}
        /\ \A j \in 1 .. Len(lines[c]) : lines[c][j].complete => i = j

CallInv(c) == Placed(c) /\ Marked(c) /\ CompleteIsSettled(c)

-----------------------------------------------------------------------------
(* Events and scripts *)

LEMMA ItemIs ==
  /\ \A e, c : Len(<<e, c>>) = 2 /\ <<e, c>>[1] = e /\ <<e, c>>[2] = c
  /\ Len(<<"flush">>) = 1
  OBVIOUS

(* The events of a call in a queue.                                        *)
QueuedOf(items, c) ==
  {items[i][1] : i \in {j \in 1 .. Len(items) : Len(items[j]) = 2 /\ items[j][2] = c}}

LEMMA QueuedIs ==
  ASSUME NEW items \in Seq(Items), NEW c, NEW e
  PROVE  e \in QueuedOf(items, c) <=> \E i \in 1 .. Len(items) : items[i] = <<e, c>>
  <1>1. \A i \in 1 .. Len(items) : items[i] \in Items
    OBVIOUS
  <1>2. \A x \in Items : Len(x) = 2 => x = <<x[1], x[2]>>
    <2> SUFFICES ASSUME NEW x \in Items, Len(x) = 2 PROVE x = <<x[1], x[2]>>
      OBVIOUS
    <2>1. x # <<"flush">>
      BY ItemIs
    <2> QED BY <2>1 DEF Items
  <1>3. ASSUME e \in QueuedOf(items, c) PROVE \E i \in 1 .. Len(items) : items[i] = <<e, c>>
    <2>1. PICK i \in 1 .. Len(items) : Len(items[i]) = 2 /\ items[i][2] = c /\ items[i][1] = e
      BY <1>3, Zenon DEF QueuedOf
    <2> QED BY <1>1, <1>2, <2>1
  <1>4. ASSUME NEW i \in 1 .. Len(items), items[i] = <<e, c>> PROVE e \in QueuedOf(items, c)
    <2>1. Len(items[i]) = 2 /\ items[i][1] = e /\ items[i][2] = c
      BY <1>4, ItemIs
    <2> QED BY <1>4, <2>1, Zenon DEF QueuedOf
  <1> QED BY <1>3, <1>4

(* The events are told apart by their kind and their exchange.             *)
LEMMA EventsApart ==
  /\ Closed \notin Fields /\ Input \in OperationFields /\ Outcome \in OperationFields
  /\ Input # Outcome /\ Updates \cap OperationFields = {}
  /\ \A x, y : Update(x) = Update(y) => x = y
  /\ OperationFields \subseteq Fields /\ Updates \subseteq Fields
  <1>1. \A k, l, x, y : <<k, x>> = <<l, y>> <=> k = l /\ x = y
    OBVIOUS
  <1>2. Closed \notin OperationFields /\ Closed \notin Updates
    BY <1>1 DEF OperationFields, Updates, Closed, Input, Outcome, Provider, Session, Skeleton, Failed, Update
  <1>3. Input # Outcome
    BY <1>1 DEF Input, Outcome
  <1>4. Updates \cap OperationFields = {}
    BY <1>1 DEF OperationFields, Updates, Input, Outcome, Provider, Session, Skeleton, Failed, Update
  <1>5. \A x, y : Update(x) = Update(y) => x = y
    BY <1>1 DEF Update
  <1> QED BY <1>2, <1>3, <1>4, <1>5 DEF Fields, OperationFields

LEMMA BodyIs ==
  /\ 0 \notin Exchanges
  /\ \A x \in Exchanges : /\ Len(BodyEvents(x)) = 2 /\ BodyEvents(x)[1] = Update(x)
                          /\ BodyEvents(x)[2] = Closed /\ Update(x) \in Updates
  <1>1. 0 \notin Exchanges
    BY RecordingAssumption
  <1>2. ASSUME NEW x \in Exchanges
        PROVE  /\ Len(BodyEvents(x)) = 2 /\ BodyEvents(x)[1] = Update(x)
               /\ BodyEvents(x)[2] = Closed /\ Update(x) \in Updates
    BY DEF BodyEvents, Updates
  <1> QED BY <1>1, <1>2

LEMMA ScriptIs ==
  ASSUME NEW c \in Calls
  PROVE  /\ OperationEvents[c] \in Seq(Events) /\ Len(OperationEvents[c]) \in Nat
         /\ DOMAIN OperationEvents[c] = 1 .. Len(OperationEvents[c])
         /\ \A i \in 1 .. Len(OperationEvents[c]) :
               /\ OperationEvents[c][i] \in OperationFields \cup {Closed}
               /\ OperationEvents[c][i] \in Events
               /\ OperationEvents[c][i] \in Range(OperationEvents[c])
         /\ \A i, j \in 1 .. Len(OperationEvents[c]) : i < j =>
               /\ OperationEvents[c][j] # Input
               /\ OperationEvents[c][i] \in {Outcome, OperationEvents[c][j]} =>
                     OperationEvents[c][j] = Closed
         /\ \A x \in Exchanges : Skeleton(x) \in Range(OperationEvents[c]) =>
               Failed(x) \notin Range(OperationEvents[c])
  <1>1. OperationEvents[c] \in Seq(OperationFields \cup {Closed})
    BY RecordingAssumption
  <1>2. OperationFields \cup {Closed} \subseteq Events
    BY EventsApart DEF Events
  <1>3. DOMAIN OperationEvents[c] = 1 .. Len(OperationEvents[c]) /\ Len(OperationEvents[c]) \in Nat
        /\ \A i \in 1 .. Len(OperationEvents[c]) : OperationEvents[c][i] \in OperationFields \cup {Closed}
    BY <1>1
  <1>4. OperationEvents[c] \in Seq(Events)
    BY <1>1, <1>2
  <1>5. \A i \in 1 .. Len(OperationEvents[c]) : OperationEvents[c][i] \in Range(OperationEvents[c])
    BY <1>3 DEF Range
  <1>6. \A i, j \in 1 .. Len(OperationEvents[c]) : i < j =>
               /\ OperationEvents[c][j] # Input
               /\ OperationEvents[c][i] \in {Outcome, OperationEvents[c][j]} =>
                     OperationEvents[c][j] = Closed
    BY <1>3, RecordingAssumption
  <1>7. \A x \in Exchanges : Skeleton(x) \in Range(OperationEvents[c]) =>
               Failed(x) \notin Range(OperationEvents[c])
    <2> TAKE x \in Exchanges
    <2>1. {Skeleton(x), Failed(x)} \cap Range(OperationEvents[c]) # {Skeleton(x), Failed(x)}
      BY RecordingAssumption
    <2> QED BY <2>1
  <1> QED BY <1>2, <1>3, <1>4, <1>5, <1>6, <1>7

(* What the types say of the senders of one call.                          *)
LEMMA SendersAre ==
  ASSUME SenderTypes, NEW c \in Calls
  PROVE  /\ sent[c][0] \in Nat /\ sent[c][0] <= Len(OperationEvents[c])
         /\ \A i \in 1 .. sent[c][0] : i \in 1 .. Len(OperationEvents[c]) /\ sent[c][0] > 0
         /\ \A x \in Exchanges : sent[c][x] \in 0 .. 2
         /\ \A x \in Exchanges : sent[c][x] > 0 =>
               /\ \E i \in 1 .. sent[c][0] : OperationEvents[c][i] = Skeleton(x)
               /\ Skeleton(x) \in Range(OperationEvents[c]) /\ sent[c][0] > 0
  <1>1. 0 \in Senders /\ (\A x \in Exchanges : x \in Senders /\ x # 0)
    BY BodyIs DEF Senders
  <1>2. Script(c, 0) = OperationEvents[c] /\ \A x \in Exchanges : Script(c, x) = BodyEvents(x)
    BY <1>1 DEF Script
  <1>3. sent[c][0] \in Nat /\ sent[c][0] <= Len(OperationEvents[c]) /\ Len(OperationEvents[c]) \in Nat
    BY <1>1, <1>2, ScriptIs DEF SenderTypes
  <1>4. \A i \in 1 .. sent[c][0] : i \in 1 .. Len(OperationEvents[c]) /\ sent[c][0] > 0
    BY <1>3
  <1>5. \A x \in Exchanges : sent[c][x] \in 0 .. 2
    <2> TAKE x \in Exchanges
    <2>1. sent[c][x] \in Nat /\ sent[c][x] <= Len(Script(c, x))
      BY <1>1 DEF SenderTypes
    <2>2. Len(Script(c, x)) = 2
      BY <1>2, BodyIs
    <2> QED BY <2>1, <2>2
  <1>6. ASSUME NEW x \in Exchanges, sent[c][x] > 0
        PROVE  /\ \E i \in 1 .. sent[c][0] : OperationEvents[c][i] = Skeleton(x)
               /\ Skeleton(x) \in Range(OperationEvents[c]) /\ sent[c][0] > 0
    <2>1. PICK i \in 1 .. sent[c][0] : OperationEvents[c][i] = Skeleton(x)
      BY <1>1, <1>6 DEF SenderTypes, Began
    <2>2. OperationEvents[c][i] \in Range(OperationEvents[c])
      BY <1>4, ScriptIs
    <2> QED BY <1>4, <2>1, <2>2
  <1> QED BY <1>3, <1>4, <1>5, <1>6

LEMMA SentByIs ==
  ASSUME SenderTypes, NEW c \in Calls, NEW e
  PROVE  e \in SentBy(c) <=>
            \/ \E i \in 1 .. sent[c][0] : OperationEvents[c][i] = e
            \/ \E x \in Exchanges : \/ sent[c][x] > 0 /\ e = Update(x)
                                    \/ sent[c][x] = 2 /\ e = Closed
  <1>1. Senders = {0} \cup Exchanges /\ 0 \notin Exchanges
    BY BodyIs DEF Senders
  <1>2. e \in SentBy(c) <=> \E s \in Senders : \E i \in 1 .. sent[c][s] : Script(c, s)[i] = e
    BY DEF SentBy
  <1>3. Script(c, 0) = OperationEvents[c] /\ \A x \in Exchanges : Script(c, x) = BodyEvents(x)
    BY <1>1 DEF Script
  <1>4. ASSUME NEW x \in Exchanges
        PROVE  (\E i \in 1 .. sent[c][x] : Script(c, x)[i] = e) <=>
                  \/ sent[c][x] > 0 /\ e = Update(x)
                  \/ sent[c][x] = 2 /\ e = Closed
    <2>1. BodyEvents(x)[1] = Update(x) /\ BodyEvents(x)[2] = Closed /\ Script(c, x) = BodyEvents(x)
      BY <1>3, BodyIs
    <2>2. sent[c][x] \in {0, 1, 2}
      <3>1. sent[c][x] \in 0 .. 2
        BY SendersAre
      <3> QED BY <3>1
    <2>3. 1 .. 0 = {} /\ 1 .. 1 = {1} /\ 1 .. 2 = {1, 2}
      OBVIOUS
    <2>4. CASE sent[c][x] = 0
      BY <2>3, <2>4
    <2>5. CASE sent[c][x] = 1
      BY <2>1, <2>3, <2>5
    <2>6. CASE sent[c][x] = 2
      BY <2>1, <2>3, <2>6
    <2> QED BY <2>2, <2>4, <2>5, <2>6
  <1> QED BY <1>1, <1>2, <1>3, <1>4

(* A sender's next event: no field of the call is sent twice, the input is *)
(* the first and behind the outcome comes nothing but what a body sends.   *)
LEMMA NextEvent ==
  ASSUME SenderTypes, NEW c \in Calls, NEW s \in Senders, Began(c, s),
         sent[c][s] < Len(Script(c, s))
  PROVE  LET e == Script(c, s)[sent[c][s] + 1]
         IN  /\ e \in Events /\ (e \in Fields => e \notin SentBy(c))
             /\ e = Input => SentBy(c) = {} /\ s = 0 /\ sent[c][0] = 0
             /\ Outcome \in SentBy(c) => e \in Trailing
             /\ e \in Recorded(c) \cup {Closed}
  <1> DEFINE n == sent[c][0]  op == OperationEvents[c]  k == sent[c][s]
             e == Script(c, s)[k + 1]
  <1>0. /\ n \in Nat /\ n <= Len(op) /\ \A i \in 1 .. n : i \in 1 .. Len(op) /\ n > 0
        /\ \A x \in Exchanges : sent[c][x] \in 0 .. 2
        /\ \A x \in Exchanges : sent[c][x] > 0 => n > 0
    BY SendersAre
  <1>1. /\ Len(op) \in Nat /\ DOMAIN op = 1 .. Len(op)
        /\ \A i \in 1 .. Len(op) : op[i] \in OperationFields \cup {Closed} /\ op[i] \in Events
              /\ op[i] \in Range(op)
        /\ \A i, j \in 1 .. Len(op) : i < j =>
               /\ op[j] # Input
               /\ op[i] \in {Outcome, op[j]} => op[j] = Closed
    BY ScriptIs
  <1>2. \A f : f \in SentBy(c) <=> \/ \E i \in 1 .. n : op[i] = f
                                   \/ \E x \in Exchanges : \/ sent[c][x] > 0 /\ f = Update(x)
                                                           \/ sent[c][x] = 2 /\ f = Closed
    BY SentByIs
  <1>3. \A x \in Exchanges : Update(x) \in Updates
    BY BodyIs
  <1>4. Recorded(c) = Range(op) \cup {Update(x) : x \in {y \in Exchanges : Skeleton(y) \in Range(op)}}
    BY DEF Recorded
  <1>5. CASE s = 0
    <2>1. n + 1 \in 1 .. Len(op) /\ e = op[n + 1]
      BY <1>0, <1>1, <1>5 DEF Script
    <2> HIDE DEF e, n, op
    <2>2. e \in OperationFields \cup {Closed} /\ e \in Events /\ e \in Range(op)
      BY <1>1, <2>1
    <2>3. \A i \in 1 .. n : i < n + 1 /\ i \in 1 .. Len(op)
      BY <1>0
    <2>4. \A i \in 1 .. n : e # Input /\ (op[i] \in {Outcome, e} => e = Closed)
      BY <1>1, <2>1, <2>3
    <2>5. e \in Fields => e \notin SentBy(c)
      <3> SUFFICES ASSUME e \in Fields, e \in SentBy(c) PROVE FALSE
        OBVIOUS
      <3>1. e # Closed /\ e \notin Updates
        BY <2>2, EventsApart
      <3>2. \A i \in 1 .. n : op[i] # e
        BY <2>4, <3>1
      <3> QED BY <1>2, <1>3, <3>1, <3>2
    <2>6. e = Input => n = 0
      <3>1. n > 0 => 1 \in 1 .. n
        BY <1>0
      <3> QED BY <1>0, <2>4, <3>1
    <2>7. e = Input => SentBy(c) = {}
      <3> SUFFICES ASSUME n = 0, NEW f \in SentBy(c) PROVE FALSE
        BY <2>6
      <3>1. \A x \in Exchanges : ~(sent[c][x] > 0) /\ sent[c][x] # 2
        BY <1>0
      <3> QED BY <1>0, <1>2, <3>1
    <2>8. Outcome \in SentBy(c) => e = Closed
      <3>1. Outcome \notin Updates /\ Outcome # Closed
        BY EventsApart
      <3> QED BY <1>2, <1>3, <2>4, <3>1
    <2> QED BY <1>4, <1>5, <2>2, <2>5, <2>6, <2>7, <2>8 DEF Trailing, e, n
  <1>6. CASE s # 0
    <2>1. s \in Exchanges /\ Script(c, s) = BodyEvents(s) /\ Len(BodyEvents(s)) = 2
          /\ BodyEvents(s)[1] = Update(s) /\ BodyEvents(s)[2] = Closed /\ Update(s) \in Updates
      BY <1>6, BodyIs DEF Senders, Script
    <2>2. PICK i \in 1 .. n : op[i] = Skeleton(s)
      BY <1>6 DEF Began
    <2>3. Skeleton(s) \in Range(op)
      BY <1>0, <1>1, <2>2
    <2>4. Update(s) \in Recorded(c)
      BY <1>4, <2>1, <2>3
    <2>5. k = 0 \/ k = 1
      BY <1>0, <2>1
    <2>6. CASE k = 0
      <3>1. e = Update(s)
        BY <2>1, <2>6
      <3>2. Update(s) \notin SentBy(c)
        <4> SUFFICES ASSUME Update(s) \in SentBy(c) PROVE FALSE
          OBVIOUS
        <4>1. Update(s) \notin OperationFields /\ Update(s) # Closed
          BY <2>1, EventsApart
        <4>2. \A j \in 1 .. n : op[j] # Update(s)
          BY <1>0, <1>1, <4>1
        <4>3. \A x \in Exchanges : Update(x) = Update(s) => x = s
          BY EventsApart
        <4> QED BY <1>2, <2>6, <4>1, <4>2, <4>3
      <3>3. Update(s) # Input /\ Update(s) \in Events /\ Update(s) \in Trailing
        BY <2>1, EventsApart DEF Events, Trailing
      <3> QED BY <2>4, <3>1, <3>2, <3>3
    <2>7. CASE k = 1
      <3>1. e = Closed
        BY <2>1, <2>7
      <3>2. Closed # Input /\ Closed \notin Fields /\ Closed \in Events /\ Closed \in Trailing
        BY EventsApart DEF Events, Trailing
      <3> QED BY <3>1, <3>2
    <2> QED BY <2>5, <2>6, <2>7
  <1> QED BY <1>5, <1>6

(* Only what was answered has a body that ends.                            *)
LEMMA SentIsRecorded ==
  ASSUME SenderTypes, NEW c \in Calls
  PROVE  SentBy(c) \subseteq Recorded(c) \cup {Closed} /\ SentBy(c) \subseteq Events
         /\ (SentBy(c) # {} => sent[c][0] > 0)
  <1> DEFINE n == sent[c][0]  op == OperationEvents[c]
  <1>0. /\ n \in Nat /\ \A i \in 1 .. n : i \in 1 .. Len(op) /\ n > 0
        /\ \A x \in Exchanges : sent[c][x] \in 0 .. 2
        /\ \A x \in Exchanges : sent[c][x] > 0 => n > 0 /\ Skeleton(x) \in Range(op)
    BY SendersAre
  <1>1. \A i \in 1 .. Len(op) : op[i] \in Events /\ op[i] \in Range(op)
    BY ScriptIs
  <1>2. \A f : f \in SentBy(c) <=> \/ \E i \in 1 .. n : op[i] = f
                                   \/ \E x \in Exchanges : \/ sent[c][x] > 0 /\ f = Update(x)
                                                           \/ sent[c][x] = 2 /\ f = Closed
    BY SentByIs
  <1>3. Range(op) \subseteq Recorded(c) /\ \A x \in Exchanges : Skeleton(x) \in Range(op) => Update(x) \in Recorded(c)
    BY DEF Recorded
  <1>4. Closed \in Events /\ \A x \in Exchanges : Update(x) \in Events
    BY BodyIs, EventsApart DEF Events
  <1> HIDE DEF n, op
  <1>5. ASSUME NEW f \in SentBy(c) PROVE f \in Recorded(c) \cup {Closed} /\ f \in Events /\ n > 0
    <2>1. CASE \E i \in 1 .. n : op[i] = f
      <3>1. PICK i \in 1 .. n : op[i] = f
        BY <2>1
      <3>2. i \in 1 .. Len(op) /\ n > 0
        BY <1>0
      <3>3. op[i] \in Events /\ op[i] \in Range(op)
        BY <1>1, <3>2
      <3> QED BY <1>3, <3>1, <3>2, <3>3
    <2>3. CASE \E x \in Exchanges : \/ sent[c][x] > 0 /\ f = Update(x)
                                    \/ sent[c][x] = 2 /\ f = Closed
      <3>1. PICK x \in Exchanges : \/ sent[c][x] > 0 /\ f = Update(x)
                                   \/ sent[c][x] = 2 /\ f = Closed
        BY <2>3
      <3>2. sent[c][x] > 0
        BY <1>0, <3>1
      <3> QED BY <1>0, <1>3, <1>4, <3>1, <3>2
    <2>4. \/ \E i \in 1 .. n : op[i] = f
          \/ \E x \in Exchanges : \/ sent[c][x] > 0 /\ f = Update(x)
                                  \/ sent[c][x] = 2 /\ f = Closed
      BY <1>2, <1>5, Zenon
    <2> QED BY <2>1, <2>3, <2>4, Zenon
  <1> QED BY <1>5 DEF n

(* The argument behind complete: the record of a call that has its input,  *)
(* an outcome and the end of each body, of which no loss is marked, has    *)
(* everything the call recorded, and nothing else is to come.              *)
LEMMA ReadyIsWhole ==
  ASSUME SenderTypes, NEW c \in Calls, NEW rec \in PendingRecs, NEW Q, Ready(rec),
         Q \cup lost[c] \cup rec.got \subseteq SentBy(c),
         Fields \cap Q \cap rec.got = {}, Fields \cap rec.got \cap lost[c] = {},
         Q \subseteq Trailing,
         \A i \in 1 .. sent[c][0] :
            \/ OperationEvents[c][i] \in {Closed} \cup Q \cup rec.got
            \/ i = sent[c][0] /\ <<c, 0>> \in marking
  PROVE  /\ rec.got = Recorded(c) \ {Closed} /\ Recorded(c) \ {Closed} \subseteq SentBy(c)
         /\ lost[c] \subseteq {Closed} /\ Q \subseteq {Closed}
  <1> DEFINE n == sent[c][0]  op == OperationEvents[c]
  <1>0. n \in Nat /\ n <= Len(op) /\ Len(op) \in Nat /\ DOMAIN op = 1 .. Len(op)
    BY ScriptIs, SendersAre
  <1>1. /\ \A i \in 1 .. Len(op) : op[i] \in OperationFields \cup {Closed}
        /\ \A i, j \in 1 .. Len(op) : i < j =>
               (op[i] \in {Outcome, op[j]} => op[j] = Closed)
        /\ \A x \in Exchanges : Skeleton(x) \in Range(op) => Failed(x) \notin Range(op)
    BY ScriptIs
  <1>2. Outcome \in rec.got /\ rec.got \subseteq Fields
        /\ \A x \in Exchanges : Skeleton(x) \in rec.got => {Failed(x), Update(x)} \cap rec.got # {}
    BY DEF Ready, Pend, HasExchange, Finalized, PendingRecs
  <1>3. \A f : f \in SentBy(c) <=> \/ \E i \in 1 .. n : op[i] = f
                                   \/ \E x \in Exchanges : \/ sent[c][x] > 0 /\ f = Update(x)
                                                           \/ sent[c][x] = 2 /\ f = Closed
    BY SentByIs
  <1>4. \A f \in OperationFields : f \in SentBy(c) => \E i \in 1 .. n : op[i] = f
    <2> SUFFICES ASSUME NEW f \in OperationFields, f \in SentBy(c) PROVE \E i \in 1 .. n : op[i] = f
      OBVIOUS
    <2>1. f # Closed /\ \A x \in Exchanges : f # Update(x)
      BY EventsApart, BodyIs
    <2> QED BY <1>3, <2>1
  <1>5. PICK io \in 1 .. n : op[io] = Outcome
    BY <1>2, <1>4, EventsApart
  <1> HIDE DEF n, op
  <1>6. \A i \in 1 .. Len(op) : io < i => op[i] = Closed
    <2>1. io \in 1 .. Len(op)
      BY <1>0
    <2> QED BY <1>1, <1>5, <2>1
  <1>7. \A i \in 1 .. n : op[i] = Closed \/ op[i] \in rec.got
    <2> SUFFICES ASSUME NEW i \in 1 .. n, op[i] # Closed PROVE op[i] \in rec.got
      OBVIOUS
    <2>0. i \in 1 .. Len(op)
      BY <1>0
    <2>1. op[i] \notin Q
      BY <1>1, <2>0, EventsApart DEF Trailing
    <2>2. CASE i = n
      <3>1. io = i
        BY <1>0, <1>5, <1>6, <2>0, <2>2
      <3> QED BY <1>2, <1>5, <3>1
    <2>3. CASE i # n
      BY <2>1, <2>3 DEF n, op
    <2> QED BY <2>2, <2>3
  <1>8. \A i \in 1 .. Len(op) : i \in 1 .. n \/ op[i] = Closed
    BY <1>0, <1>5, <1>6
  <1>9. Range(op) \ {Closed} \subseteq rec.got
    BY <1>0, <1>7, <1>8 DEF Range
  <1>10. \A x \in Exchanges : /\ Skeleton(x) \in OperationFields /\ Failed(x) \in OperationFields
                               /\ Skeleton(x) # Closed
    BY EventsApart DEF OperationFields
  <1>11. \A i \in 1 .. n : op[i] \in Range(op)
    BY <1>0 DEF Range
  <1>12. ASSUME NEW x \in Exchanges, Skeleton(x) \in Range(op) PROVE Update(x) \in rec.got
    <2>1. Skeleton(x) \in rec.got
      BY <1>9, <1>10, <1>12
    <2>2. Failed(x) \notin rec.got
      BY <1>1, <1>4, <1>10, <1>11, <1>12
    <2> QED BY <1>2, <2>1, <2>2
  <1>13. Recorded(c) = Range(op) \cup {Update(x) : x \in {y \in Exchanges : Skeleton(y) \in Range(op)}}
    BY DEF Recorded, op
  <1>14. Recorded(c) \ {Closed} \subseteq rec.got
    BY <1>9, <1>12, <1>13
  <1>15. SentBy(c) \subseteq Recorded(c) \cup {Closed}
    BY SentIsRecorded
  <1>16. rec.got = Recorded(c) \ {Closed}
    <2>1. Closed \notin rec.got
      BY <1>2, EventsApart
    <2> QED BY <1>14, <1>15, <2>1
  <1>17. \A f \in SentBy(c) : f = Closed \/ (f \in rec.got /\ f \in Fields)
    BY <1>2, <1>14, <1>15
  <1> QED BY <1>16, <1>17

-----------------------------------------------------------------------------
(* The channel *)

LEMMA TailQueue ==
  ASSUME NEW items, InOrder(items), items # <<>>
  PROVE  /\ InOrder(Tail(items)) /\ items[1] = Head(items) /\ Head(items) \in Items
         /\ \A c \in Calls : \A e : e \in QueuedOf(items, c) <=>
               e \in QueuedOf(Tail(items), c) \/ Head(items) = <<e, c>>
         /\ \A c \in Calls, e \in Events : Head(items) = <<e, c>> =>
               /\ e \in Fields => e \notin QueuedOf(Tail(items), c)
               /\ Input \notin QueuedOf(Tail(items), c)
               /\ e = Outcome => QueuedOf(Tail(items), c) \subseteq Trailing
  <1> DEFINE n == Len(items)
  <1>0. /\ items \in Seq(Items) /\ Tail(items) \in Seq(Items) /\ n \in Nat \ {0}
        /\ Len(Tail(items)) = n - 1 /\ \A i \in 1 .. n - 1 : Tail(items)[i] = items[i + 1]
        /\ items[1] = Head(items) /\ Head(items) \in Items
    BY DEF InOrder
  <1> HIDE DEF n
  <1>1. /\ \A i \in 1 .. n - 1 : i + 1 \in 1 .. n /\ 1 < i + 1
        /\ \A i, j \in 1 .. n - 1 : i < j => i + 1 < j + 1
        /\ \A i \in 1 .. n : i = 1 \/ (i - 1 \in 1 .. n - 1 /\ i - 1 + 1 = i)
        /\ 1 \in 1 .. n
    BY <1>0
  <1>2. \A c \in Calls, e \in Events : \A p, q \in 1 .. n : p < q =>
          /\ items[p] = <<e, c>> /\ items[q] = <<e, c>> => e = Closed
          /\ items[p] = <<e, c>> => items[q] # <<Input, c>>
          /\ items[p] = <<Outcome, c>> /\ items[q] = <<e, c>> => e \in Trailing
    BY DEF InOrder, n
  <1>3. InOrder(Tail(items))
    <2> SUFFICES ASSUME NEW c \in Calls, NEW e \in Events, NEW p \in 1 .. n - 1, NEW q \in 1 .. n - 1, p < q
                 PROVE  LET t == Tail(items) IN
                        /\ t[p] = <<e, c>> /\ t[q] = <<e, c>> => e = Closed
                        /\ t[p] = <<e, c>> => t[q] # <<Input, c>>
                        /\ t[p] = <<Outcome, c>> /\ t[q] = <<e, c>> => e \in Trailing
      BY <1>0 DEF InOrder
    <2>1. p + 1 \in 1 .. n /\ q + 1 \in 1 .. n /\ p + 1 < q + 1
      BY <1>1
    <2>2. Tail(items)[p] = items[p + 1] /\ Tail(items)[q] = items[q + 1]
      BY <1>0
    <2> QED BY <1>2, <2>1, <2>2
  <1>4. \A c, e : e \in QueuedOf(items, c) <=> \E i \in 1 .. n : items[i] = <<e, c>>
    BY <1>0, QueuedIs DEF n
  <1>5. \A c, e : e \in QueuedOf(Tail(items), c) <=> \E i \in 1 .. n - 1 : items[i + 1] = <<e, c>>
    <2>1. \A c, e : e \in QueuedOf(Tail(items), c) <=>
                      \E i \in 1 .. Len(Tail(items)) : Tail(items)[i] = <<e, c>>
      BY <1>0, QueuedIs
    <2> QED BY <1>0, <2>1
  <1>6. \A c \in Calls : \A e : e \in QueuedOf(items, c) <=>
               e \in QueuedOf(Tail(items), c) \/ Head(items) = <<e, c>>
    <2> SUFFICES ASSUME NEW c \in Calls, NEW e
                 PROVE  e \in QueuedOf(items, c) <=>
                          e \in QueuedOf(Tail(items), c) \/ Head(items) = <<e, c>>
      OBVIOUS
    <2>1. ASSUME NEW i \in 1 .. n, items[i] = <<e, c>>
          PROVE  e \in QueuedOf(Tail(items), c) \/ Head(items) = <<e, c>>
      <3>1. CASE i = 1
        BY <1>0, <2>1, <3>1
      <3>2. CASE i # 1
        <4>1. i - 1 \in 1 .. n - 1 /\ i - 1 + 1 = i
          BY <1>1, <3>2
        <4> QED BY <1>5, <2>1, <4>1
      <3> QED BY <3>1, <3>2
    <2>2. ASSUME NEW i \in 1 .. n - 1, items[i + 1] = <<e, c>> PROVE e \in QueuedOf(items, c)
      BY <1>1, <1>4, <2>2
    <2>3. Head(items) = <<e, c>> => e \in QueuedOf(items, c)
      BY <1>0, <1>1, <1>4
    <2> QED BY <1>4, <1>5, <2>1, <2>2, <2>3
  <1>7. ASSUME NEW c \in Calls, NEW e \in Events, items[1] = <<e, c>>
        PROVE  /\ e \in Fields => e \notin QueuedOf(Tail(items), c)
               /\ Input \notin QueuedOf(Tail(items), c)
               /\ e = Outcome => QueuedOf(Tail(items), c) \subseteq Trailing
    <2>1. \A i \in 1 .. n - 1 : items[i + 1] = <<e, c>> => e = Closed
      BY <1>1, <1>2, <1>7
    <2>2. \A i \in 1 .. n - 1 : items[i + 1] # <<Input, c>>
      BY <1>1, <1>2, <1>7
    <2>3. ASSUME e = Outcome, NEW f, NEW i \in 1 .. n - 1, items[i + 1] = <<f, c>>
          PROVE  f \in Trailing
      <3>1. i + 1 \in 1 .. n
        BY <1>1
      <3>2. items[i + 1] \in Items
        BY <3>1, <1>0 DEF n
      <3>3. f \in Events
        BY <3>2, <2>3, ItemIs DEF Items
      <3> QED BY <1>1, <1>2, <1>7, <2>3, <3>3
    <2>4. Closed \notin Fields
      BY EventsApart
    <2> QED BY <1>5, <2>1, <2>2, <2>3, <2>4
  <1> QED BY <1>0, <1>3, <1>6, <1>7

LEMMA AppendQueue ==
  ASSUME NEW items \in Seq(Items), NEW x \in Items
  PROVE  /\ Append(items, x) \in Seq(Items)
         /\ \A c, e : e \in QueuedOf(Append(items, x), c) <=>
                         e \in QueuedOf(items, c) \/ x = <<e, c>>
  <1> DEFINE n == Len(items)  more == Append(items, x)
  <1>0. /\ n \in Nat /\ more \in Seq(Items) /\ Len(more) = n + 1 /\ more[n + 1] = x
        /\ \A i \in 1 .. n : more[i] = items[i]
    OBVIOUS
  <1>1. \A c, e : e \in QueuedOf(items, c) <=> \E i \in 1 .. n : items[i] = <<e, c>>
    BY QueuedIs
  <1>2. \A c, e : e \in QueuedOf(more, c) <=> \E i \in 1 .. Len(more) : more[i] = <<e, c>>
    BY <1>0, QueuedIs
  <1> HIDE DEF n, more
  <1>3. (\A i \in 1 .. n + 1 : i \in 1 .. n \/ i = n + 1) /\ n + 1 \in 1 .. n + 1
        /\ (\A i \in 1 .. n : i \in 1 .. n + 1)
    BY <1>0
  <1>4. \A c, e : e \in QueuedOf(more, c) <=> e \in QueuedOf(items, c) \/ x = <<e, c>>
    BY <1>0, <1>1, <1>2, <1>3
  <1> QED BY <1>0, <1>4 DEF more

LEMMA AppendInOrder ==
  ASSUME NEW items, InOrder(items), NEW x \in Items,
         \A c \in Calls, e \in Events : x = <<e, c>> =>
            /\ e \in Fields => e \notin QueuedOf(items, c)
            /\ e = Input => QueuedOf(items, c) = {}
            /\ Outcome \in QueuedOf(items, c) => e \in Trailing
  PROVE  InOrder(Append(items, x))
  <1> DEFINE n == Len(items)  more == Append(items, x)
  <1>0. /\ n \in Nat /\ more \in Seq(Items) /\ Len(more) = n + 1 /\ more[n + 1] = x
        /\ \A i \in 1 .. n : more[i] = items[i]
        /\ items \in Seq(Items)
    BY DEF InOrder
  <1>1. \A c, e : e \in QueuedOf(items, c) <=> \E i \in 1 .. n : items[i] = <<e, c>>
    BY <1>0, QueuedIs
  <1>2. \A c \in Calls, e \in Events : \A p, q \in 1 .. n : p < q =>
          /\ items[p] = <<e, c>> /\ items[q] = <<e, c>> => e = Closed
          /\ items[p] = <<e, c>> => items[q] # <<Input, c>>
          /\ items[p] = <<Outcome, c>> /\ items[q] = <<e, c>> => e \in Trailing
    BY DEF InOrder
  <1> HIDE DEF n, more
  <1>3. \A p, q \in 1 .. n + 1 : p < q => p \in 1 .. n /\ (q \in 1 .. n \/ q = n + 1)
    BY <1>0
  <1> SUFFICES ASSUME NEW c \in Calls, NEW e \in Events, NEW p \in 1 .. n, NEW q \in 1 .. n + 1,
                      p < q, q \in 1 .. n \/ q = n + 1
               PROVE  /\ more[p] = <<e, c>> /\ more[q] = <<e, c>> => e = Closed
                      /\ more[p] = <<e, c>> => more[q] # <<Input, c>>
                      /\ more[p] = <<Outcome, c>> /\ more[q] = <<e, c>> => e \in Trailing
    BY <1>0, <1>3 DEF InOrder, more
  <1>4. CASE q \in 1 .. n
    BY <1>0, <1>2, <1>4
  <1>5. CASE q = n + 1
    <2>1. more[p] = items[p] /\ more[q] = x
      BY <1>0, <1>5
    <2>2. \A f : items[p] = <<f, c>> => f \in QueuedOf(items, c)
      BY <1>1
    <2>3. Input \in Events /\ Events = Fields \cup {Closed}
      BY EventsApart DEF Events
    <2>4. more[p] = <<e, c>> /\ more[q] = <<e, c>> => e = Closed
      BY <2>1, <2>2, <2>3
    <2>5. more[p] = <<e, c>> => more[q] # <<Input, c>>
      BY <2>1, <2>2, <2>3
    <2>6. more[p] = <<Outcome, c>> /\ more[q] = <<e, c>> => e \in Trailing
      BY <2>1, <2>2
    <2> QED BY <2>4, <2>5, <2>6
  <1> QED BY <1>4, <1>5

-----------------------------------------------------------------------------
(* The order of the pending calls *)

LEMMA LeastPosition ==
  ASSUME NEW S \in SUBSET Nat, S # {}
  PROVE  Min(S) \in S /\ \A y \in S : Min(S) =< y
  <1> DEFINE R == OpToRel(<, Nat)
  <1>1. IsWellFoundedOn(R, Nat)
    BY NatLessThanWellFounded
  <1>2. \E x \in S : \A y \in S : ~ (<<y, x>> \in R)
    <2> HIDE DEF R
    <2> QED BY <1>1, WFMin
  <1>3. \A x, y \in Nat : ~(<<y, x>> \in R) => x =< y
    BY DEF OpToRel
  <1> HIDE DEF R
  <1>4. \E x \in S : \A y \in S : x =< y
    BY <1>2, <1>3
  <1> QED BY <1>4 DEF Min

LEMMA IntervalSize ==
  ASSUME NEW n \in Nat
  PROVE  IsFiniteSet(1 .. n) /\ Cardinality(1 .. n) = n
  <1>1. 1 \in Int /\ n \in Int
    OBVIOUS
  <1>2. IsFiniteSet(1 .. n) /\ Cardinality(1 .. n) = IF 1 > n THEN 0 ELSE n - 1 + 1
    BY <1>1, FS_Interval
  <1>3. 1 > n => n = 0
    OBVIOUS
  <1>4. n - 1 + 1 = n
    OBVIOUS
  <1> QED BY <1>2, <1>3, <1>4

(* Each position of one list comes from one of the other's.                *)
Embeds(short, long) ==
  \E f \in [1 .. Len(short) -> 1 .. Len(long)] :
    /\ \A i, j \in 1 .. Len(short) : f[i] = f[j] => i = j
    /\ \A i \in 1 .. Len(short) : short[i] = long[f[i]]

(* An order that keeps ids of calls that are gone: only a call that is     *)
(* back after its input was spent has two.                                 *)
Few(ids, calls, spent) ==
  /\ ids \in Seq(Calls)
  /\ \A i \in 1 .. Len(ids) : ids[i] \in calls \cup spent
  /\ \A i, j \in 1 .. Len(ids) : i # j /\ ids[i] = ids[j] => ids[i] \in calls \cap spent
  /\ \A i, j, k \in 1 .. Len(ids) : i # j /\ i # k /\ j # k => ~(ids[i] = ids[j] /\ ids[i] = ids[k])

LEMMA FewEmbeds ==
  ASSUME NEW calls, NEW spent, NEW long, NEW short \in Seq(Calls), Few(long, calls, spent), Embeds(short, long)
  PROVE  Few(short, calls, spent)
  <1>1. PICK f \in [1 .. Len(short) -> 1 .. Len(long)] :
           /\ \A i, j \in 1 .. Len(short) : f[i] = f[j] => i = j
           /\ \A i \in 1 .. Len(short) : short[i] = long[f[i]]
    BY DEF Embeds
  <1> DEFINE D == 1 .. Len(short)  G == 1 .. Len(long)
  <1>2. /\ \A i \in G : long[i] \in calls \cup spent
        /\ \A i, j \in G : i # j /\ long[i] = long[j] => long[i] \in calls \cap spent
        /\ \A i, j, k \in G : i # j /\ i # k /\ j # k => ~(long[i] = long[j] /\ long[i] = long[k])
    BY DEF Few
  <1> HIDE DEF D, G
  <1>3. /\ \A i \in D : f[i] \in G /\ short[i] = long[f[i]]
        /\ \A i, j \in D : i # j => f[i] # f[j]
    BY <1>1 DEF D, G
  <1>4. /\ \A i \in D : short[i] \in calls \cup spent
        /\ \A i, j \in D : i # j /\ short[i] = short[j] => short[i] \in calls \cap spent
    BY <1>2, <1>3
  <1>5. \A i, j, k \in D : i # j /\ i # k /\ j # k => ~(short[i] = short[j] /\ short[i] = short[k])
    BY <1>2, <1>3
  <1> QED BY <1>4, <1>5 DEF Few, D

LEMMA LiveIs ==
  ASSUME NEW ids \in Seq(Calls), NEW calls
  PROVE  LET live == Live(ids, calls)
         IN  /\ live \in Seq(Calls) /\ Len(live) <= Len(ids) /\ Embeds(live, ids)
             /\ Range(ids) \cap calls \subseteq Range(live)
             /\ Len(live) = Cardinality({i \in 1 .. Len(ids) : ids[i] \in calls})
  <1> DEFINE n == Len(ids)
             at == {i \in 1 .. n : ids[i] \in calls}
             N == Cardinality(at)
             upto(i) == {j \in at : j <= i}
             rank == [i \in at |-> Cardinality(upto(i))]
             Nth(k) == CHOOSE i \in at : Cardinality(upto(i)) = k
             live == Live(ids, calls)
  <1>0. n \in Nat /\ DOMAIN ids = 1 .. n /\ \A i \in 1 .. n : ids[i] \in Calls
    OBVIOUS
  <1>1. live = [k \in 1 .. N |-> ids[Nth(k)]]
    BY <1>0 DEF Live
  <1>2. IsFiniteSet(1 .. n) /\ Cardinality(1 .. n) = n
    BY <1>0, IntervalSize
  <1>3. IsFiniteSet(at) /\ N <= n /\ N \in Nat
    BY <1>2, FS_Subset, FS_CardinalityType
  <1>4. ASSUME NEW i \in at
        PROVE  upto(i) \in SUBSET at /\ i \in upto(i) /\ i \in Nat
    BY <1>0
  <1>5. ASSUME NEW i \in at
        PROVE  IsFiniteSet(upto(i)) /\ Cardinality(upto(i)) \in 1 .. N
    <2>1. IsFiniteSet(upto(i)) /\ Cardinality(upto(i)) <= N
      BY <1>3, <1>4, FS_Subset
    <2>2. Cardinality(upto(i)) \in Nat /\ Cardinality(upto(i)) # 0
      BY <1>4, <2>1, FS_CardinalityType, FS_EmptySet
    <2> HIDE DEF upto, N
    <2> QED BY <1>3, <2>1, <2>2
  <1>6. ASSUME NEW i \in at, NEW j \in at, i < j
        PROVE  Cardinality(upto(i)) # Cardinality(upto(j))
    <2>1. upto(i) \in SUBSET upto(j) /\ j \notin upto(i) /\ j \in upto(j)
      BY <1>0, <1>6
    <2>2. IsFiniteSet(upto(j))
      BY <1>5
    <2>3. Cardinality(upto(i)) = Cardinality(upto(j)) => upto(i) = upto(j)
      BY <2>1, <2>2, FS_Subset
    <2> HIDE DEF upto
    <2> QED BY <2>1, <2>3
  <1>7. \A i, j \in at : rank[i] = rank[j] => i = j
    <2> SUFFICES ASSUME NEW i \in at, NEW j \in at, rank[i] = rank[j] PROVE i = j
      OBVIOUS
    <2>1. i \in Nat /\ j \in Nat
      BY <1>4
    <2>2. rank[i] = Cardinality(upto(i)) /\ rank[j] = Cardinality(upto(j))
      OBVIOUS
    <2>3. ~(i < j) /\ ~(j < i)
      BY <1>6, <2>2
    <2> QED BY <2>1, <2>3
  <1>8. rank \in [at -> 1 .. N]
    BY <1>5
  <1> HIDE DEF rank, at, upto, N, n, live
  <1>9. rank \in Injection(at, 1 .. N)
    BY <1>7, <1>8 DEF Injection, IsInjective
  <1>10. IsFiniteSet(1 .. N) /\ Cardinality(1 .. N) = N
    BY <1>3, IntervalSize
  <1>11. rank \in Surjection(at, 1 .. N)
    BY <1>9, <1>10, FS_Injection DEF N
  <1>12. \A i \in at : rank[i] = Cardinality(upto(i))
    BY DEF rank
  <1>13. ASSUME NEW k \in 1 .. N PROVE Nth(k) \in at /\ rank[Nth(k)] = k
    <2>1. \E i \in at : Cardinality(upto(i)) = k
      BY <1>11, <1>12 DEF Surjection
    <2> QED BY <1>12, <2>1
  <1> HIDE DEF Nth
  <1>14. \A i \in at : rank[i] \in 1 .. N /\ Nth(rank[i]) = i
    BY <1>7, <1>8, <1>13
  <1>15. at = {i \in 1 .. n : ids[i] \in calls}
    BY DEF at
  <1>16. \A k \in 1 .. N : ids[Nth(k)] \in Calls
    BY <1>0, <1>13, <1>15
  <1>17. live \in Seq(Calls) /\ Len(live) = N
    BY <1>1, <1>3, <1>16
  <1>18. Embeds(live, ids)
    <2> DEFINE f == [k \in 1 .. N |-> Nth(k)]
    <2>1. f \in [1 .. N -> 1 .. n]
      BY <1>13, <1>15
    <2>2. \A i, j \in 1 .. N : f[i] = f[j] => i = j
      BY <1>13
    <2>3. \A i \in 1 .. N : live[i] = ids[f[i]]
      BY <1>1
    <2> HIDE DEF f
    <2> QED BY <1>17, <2>1, <2>2, <2>3 DEF Embeds, n
  <1>19. Range(ids) \cap calls \subseteq Range(live)
    <2> SUFFICES ASSUME NEW i \in at PROVE ids[i] \in Range(live)
      BY <1>0, <1>15 DEF Range
    <2>1. rank[i] \in 1 .. N /\ live[rank[i]] = ids[i]
      BY <1>1, <1>14
    <2> QED BY <1>17, <2>1 DEF Range
  <1> QED BY <1>3, <1>15, <1>17, <1>18, <1>19 DEF live, n, N

LEMMA EmbedsTrans ==
  ASSUME NEW a, NEW b, NEW d, Embeds(a, b), Embeds(b, d)
  PROVE  Embeds(a, d)
  <1> DEFINE A == 1 .. Len(a)  B == 1 .. Len(b)  D == 1 .. Len(d)
  <1>1. PICK f \in [A -> B] : /\ \A i, j \in A : f[i] = f[j] => i = j
                              /\ \A i \in A : a[i] = b[f[i]]
    BY DEF Embeds
  <1>2. PICK g \in [B -> D] : /\ \A i, j \in B : g[i] = g[j] => i = j
                              /\ \A i \in B : b[i] = d[g[i]]
    BY DEF Embeds
  <1> DEFINE h == [i \in A |-> g[f[i]]]
  <1> HIDE DEF A, B, D
  <1>3. h \in [A -> D]
    BY <1>1, <1>2
  <1>4. \A i, j \in A : h[i] = h[j] => i = j
    BY <1>1, <1>2
  <1>5. \A i \in A : a[i] = d[h[i]]
    BY <1>1, <1>2
  <1> HIDE DEF h
  <1> QED BY <1>3, <1>4, <1>5 DEF Embeds, A, D

(* Two ids of a pending call at most: the compaction to the pending calls  *)
(* leaves twice their number.                                              *)
LEMMA FewLive ==
  ASSUME NEW ids, NEW calls, NEW spent, Few(ids, calls, spent), IsFiniteSet(calls)
  PROVE  Cardinality({i \in 1 .. Len(ids) : ids[i] \in calls}) <= 2 * Cardinality(calls)
  <1> DEFINE at == {i \in 1 .. Len(ids) : ids[i] \in calls}
             first == {i \in at : \A j \in at : ids[j] = ids[i] => i <= j}
             second == at \ first
             g == [i \in first |-> ids[i]]
             h == [i \in second |-> ids[i]]
  <1>0. Len(ids) \in Nat /\ \A i \in at : i \in Nat
    BY DEF Few
  <1>1. \A i, j, k \in at : i # j /\ i # k /\ j # k => ~(ids[i] = ids[j] /\ ids[i] = ids[k])
    BY DEF Few
  <1>2. \A i \in at : ids[i] \in calls
    OBVIOUS
  <1> HIDE DEF at
  <1>3. g \in Injection(first, calls)
    <2>1. g \in [first -> calls]
      BY <1>2
    <2>2. \A i, j \in first : g[i] = g[j] => i = j
      <3> SUFFICES ASSUME NEW i \in first, NEW j \in first, ids[i] = ids[j] PROVE i = j
        OBVIOUS
      <3>1. i \in at /\ j \in at /\ i <= j /\ j <= i
        OBVIOUS
      <3> QED BY <1>0, <3>1
    <2> HIDE DEF g, first
    <2> QED BY <2>1, <2>2 DEF Injection, IsInjective
  <1>4. h \in Injection(second, calls)
    <2>1. h \in [second -> calls]
      BY <1>2
    <2>2. \A i \in second : i \in at /\ \E k \in at : ids[k] = ids[i] /\ k < i
      BY <1>0
    <2>3. ASSUME NEW i \in second, NEW j \in second, ids[i] = ids[j], i # j PROVE FALSE
      <3>1. PICK k \in at : ids[k] = ids[i] /\ k < i
        BY <2>2
      <3>2. PICK l \in at : ids[l] = ids[j] /\ l < j
        BY <2>2
      <3>3. i \in at /\ j \in at /\ i \in Nat /\ j \in Nat /\ k \in Nat /\ l \in Nat
        BY <1>0, <2>2
      <3>4. CASE k # j
        <4>1. k # i
          BY <3>1, <3>3
        <4> QED BY <1>1, <2>3, <3>1, <3>3, <3>4, <4>1
      <3>5. CASE k = j
        <4>1. l # j /\ l # i
          BY <3>1, <3>2, <3>3, <3>5
        <4> QED BY <1>1, <2>3, <3>2, <3>3, <4>1
      <3> QED BY <3>4, <3>5
    <2>4. \A i, j \in second : h[i] = h[j] => i = j
      BY <2>3
    <2> HIDE DEF h, second
    <2> QED BY <2>1, <2>4 DEF Injection, IsInjective
  <1>5. IsFiniteSet(first) /\ Cardinality(first) <= Cardinality(calls)
    <2> HIDE DEF first, g
    <2> QED BY <1>3, FS_Injection
  <1>6. IsFiniteSet(second) /\ Cardinality(second) <= Cardinality(calls)
    <2> HIDE DEF second, h
    <2> QED BY <1>4, FS_Injection
  <1>7. at = first \cup second /\ first \cap second = {}
    OBVIOUS
  <1> HIDE DEF first, second
  <1>8. Cardinality(first \cup second) = Cardinality(first) + Cardinality(second) - Cardinality(first \cap second)
    BY <1>5, <1>6, FS_Union
  <1>9. Cardinality(first) \in Nat /\ Cardinality(second) \in Nat /\ Cardinality(calls) \in Nat
        /\ Cardinality(first \cap second) = 0
    BY <1>5, <1>6, <1>7, FS_CardinalityType, FS_EmptySet
  <1>10. Cardinality(at) <= 2 * Cardinality(calls)
    BY <1>5, <1>6, <1>7, <1>8, <1>9
  <1> QED BY <1>10 DEF at

LEMMA TrimIs ==
  ASSUME NEW ids \in Seq(Calls), NEW calls
  PROVE  LET trim == Trim(ids, calls)
         IN  /\ trim \in Seq(Calls) /\ Len(trim) <= Len(ids) /\ Embeds(trim, ids)
             /\ Range(ids) \cap calls \subseteq Range(trim)
             /\ \A spent : /\ Few(ids, calls, spent) /\ IsFiniteSet(calls)
                           /\ Cardinality(calls) <= PendingMax
                           => Len(trim) <= 2 * PendingMax
  <1> DEFINE n == Len(ids)
             at == {i \in 1 .. n : ids[i] \in calls}
             first == IF at # {} THEN Min(at) ELSE 0
             rest == IF first = 0 THEN <<>> ELSE SubSeq(ids, first, n)
             live == Live(rest, calls)
             trim == Trim(ids, calls)
  <1>0. n \in Nat /\ DOMAIN ids = 1 .. n /\ PendingMax \in Nat
    BY RecordingAssumption
  <1>1. trim = IF Len(rest) > 2 * PendingMax THEN live ELSE rest
    BY DEF Trim, SelectInSeq
  <1>2. rest \in Seq(Calls) /\ Len(rest) <= n /\ Embeds(rest, ids) /\ Range(ids) \cap calls \subseteq Range(rest)
    <2>1. CASE at = {}
      <3>1. rest = <<>>
        BY <2>1
      <3> HIDE DEF rest
      <3>2. rest \in Seq(Calls) /\ Len(rest) = 0
        BY <3>1
      <3>3. Range(ids) \cap calls = {}
        BY <1>0, <2>1 DEF Range
      <3>4. Embeds(rest, ids)
        <4> DEFINE f == [i \in 1 .. 0 |-> 0]
        <4>1. \A i \in 1 .. 0 : FALSE
          OBVIOUS
        <4>2. f \in [1 .. Len(rest) -> 1 .. n]
          BY <3>2, <4>1
        <4> HIDE DEF f
        <4> QED BY <3>2, <4>1, <4>2 DEF Embeds
      <3> QED BY <1>0, <3>2, <3>3, <3>4
    <2>2. CASE at # {}
      <3>1. first = Min(at)
        BY <2>2
      <3>2. at \in SUBSET Nat
        BY <1>0
      <3>3. Min(at) \in at /\ \A y \in at : Min(at) <= y
        BY <2>2, <3>2, LeastPosition
      <3> HIDE DEF at, first
      <3>4. first \in 1 .. n /\ \A i \in 1 .. n : ids[i] \in calls => first <= i
        BY <3>1, <3>3 DEF at
      <3>5. rest = SubSeq(ids, first, n)
        BY <1>0, <3>4
      <3> HIDE DEF rest, n
      <3>6. rest = [i \in 1 .. n - first + 1 |-> ids[i + first - 1]]
        BY <1>0, <3>4, <3>5 DEF n
      <3>7. \A i \in 1 .. n - first + 1 : i + first - 1 \in 1 .. n
        BY <1>0, <3>4
      <3>8. rest \in Seq(Calls) /\ Len(rest) = n - first + 1
        <4>1. n - first + 1 \in Nat
          BY <1>0, <3>4
        <4>2. \A i \in 1 .. n - first + 1 : ids[i + first - 1] \in Calls
          BY <3>7 DEF n
        <4> QED BY <3>6, <4>1, <4>2
      <3>9. Embeds(rest, ids)
        <4> DEFINE f == [i \in 1 .. n - first + 1 |-> i + first - 1]
        <4>1. f \in [1 .. Len(rest) -> 1 .. n]
          BY <3>7, <3>8
        <4>2. \A i, j \in 1 .. Len(rest) : f[i] = f[j] => i = j
          BY <1>0, <3>4, <3>8
        <4>3. \A i \in 1 .. Len(rest) : rest[i] = ids[f[i]]
          BY <3>6, <3>8
        <4> HIDE DEF f
        <4> QED BY <4>1, <4>2, <4>3 DEF Embeds, n
      <3>10. ASSUME NEW i \in 1 .. n, ids[i] \in calls PROVE ids[i] \in Range(rest)
        <4>1. i - first + 1 \in 1 .. Len(rest) /\ (i - first + 1) + first - 1 = i
          BY <1>0, <3>4, <3>8, <3>10
        <4>2. rest[i - first + 1] = ids[i]
          BY <3>6, <3>8, <4>1
        <4> QED BY <3>8, <4>1, <4>2 DEF Range
      <3>11. Range(ids) \cap calls \subseteq Range(rest)
        BY <1>0, <3>10 DEF Range
      <3>12. Len(rest) <= n
        BY <1>0, <3>4, <3>8
      <3> QED BY <3>8, <3>9, <3>11, <3>12
    <2> QED BY <2>1, <2>2
  <1> HIDE DEF rest, trim
  <1>3. /\ live \in Seq(Calls) /\ Len(live) <= Len(rest) /\ Embeds(live, rest)
        /\ Range(rest) \cap calls \subseteq Range(live)
        /\ Len(live) = Cardinality({i \in 1 .. Len(rest) : rest[i] \in calls})
    BY <1>2, LiveIs
  <1>4. Embeds(live, ids)
    BY <1>2, <1>3, EmbedsTrans
  <1> HIDE DEF live
  <1>5. Len(rest) \in Nat /\ Len(live) \in Nat
    BY <1>2, <1>3
  <1>6. trim \in Seq(Calls) /\ Len(trim) <= n /\ Embeds(trim, ids) /\ Range(ids) \cap calls \subseteq Range(trim)
    <2>1. CASE trim = live
      BY <1>0, <1>2, <1>3, <1>4, <1>5, <2>1
    <2>2. CASE trim = rest
      BY <1>2, <2>2
    <2> QED BY <1>1, <2>1, <2>2
  <1>7. ASSUME NEW spent, Few(ids, calls, spent), IsFiniteSet(calls), Cardinality(calls) <= PendingMax
        PROVE  Len(trim) <= 2 * PendingMax
    <2>1. Few(rest, calls, spent)
      BY <1>2, <1>7, FewEmbeds
    <2>2. Len(live) <= 2 * Cardinality(calls)
      BY <1>3, <1>7, <2>1, FewLive
    <2>3. Cardinality(calls) \in Nat
      BY <1>7, FS_CardinalityType
    <2>4. CASE Len(rest) > 2 * PendingMax
      BY <1>0, <1>1, <1>5, <1>7, <2>2, <2>3, <2>4
    <2>5. CASE ~(Len(rest) > 2 * PendingMax)
      BY <1>0, <1>1, <1>5, <2>5
    <2> QED BY <2>4, <2>5
  <1> QED BY <1>6, <1>7 DEF trim, n

LEMMA FewShift ==
  ASSUME NEW ids, NEW P, NEW S, NEW P2, NEW S2, Few(ids, P, S),
         P2 \subseteq P, P \ P2 \subseteq S2 \ S, S \subseteq S2
  PROVE  Few(ids, P2, S2)
  <1>1. \A x : (x \in P \cup S => x \in P2 \cup S2) /\ (x \in P \cap S => x \in P2 \cap S2)
    OBVIOUS
  <1> QED BY <1>1, Zenon DEF Few

LEMMA FewAppend ==
  ASSUME NEW ids, NEW P, NEW S, NEW c \in Calls, Few(ids, P, S), c \notin P
  PROVE  Few(Append(ids, c), P \cup {c}, S)
  <1> DEFINE n == Len(ids)  more == Append(ids, c)
  <1>0. /\ n \in Nat /\ more \in Seq(Calls) /\ Len(more) = n + 1 /\ more[n + 1] = c
        /\ \A i \in 1 .. n : more[i] = ids[i]
    BY DEF Few
  <1>1. /\ \A i \in 1 .. n : ids[i] \in P \cup S
        /\ \A i, j \in 1 .. n : i # j /\ ids[i] = ids[j] => ids[i] \in P \cap S
        /\ \A i, j, k \in 1 .. n : i # j /\ i # k /\ j # k => ~(ids[i] = ids[j] /\ ids[i] = ids[k])
    BY DEF Few
  <1> HIDE DEF n, more
  <1>2. \A i \in 1 .. n + 1 : i \in 1 .. n \/ i = n + 1
    BY <1>0
  <1>3. /\ \A i \in 1 .. n : ids[i] = c => c \in S
        /\ \A i, j \in 1 .. n : ids[i] = c /\ ids[j] = c => i = j
    BY <1>1
  <1>4. \A i \in 1 .. n + 1 : more[i] \in P \cup {c} \cup S
    BY <1>0, <1>1, <1>2
  <1>5. ASSUME NEW i \in 1 .. n + 1, NEW j \in 1 .. n + 1, i # j, more[i] = more[j]
        PROVE  more[i] \in (P \cup {c}) \cap S
    <2>1. CASE i \in 1 .. n /\ j \in 1 .. n
      BY <1>0, <1>1, <1>5, <2>1
    <2>2. CASE i = n + 1
      BY <1>0, <1>2, <1>3, <1>5, <2>2
    <2>3. CASE j = n + 1
      BY <1>0, <1>2, <1>3, <1>5, <2>3
    <2> QED BY <1>2, <2>1, <2>2, <2>3
  <1>6. ASSUME NEW i \in 1 .. n + 1, NEW j \in 1 .. n + 1, NEW k \in 1 .. n + 1,
               i # j, i # k, j # k, more[i] = more[j], more[i] = more[k]
        PROVE  FALSE
    <2>1. CASE i \in 1 .. n /\ j \in 1 .. n /\ k \in 1 .. n
      BY <1>0, <1>1, <1>6, <2>1
    <2>2. CASE i = n + 1
      BY <1>0, <1>2, <1>3, <1>6, <2>2
    <2>3. CASE j = n + 1
      BY <1>0, <1>2, <1>3, <1>6, <2>3
    <2>4. CASE k = n + 1
      BY <1>0, <1>2, <1>3, <1>6, <2>4
    <2> QED BY <1>2, <2>1, <2>2, <2>3, <2>4
  <1> QED BY <1>0, <1>4, <1>5, <1>6 DEF Few, more

LEMMA RemoveAtIs ==
  ASSUME NEW ids \in Seq(Calls), NEW at \in 1 .. Len(ids)
  PROVE  LET rest == RemoveAt(ids, at)
             From(i) == IF i < at THEN i ELSE i + 1
         IN  /\ rest \in Seq(Calls) /\ Len(rest) = Len(ids) - 1
             /\ \A i \in 1 .. Len(rest) : rest[i] = ids[From(i)]
  <1> DEFINE n == Len(ids)  front == SubSeq(ids, 1, at - 1)  back == SubSeq(ids, at + 1, n)
             rest == RemoveAt(ids, at)
  <1>0. n \in Nat /\ at \in Nat /\ at >= 1 /\ at <= n
    OBVIOUS
  <1>1. rest = front \o back
    BY DEF RemoveAt
  <1>2. front = [i \in 1 .. at - 1 |-> ids[i]]
    BY <1>0
  <1>3. back = [i \in 1 .. n - at |-> ids[i + at]]
    <2> DEFINE from == at + 1
    <2>1. SubSeq(ids, from, n) = [i \in 1 .. n - from + 1 |-> ids[from + i - 1]]
      OBVIOUS
    <2>2. n - from + 1 = n - at /\ \A i \in 1 .. n - at : from + i - 1 = i + at
      BY <1>0
    <2> QED BY <2>1, <2>2
  <1>4. front \in Seq(Calls) /\ Len(front) = at - 1
    <2>1. at - 1 \in Nat /\ \A i \in 1 .. at - 1 : ids[i] \in Calls
      BY <1>0
    <2> HIDE DEF front
    <2> QED BY <1>2, <2>1
  <1>5. back \in Seq(Calls) /\ Len(back) = n - at
    <2>1. n - at \in Nat /\ \A i \in 1 .. n - at : ids[i + at] \in Calls
      BY <1>0
    <2> HIDE DEF back, n
    <2> QED BY <1>3, <2>1
  <1> HIDE DEF front, back, rest
  <1>6. rest \in Seq(Calls) /\ Len(rest) = (at - 1) + (n - at)
    <2>0. front \in Seq(Calls) /\ back \in Seq(Calls)
      BY <1>4, <1>5
    <2>1. rest \in Seq(Calls) /\ Len(rest) = Len(front) + Len(back)
      BY <1>1, <2>0, ConcatProperties
    <2> QED BY <1>4, <1>5, <2>1
  <1>7. (at - 1) + (n - at) = n - 1
    BY <1>0
  <1> HIDE DEF n
  <1>8. ASSUME NEW i \in 1 .. n - 1 PROVE rest[i] = ids[IF i < at THEN i ELSE i + 1]
    <2>1. CASE i < at
      <3>1. i \in 1 .. Len(front) /\ i \in 1 .. at - 1
        BY <1>0, <1>4, <2>1
      <3>2. rest[i] = front[i]
        BY <1>1, <1>4, <1>5, <3>1
      <3> QED BY <1>2, <2>1, <3>1, <3>2
    <2>2. CASE ~(i < at)
      <3>1. i \in (at - 1) + 1 .. (at - 1) + (n - at) /\ i - (at - 1) \in 1 .. n - at
            /\ (i - (at - 1)) + at = i + 1 /\ i > at - 1
        BY <1>0, <2>2
      <3>2. rest[i] = back[i - (at - 1)]
        BY <1>1, <1>4, <1>5, <1>6, <3>1
      <3>3. back[i - (at - 1)] = ids[i + 1]
        BY <1>3, <3>1
      <3> QED BY <2>2, <3>2, <3>3
    <2> QED BY <2>1, <2>2
  <1> QED BY <1>6, <1>7, <1>8 DEF rest, n

(* Evicting a call takes one of its ids from the order.                    *)
LEMMA FewRemove ==
  ASSUME NEW ids \in Seq(Calls), NEW at \in 1 .. Len(ids)
  PROVE  LET rest == RemoveAt(ids, at)
         IN  /\ \A x \in Range(ids) : x = ids[at] \/ x \in Range(rest)
             /\ \A P, S : Few(ids, P, S) => Few(rest, P \ {ids[at]}, S)
  <1> DEFINE n == Len(ids)  rest == RemoveAt(ids, at)  old == ids[at]
             From(i) == IF i < at THEN i ELSE i + 1
             D == 1 .. n - 1
             f == [i \in D |-> From(i)]
  <1>0. n \in Nat /\ at \in Nat /\ at >= 1 /\ at <= n /\ DOMAIN ids = 1 .. n
    OBVIOUS
  <1>1. rest \in Seq(Calls) /\ Len(rest) = n - 1 /\ \A i \in D : rest[i] = ids[f[i]]
    BY RemoveAtIs
  <1>2. \A i \in D : f[i] \in 1 .. n /\ f[i] # at
    BY <1>0
  <1>3. \A i, j \in D : i # j => f[i] # f[j]
    BY <1>0
  <1>4. \A k \in 1 .. n : k # at => \E i \in D : f[i] = k
    <2> SUFFICES ASSUME NEW k \in 1 .. n, k # at PROVE \E i \in D : f[i] = k
      OBVIOUS
    <2>1. CASE k < at
      <3>1. k \in D
        BY <1>0, <2>1
      <3> QED BY <2>1, <3>1
    <2>2. CASE ~(k < at)
      <3>1. k - 1 \in D /\ ~(k - 1 < at) /\ k - 1 + 1 = k
        BY <1>0, <2>2
      <3> QED BY <3>1
    <2> QED BY <2>1, <2>2
  <1> HIDE DEF f, D, rest, n
  <1>5. \A x \in Range(ids) : x = old \/ x \in Range(rest)
    <2> SUFFICES ASSUME NEW k \in 1 .. n, k # at PROVE ids[k] \in Range(rest)
      BY <1>0 DEF Range
    <2>1. PICK i \in D : f[i] = k
      BY <1>4
    <2>2. i \in DOMAIN rest /\ rest[i] = ids[k]
      BY <1>1, <2>1 DEF D
    <2> QED BY <2>2 DEF Range
  <1>6. ASSUME NEW P, NEW S, Few(ids, P, S) PROVE Few(rest, P \ {old}, S)
    <2>1. /\ \A i \in 1 .. n : ids[i] \in P \cup S
          /\ \A i, j \in 1 .. n : i # j /\ ids[i] = ids[j] => ids[i] \in P \cap S
          /\ \A i, j, k \in 1 .. n : i # j /\ i # k /\ j # k => ~(ids[i] = ids[j] /\ ids[i] = ids[k])
      BY <1>6 DEF Few, n
    <2>2. at \in 1 .. n
      BY <1>0
    <2>3. \A i \in D : rest[i] \in (P \ {old}) \cup S
      BY <1>1, <1>2, <2>1, <2>2
    <2>4. \A i, j \in D : i # j /\ rest[i] = rest[j] => rest[i] # old
      BY <1>1, <1>2, <1>3, <2>1, <2>2
    <2>5. \A i, j \in D : i # j /\ rest[i] = rest[j] => rest[i] \in (P \ {old}) \cap S
      BY <1>1, <1>2, <1>3, <2>1, <2>4
    <2>6. \A i, j, k \in D : i # j /\ i # k /\ j # k => ~(rest[i] = rest[j] /\ rest[i] = rest[k])
      BY <1>1, <1>2, <1>3, <2>1
    <2> QED BY <1>1, <2>3, <2>5, <2>6 DEF Few, D
  <1> QED BY <1>5, <1>6 DEF rest

(* The call picked for eviction is pending.                                *)
LEMMA NextEvictionIs ==
  ASSUME NEW ids \in Seq(Calls), DOMAIN pending # {}, DOMAIN pending \subseteq Range(ids)
  PROVE  NextEviction(ids) \in 1 .. Len(ids) /\ ids[NextEviction(ids)] \in DOMAIN pending
  <1> DEFINE n == Len(ids)
             A == {i \in 1 .. n : IsPending(ids[i]) /\ IsEmptyPlaceholder(pending[ids[i]])}
             B == {i \in 1 .. n : IsPending(ids[i]) /\ IsInactiveOrMissingInput(pending[ids[i]])}
             C == {i \in 1 .. n : IsPending(ids[i])}
             First(X) == IF X # {} THEN Min(X) ELSE 0
  <1>0. n \in Nat /\ DOMAIN ids = 1 .. n
    OBVIOUS
  <1>1. NextEviction(ids) = IF First(A) # 0 THEN First(A) ELSE IF First(B) # 0 THEN First(B) ELSE First(C)
    BY DEF NextEviction, FirstOf, SelectInSeq
  <1>2. A \subseteq C /\ B \subseteq C
    OBVIOUS
  <1>3. C \subseteq 1 .. n /\ C # {} /\ \A i \in C : ids[i] \in DOMAIN pending
    BY <1>0 DEF Range, IsPending
  <1> HIDE DEF A, B, C, n
  <1>4. ASSUME NEW X \in SUBSET C, X # {} PROVE First(X) \in C /\ First(X) # 0
    <2>1. X \in SUBSET Nat
      BY <1>0, <1>3
    <2>2. Min(X) \in X
      BY <1>4, <2>1, LeastPosition
    <2>3. First(X) = Min(X)
      BY <1>4
    <2>4. Min(X) \in C /\ Min(X) # 0
      <3> DEFINE m == Min(X)
      <3>1. m \in C
        BY <2>2
      <3> HIDE DEF m
      <3>2. m \in 1 .. n
        BY <1>3, <3>1
      <3>3. m # 0
        BY <1>0, <3>2
      <3> QED BY <3>1, <3>3 DEF m
    <2> HIDE DEF First
    <2> QED BY <2>3, <2>4
  <1>5. First({}) = 0
    OBVIOUS
  <1> HIDE DEF First
  <1>6. NextEviction(ids) \in C
    BY <1>1, <1>2, <1>3, <1>4, <1>5
  <1> QED BY <1>3, <1>6 DEF n

-----------------------------------------------------------------------------
(* The writer *)

(* A line of a call reaches the file, or its loss is remembered.           *)
Adds(d, line) ==
  \/ lines'[d] = Append(lines[d], line)
  \/ lines'[d] = lines[d] /\ writeError'

LEMMA ListOfOne ==
  /\ SetToSeq({}) = <<>>
  /\ \A x : SetToSeq({x}) = <<x>>
  <1>1. SetToSeq({}) = <<>>
    <2>1. Cardinality({}) = 0
      BY FS_EmptySet
    <2>2. \A f \in [1 .. 0 -> {}] : f = <<>>
      <3>1. \A f \in [1 .. 0 -> {}] : DOMAIN f = 1 .. 0 /\ f = [i \in 1 .. 0 |-> f[i]]
        OBVIOUS
      <3>2. 1 .. 0 = {} /\ DOMAIN <<>> = {}
        OBVIOUS
      <3> QED BY <3>1, <3>2
    <2>3. <<>> \in [1 .. 0 -> {}] /\ IsInjective(<<>>)
      <3>1. 1 .. 0 = {}
        OBVIOUS
      <3> QED BY <3>1 DEF IsInjective
    <2> QED BY <2>1, <2>2, <2>3 DEF SetToSeq
  <1>2. ASSUME NEW x PROVE SetToSeq({x}) = <<x>>
    <2>1. Cardinality({x}) = 1
      BY FS_Singleton
    <2>2. \A f \in [1 .. 1 -> {x}] : f = <<x>>
      OBVIOUS
    <2>3. <<x>> \in [1 .. 1 -> {x}] /\ IsInjective(<<x>>)
      BY DEF IsInjective
    <2> HIDE DEF IsInjective
    <2> QED BY <2>1, <2>2, <2>3 DEF SetToSeq
  <1> QED BY <1>1, <1>2

LEMMA WriteLinesIs ==
  ASSUME NEW new \in SUBSET FileLines, WriteLines(new),
         \A x, y \in new : x.call = y.call => x = y,
         lines \in [Calls -> Seq(FileLines)], writeError \in BOOLEAN
  PROVE  /\ lines' \in [Calls -> Seq(FileLines)] /\ writeError' \in BOOLEAN
         /\ writeError => writeError'
         /\ \A d \in Calls : (\A x \in new : x.call # d) => lines'[d] = lines[d]
         /\ \A x \in new : x.call \in Calls => Adds(x.call, x)
  <1> DEFINE Of(kept, d) == {line \in kept : line.call = d}
  <1>1. PICK kept \in SUBSET new :
           /\ lines' = [d \in Calls |-> lines[d] \o SetToSeq(Of(kept, d))]
           /\ \/ kept = new /\ writeError' = writeError
              \/ writeError' = TRUE
    <2>1. CASE /\ lines' = [d \in Calls |-> lines[d] \o SetToSeq(Of(new, d))]
               /\ UNCHANGED writeError
      BY <2>1
    <2>2. CASE /\ \E kept \in SUBSET new : kept # new /\
                    lines' = [d \in Calls |-> lines[d] \o SetToSeq(Of(kept, d))]
               /\ writeError' = TRUE
      BY <2>2
    <2> QED BY <2>1, <2>2 DEF WriteLines
  <1>2. \A d \in Calls : lines[d] \in Seq(FileLines)
    OBVIOUS
  <1>3. \A d \in Calls : (\A x \in kept : x.call # d) => lines'[d] = lines[d]
    <2> SUFFICES ASSUME NEW d \in Calls, \A x \in kept : x.call # d PROVE lines'[d] = lines[d]
      OBVIOUS
    <2>1. Of(kept, d) = {}
      OBVIOUS
    <2>2. lines'[d] = lines[d] \o SetToSeq(Of(kept, d))
      BY <1>1
    <2> HIDE DEF Of
    <2>3. lines'[d] = lines[d] \o <<>>
      BY <2>1, <2>2, ListOfOne
    <2> QED BY <1>2, <2>3
  <1>4. \A d \in Calls, x \in kept : x.call = d => lines'[d] = Append(lines[d], x)
    <2> SUFFICES ASSUME NEW d \in Calls, NEW x \in kept, x.call = d PROVE lines'[d] = Append(lines[d], x)
      OBVIOUS
    <2>1. Of(kept, d) = {x}
      BY <1>1
    <2>2. lines'[d] = lines[d] \o SetToSeq(Of(kept, d))
      BY <1>1
    <2> HIDE DEF Of
    <2>3. lines'[d] = lines[d] \o <<x>>
      BY <2>1, <2>2, ListOfOne
    <2> QED BY <1>2, <2>3
  <1>5. \A d \in Calls : lines'[d] \in Seq(FileLines)
    <2> SUFFICES ASSUME NEW d \in Calls PROVE lines'[d] \in Seq(FileLines)
      OBVIOUS
    <2>1. CASE \A x \in kept : x.call # d
      BY <1>2, <1>3, <2>1
    <2>2. CASE \E x \in kept : x.call = d
      <3>1. PICK x \in kept : x.call = d
        BY <2>2
      <3>2. x \in FileLines /\ lines'[d] = Append(lines[d], x)
        BY <1>1, <1>4, <3>1
      <3> QED BY <1>2, <3>2
    <2> QED BY <2>1, <2>2
  <1>6. lines' \in [Calls -> Seq(FileLines)]
    <2>1. lines' = [d \in Calls |-> lines'[d]]
      BY <1>1
    <2> QED BY <1>5, <2>1
  <1>7. \A x \in new : x.call \in Calls => Adds(x.call, x)
    <2> SUFFICES ASSUME NEW x \in new, x.call \in Calls PROVE Adds(x.call, x)
      OBVIOUS
    <2>1. CASE x \in kept
      BY <1>4, <2>1 DEF Adds
    <2>2. CASE x \notin kept
      <3>1. \A y \in kept : y.call # x.call
        BY <1>1, <2>2
      <3>2. writeError' = TRUE
        BY <1>1, <2>2
      <3> QED BY <1>3, <3>1, <3>2 DEF Adds
    <2> QED BY <2>1, <2>2
  <1> QED BY <1>1, <1>3, <1>6, <1>7

LEMMA LossyMarks ==
  ASSUME WriterTypes, NEW old \in DOMAIN pending
  PROVE  LET after == Track(old, DOMAIN pending \ {old})
         IN  /\ after.evicted \in Seq(Calls) /\ Range(after.evicted) \subseteq Range(evicted) \cup {old}
             /\ Len(evicted) <= EvictedMax => Len(after.evicted) <= EvictedMax
             /\ lossy \ after.lossy \subseteq Range(evicted) /\ after.lossy \subseteq lossy \cup {old}
  <1> DEFINE n == Len(evicted)
             ids == IF n >= EvictedMax THEN Tail(evicted) ELSE evicted
             forgotten == IF n >= EvictedMax THEN {Head(evicted)} \ (DOMAIN pending \ {old}) ELSE {}
             after == Track(old, DOMAIN pending \ {old})
  <1>0. EvictedMax \in Nat \ {0} /\ evicted \in Seq(Calls) /\ n \in Nat /\ old \in Calls
    BY RecordingAssumption DEF WriterTypes
  <1>1. after.evicted = Append(ids, old) /\ after.lossy = (lossy \cup {old}) \ forgotten
    BY DEF Track
  <1>2. CASE n >= EvictedMax
    <2>1. n # 0 /\ evicted # <<>>
      BY <1>0, <1>2
    <2>2. ids = Tail(evicted) /\ forgotten \subseteq {Head(evicted)}
      BY <1>2
    <2> HIDE DEF ids, forgotten, after
    <2>3. ids \in Seq(Calls) /\ Len(ids) = n - 1 /\ \A i \in 1 .. n - 1 : ids[i] = evicted[i + 1]
      BY <1>0, <2>1, <2>2
    <2>4. Head(evicted) \in Range(evicted)
      BY <1>0, <2>1 DEF Range
    <2>5. \A i \in 1 .. n - 1 : ids[i] \in Range(evicted)
      <3>1. \A i \in 1 .. n - 1 : i + 1 \in DOMAIN evicted
        BY <1>0
      <3> QED BY <2>3, <3>1 DEF Range
    <2>6. /\ Append(ids, old) \in Seq(Calls) /\ Len(Append(ids, old)) = Len(ids) + 1
          /\ \A i \in 1 .. Len(ids) + 1 : Append(ids, old)[i] = IF i <= Len(ids) THEN ids[i] ELSE old
      BY <1>0, <2>3
    <2> HIDE DEF n
    <2>7. Range(Append(ids, old)) \subseteq Range(evicted) \cup {old}
      <3>1. ASSUME NEW i \in 1 .. Len(ids) + 1 PROVE Append(ids, old)[i] \in Range(evicted) \cup {old}
        <4>1. i <= Len(ids) => i \in 1 .. n - 1
          BY <1>0, <2>3
        <4> QED BY <2>5, <2>6, <4>1
      <3>2. DOMAIN Append(ids, old) = 1 .. Len(ids) + 1
        BY <2>6
      <3> QED BY <3>1, <3>2 DEF Range
    <2>8. n <= EvictedMax => Len(after.evicted) <= EvictedMax
      <3>1. Len(after.evicted) = n
        BY <1>0, <1>1, <2>3, <2>6
      <3> QED BY <3>1
    <2> QED BY <1>1, <2>2, <2>4, <2>6, <2>7, <2>8 DEF n, after
  <1>3. CASE ~(n >= EvictedMax)
    <2>1. ids = evicted /\ forgotten = {}
      BY <1>3
    <2> HIDE DEF ids, forgotten, after
    <2>2. /\ Append(evicted, old) \in Seq(Calls) /\ Len(Append(evicted, old)) = n + 1
          /\ \A i \in 1 .. n + 1 : Append(evicted, old)[i] = IF i <= n THEN evicted[i] ELSE old
      BY <1>0
    <2>3. Range(Append(evicted, old)) \subseteq Range(evicted) \cup {old}
      <3>0. DOMAIN evicted = 1 .. n
        BY <1>0
      <3>1. ASSUME NEW i \in 1 .. n + 1 PROVE Append(evicted, old)[i] \in Range(evicted) \cup {old}
        <4>1. i <= n => i \in DOMAIN evicted
          BY <1>0, <3>0
        <4> QED BY <2>2, <4>1 DEF Range
      <3>2. DOMAIN Append(evicted, old) = 1 .. n + 1
        BY <2>2
      <3> QED BY <3>1, <3>2 DEF Range
    <2>4. Len(after.evicted) <= EvictedMax
      <3>1. Len(after.evicted) = n + 1
        BY <1>1, <2>1, <2>2
      <3> HIDE DEF n
      <3> QED BY <1>0, <1>3, <3>1
    <2> QED BY <1>1, <2>1, <2>2, <2>3, <2>4 DEF after
  <1> QED BY <1>2, <1>3

LEMMA RestrictIs ==
  ASSUME NEW f, NEW S, S \subseteq DOMAIN f
  PROVE  DOMAIN Restrict(f, S) = S /\ \A x \in S : Restrict(f, S)[x] = f[x]
  BY DEF Restrict

(* What a step makes of the calls, the order, the tracker and the marks.   *)
LEMMA EvictIs ==
  ASSUME WriterTypes, DOMAIN pending # {}, DOMAIN pending \subseteq Range(order)
  PROVE  \E old \in DOMAIN pending :
           /\ Evict.lines = {Line(old, pending[old], FALSE)}
           /\ DOMAIN Evict.pending = DOMAIN pending \ {old}
           /\ \A d \in DOMAIN pending \ {old} : Evict.pending[d] = pending[d]
           /\ Evict.order \in Seq(Calls) /\ DOMAIN pending \ {old} \subseteq Range(Evict.order)
           /\ \A S : Few(order, DOMAIN pending, S) => Few(Evict.order, DOMAIN pending \ {old}, S)
           /\ Len(Evict.order) <= Len(order)
           /\ \A S : Few(order, DOMAIN pending, S) /\ Cardinality(DOMAIN pending) <= PendingMax
                       => Len(Evict.order) <= 2 * PendingMax
           /\ Evict.evicted \in Seq(Calls) /\ Range(Evict.evicted) \subseteq Range(evicted) \cup {old}
           /\ Len(evicted) <= EvictedMax => Len(Evict.evicted) <= EvictedMax
           /\ lossy \ Evict.lossy \subseteq Range(evicted) /\ Evict.lossy \subseteq lossy \cup {old}
  <1> DEFINE P == DOMAIN pending
             ids == Trim(order, P)
             at == NextEviction(ids)
             old == ids[at]
             kept == Restrict(pending, P \ {old})
             after == Track(old, DOMAIN kept)
             rest == RemoveAt(ids, at)
  <1>0. order \in Seq(Calls) /\ IsFiniteSet(P) /\ PendingMax \in Nat
    BY RecordingAssumption DEF WriterTypes
  <1>1. /\ Evict.lines = {Line(old, pending[old], FALSE)} /\ Evict.pending = kept
        /\ Evict.order = rest /\ Evict.evicted = after.evicted /\ Evict.lossy = after.lossy
    BY DEF Evict
  <1>2. /\ ids \in Seq(Calls) /\ Len(ids) <= Len(order) /\ Embeds(ids, order)
        /\ Range(order) \cap P \subseteq Range(ids)
        /\ \A S : Few(order, P, S) /\ IsFiniteSet(P) /\ Cardinality(P) <= PendingMax
                    => Len(ids) <= 2 * PendingMax
    BY <1>0, TrimIs
  <1>3. P \subseteq Range(ids)
    BY <1>2
  <1> HIDE DEF ids
  <1>4. at \in 1 .. Len(ids) /\ old \in P
    BY <1>2, <1>3, NextEvictionIs
  <1> HIDE DEF at
  <1>5. DOMAIN kept = P \ {old} /\ \A d \in P \ {old} : kept[d] = pending[d]
    BY RestrictIs
  <1>6. rest \in Seq(Calls) /\ Len(rest) = Len(ids) - 1
    BY <1>2, <1>4, RemoveAtIs
  <1>7. /\ \A x \in Range(ids) : x = old \/ x \in Range(rest)
        /\ \A Q, S : Few(ids, Q, S) => Few(rest, Q \ {old}, S)
    BY <1>2, <1>4, FewRemove
  <1> HIDE DEF rest
  <1>8. \A S : Few(order, P, S) => Few(rest, P \ {old}, S)
    BY <1>2, <1>7, FewEmbeds
  <1> HIDE DEF old, kept
  <1>9. Len(ids) \in Nat /\ Len(order) \in Nat
    BY <1>0, <1>2
  <1>10. /\ Len(rest) <= Len(order)
         /\ \A S : Few(order, P, S) /\ Cardinality(P) <= PendingMax => Len(rest) <= 2 * PendingMax
    <2>1. \A b \in Nat : Len(ids) <= b => Len(rest) <= b
      BY <1>6, <1>9
    <2>2. 2 * PendingMax \in Nat
      BY <1>0
    <2> QED BY <1>0, <1>2, <1>9, <2>1, <2>2
  <1>11. after = Track(old, P \ {old})
    BY <1>5
  <1>12. /\ after.evicted \in Seq(Calls) /\ Range(after.evicted) \subseteq Range(evicted) \cup {old}
         /\ Len(evicted) <= EvictedMax => Len(after.evicted) <= EvictedMax
         /\ lossy \ after.lossy \subseteq Range(evicted) /\ after.lossy \subseteq lossy \cup {old}
    BY <1>4, <1>11, LossyMarks
  <1> HIDE DEF after
  <1>13. P \ {old} \subseteq Range(rest)
    BY <1>3, <1>7
  <1> USE <1>4
  <1> WITNESS old \in P
  <1> QED BY <1>1, <1>5, <1>6, <1>8, <1>10, <1>12, <1>13

(* entry_or_init: what it leaves of the calls, the order and the marks.    *)
EntryOf(entry, c, gone) ==
  /\ gone \subseteq DOMAIN pending \ {c}
  /\ DOMAIN entry.pending = (DOMAIN pending \ gone) \cup {c}
  /\ \A d \in DOMAIN pending \ gone : entry.pending[d] = pending[d]
  /\ ~IsPending(c) => entry.pending[c] = Placeholder
  /\ entry.lines = {Line(d, pending[d], FALSE) : d \in gone}
  /\ entry.order \in Seq(Calls) /\ DOMAIN entry.pending \subseteq Range(entry.order)
  /\ \A S : Few(order, DOMAIN pending, S) => Few(entry.order, DOMAIN entry.pending, S)
  /\ \A S : /\ Few(order, DOMAIN pending, S)
            /\ Cardinality(DOMAIN pending) <= PendingMax /\ Len(order) <= 2 * PendingMax + 1
            => Len(entry.order) <= 2 * PendingMax + 1
  /\ entry.evicted \in Seq(Calls) /\ Range(entry.evicted) \subseteq Range(evicted) \cup gone
  /\ Len(evicted) <= EvictedMax => Len(entry.evicted) <= EvictedMax
  /\ lossy \ entry.lossy \subseteq Range(evicted) /\ entry.lossy \subseteq lossy \cup gone
  /\ IsFiniteSet(DOMAIN entry.pending)
  /\ Cardinality(DOMAIN pending) <= PendingMax => Cardinality(DOMAIN entry.pending) <= PendingMax

LEMMA EntryIs ==
  ASSUME WriterTypes, NEW c \in Calls, DOMAIN pending \subseteq Range(order)
  PROVE  \E gone : EntryOf(Entry(c), c, gone)
  <1> DEFINE P == DOMAIN pending  entry == Entry(c)
             room == IF Cardinality(P) >= PendingMax THEN Evict ELSE [Keep EXCEPT !.order = Trim(@, P)]
  <1>0. /\ order \in Seq(Calls) /\ evicted \in Seq(Calls) /\ PendingMax \in Nat \ {0}
        /\ IsFiniteSet(P) /\ Cardinality(P) \in Nat /\ Len(order) \in Nat
    BY RecordingAssumption, FS_CardinalityType DEF WriterTypes
  <1>1. CASE IsPending(c)
    <2>1. entry = Keep /\ c \in P
      BY <1>1 DEF Entry, IsPending
    <2>2. /\ entry.lines = {} /\ entry.pending = pending /\ entry.order = order
          /\ entry.evicted = evicted /\ entry.lossy = lossy
      BY <2>1 DEF Keep
    <2> HIDE DEF entry
    <2>3. EntryOf(entry, c, {})
      BY <1>0, <1>1, <2>1, <2>2 DEF EntryOf
    <2> QED BY <2>3 DEF entry
  <1>2. CASE ~IsPending(c)
    <2>0. c \notin P
      BY <1>2 DEF IsPending
    <2>1. /\ entry.lines = room.lines /\ entry.evicted = room.evicted /\ entry.lossy = room.lossy
          /\ entry.order = Append(room.order, c)
          /\ entry.pending = [x \in DOMAIN room.pending \cup {c} |->
                                IF x = c THEN Placeholder ELSE room.pending[x]]
      <3>1. CASE Cardinality(P) >= PendingMax
        BY <1>2, <3>1 DEF Entry, Evict
      <3>2. CASE ~(Cardinality(P) >= PendingMax)
        BY <1>2, <3>2 DEF Entry, Keep
      <3> QED BY <3>1, <3>2
    <2>2. \E gone \in SUBSET P :
             /\ room.lines = {Line(d, pending[d], FALSE) : d \in gone}
             /\ DOMAIN room.pending = P \ gone
             /\ \A d \in P \ gone : room.pending[d] = pending[d]
             /\ room.order \in Seq(Calls) /\ P \ gone \subseteq Range(room.order)
             /\ \A S : Few(order, P, S) => Few(room.order, P \ gone, S)
             /\ \A S : Few(order, P, S) /\ Cardinality(P) <= PendingMax => Len(room.order) <= 2 * PendingMax
             /\ room.evicted \in Seq(Calls) /\ Range(room.evicted) \subseteq Range(evicted) \cup gone
             /\ Len(evicted) <= EvictedMax => Len(room.evicted) <= EvictedMax
             /\ lossy \ room.lossy \subseteq Range(evicted) /\ room.lossy \subseteq lossy \cup gone
             /\ IsFiniteSet(P \ gone)
             /\ Cardinality(P) <= PendingMax => Cardinality(P \ gone) < PendingMax
      <3>1. CASE Cardinality(P) >= PendingMax
        <4>1. room = Evict
          BY <3>1
        <4>2. P # {}
          BY <1>0, <3>1, FS_EmptySet
        <4> HIDE DEF room
        <4>3. PICK old \in P :
           /\ room.lines = {Line(old, pending[old], FALSE)}
           /\ DOMAIN room.pending = P \ {old}
           /\ \A d \in P \ {old} : room.pending[d] = pending[d]
           /\ room.order \in Seq(Calls) /\ P \ {old} \subseteq Range(room.order)
           /\ \A S : Few(order, P, S) => Few(room.order, P \ {old}, S)
           /\ \A S : Few(order, P, S) /\ Cardinality(P) <= PendingMax => Len(room.order) <= 2 * PendingMax
           /\ room.evicted \in Seq(Calls) /\ Range(room.evicted) \subseteq Range(evicted) \cup {old}
           /\ Len(evicted) <= EvictedMax => Len(room.evicted) <= EvictedMax
           /\ lossy \ room.lossy \subseteq Range(evicted) /\ room.lossy \subseteq lossy \cup {old}
          BY <4>1, <4>2, EvictIs
        <4>4. IsFiniteSet(P \ {old}) /\ Cardinality(P \ {old}) = Cardinality(P) - 1
          BY <1>0, FS_RemoveElement
        <4>5. Cardinality(P) <= PendingMax => Cardinality(P \ {old}) < PendingMax
          BY <1>0, <4>4
        <4>6. room.lines = {Line(d, pending[d], FALSE) : d \in {old}}
          BY <4>3
        <4>7. {old} \in SUBSET P
          OBVIOUS
        <4> HIDE DEF P
        <4> QED BY <4>3, <4>4, <4>5, <4>6, <4>7
      <3>2. CASE ~(Cardinality(P) >= PendingMax)
        <4>1. /\ room.lines = {} /\ room.pending = pending /\ room.order = Trim(order, P)
              /\ room.evicted = evicted /\ room.lossy = lossy
          BY <3>2 DEF Keep
        <4> HIDE DEF room
        <4>2. /\ room.order \in Seq(Calls) /\ Embeds(room.order, order)
              /\ Range(order) \cap P \subseteq Range(room.order)
              /\ \A S : Few(order, P, S) /\ IsFiniteSet(P) /\ Cardinality(P) <= PendingMax
                         => Len(room.order) <= 2 * PendingMax
          BY <1>0, <4>1, TrimIs
        <4>3. \A S : Few(order, P, S) => Few(room.order, P, S)
          BY <4>2, FewEmbeds
        <4>4. room.lines = {Line(d, pending[d], FALSE) : d \in {}} /\ P \ {} = P
          BY <4>1
        <4>5. Cardinality(P) < PendingMax
          BY <1>0, <3>2
        <4> QED BY <1>0, <4>1, <4>2, <4>3, <4>4, <4>5
      <3> QED BY <3>1, <3>2
    <2> HIDE DEF room, entry
    <2>3. PICK gone \in SUBSET P :
             /\ room.lines = {Line(d, pending[d], FALSE) : d \in gone}
             /\ DOMAIN room.pending = P \ gone
             /\ \A d \in P \ gone : room.pending[d] = pending[d]
             /\ room.order \in Seq(Calls) /\ P \ gone \subseteq Range(room.order)
             /\ \A S : Few(order, P, S) => Few(room.order, P \ gone, S)
             /\ \A S : Few(order, P, S) /\ Cardinality(P) <= PendingMax => Len(room.order) <= 2 * PendingMax
             /\ room.evicted \in Seq(Calls) /\ Range(room.evicted) \subseteq Range(evicted) \cup gone
             /\ Len(evicted) <= EvictedMax => Len(room.evicted) <= EvictedMax
             /\ lossy \ room.lossy \subseteq Range(evicted) /\ room.lossy \subseteq lossy \cup gone
             /\ IsFiniteSet(P \ gone)
             /\ Cardinality(P) <= PendingMax => Cardinality(P \ gone) < PendingMax
      BY <2>2
    <2>4. DOMAIN entry.pending = (P \ gone) \cup {c} /\ entry.pending[c] = Placeholder
          /\ \A d \in P \ gone : entry.pending[d] = pending[d]
      BY <2>0, <2>1, <2>3
    <2>5. gone \subseteq P \ {c}
      BY <2>0, <2>3
    <2>6. /\ entry.order \in Seq(Calls) /\ Len(entry.order) = Len(room.order) + 1
          /\ c \in Range(entry.order) /\ Range(room.order) \subseteq Range(entry.order)
      <3> DEFINE ids == room.order  n == Len(ids)
      <3>1. ids \in Seq(Calls) /\ entry.order = Append(ids, c)
        BY <2>1, <2>3
      <3> HIDE DEF ids
      <3>2. /\ entry.order \in Seq(Calls) /\ Len(entry.order) = n + 1 /\ entry.order[n + 1] = c
            /\ n \in Nat /\ \A i \in 1 .. n : entry.order[i] = ids[i]
            /\ DOMAIN ids = 1 .. n /\ DOMAIN entry.order = 1 .. n + 1
        BY <3>1
      <3> HIDE DEF n
      <3>3. n + 1 \in 1 .. n + 1 /\ \A i \in 1 .. n : i \in 1 .. n + 1
        BY <3>2
      <3> QED BY <3>2, <3>3 DEF Range, ids, n
    <2>7. DOMAIN entry.pending \subseteq Range(entry.order)
      BY <2>3, <2>4, <2>6
    <2>8. \A S : Few(order, P, S) => Few(entry.order, DOMAIN entry.pending, S)
      BY <2>0, <2>1, <2>3, <2>4, FewAppend
    <2>9. \A S : Few(order, P, S) /\ Cardinality(P) <= PendingMax => Len(entry.order) <= 2 * PendingMax + 1
      <3>1. Len(room.order) \in Nat /\ 2 * PendingMax \in Nat
        BY <1>0, <2>3
      <3> QED BY <2>3, <2>6, <3>1
    <2>10. IsFiniteSet(DOMAIN entry.pending)
           /\ (Cardinality(P) <= PendingMax => Cardinality(DOMAIN entry.pending) <= PendingMax)
      <3>1. IsFiniteSet((P \ gone) \cup {c}) /\ Cardinality((P \ gone) \cup {c}) = Cardinality(P \ gone) + 1
        BY <2>0, <2>3, FS_AddElement
      <3>2. Cardinality(P \ gone) \in Nat
        BY <2>3, FS_CardinalityType
      <3> QED BY <1>0, <2>3, <2>4, <3>1, <3>2
    <2>11. EntryOf(entry, c, gone)
      BY <2>1, <2>3, <2>4, <2>5, <2>6, <2>7, <2>8, <2>9, <2>10 DEF EntryOf
    <2> QED BY <2>11 DEF entry
  <1> QED BY <1>1, <1>2

-----------------------------------------------------------------------------
(* What a step of the writer makes of a call *)

Visible(c) ==
  writeError \/
    SentBy(c) \subseteq {Closed} \cup lost[c] \cup Queued(c) \cup Got(c)
      \cup Filed(c)
      \cup (IF c \in inconsistent THEN Updates ELSE {})

Spent(c) == Input \in SentBy(c) \ (Queued(c) \cup Got(c))
SpentCalls == {c \in Calls : Spent(c)}

CallOk(c) == CallInv(c) /\ Visible(c)

(* The rest of the state, and what happens to a call that the step does    *)
(* not touch, drops from the pending calls, holds or writes.               *)
Quiet ==
  /\ UNCHANGED <<sent, marking, lost>>
  /\ inconsistent \subseteq inconsistent' /\ (writeError => writeError')
  /\ Range(evicted') \subseteq Range(evicted) \cup DOMAIN pending

Same(d) ==
  /\ d \in DOMAIN pending' <=> d \in DOMAIN pending
  /\ d \in DOMAIN pending => pending'[d] = pending[d]
  /\ lines'[d] = lines[d]
  /\ Queued(d)' \subseteq Queued(d) /\ Queued(d) \ Queued(d)' \subseteq {Closed}
  /\ d \in lossy => d \in lossy' \/ d \in Range(evicted) \ DOMAIN pending
Goes(d) ==
  /\ IsPending(d) /\ d \notin DOMAIN pending' /\ Queued(d)' = Queued(d)
  /\ Adds(d, Line(d, pending[d], FALSE))
Held(d, rec) ==
  /\ d \in DOMAIN pending' /\ pending'[d] = rec
  /\ lines'[d] = lines[d] /\ (d \in lossy => d \in lossy')
Written(d, rec) ==
  /\ Ready(rec) /\ d \notin DOMAIN pending'
  /\ \E complete \in BOOLEAN : /\ complete => d \notin lossy
                               /\ Adds(d, Line(d, rec, complete))

(* The events taken from the channel are merged into the call's record.    *)
Merges(d, taken, rec) ==
  /\ rec \in PendingRecs
  /\ Got(d) \subseteq rec.got /\ rec.got \subseteq Got(d) \cup taken
  /\ taken \ rec.got \subseteq {Closed} \cup (IF d \in inconsistent' THEN Updates ELSE {})
  /\ Queued(d) = Queued(d)' \cup taken
  /\ \A e \in taken : /\ e \in Fields => e \notin Queued(d)'
                      /\ Input \notin Queued(d)'
                      /\ e = Outcome => Queued(d)' \subseteq Trailing
  /\ IsPending(d) \/ \E e \in taken : e # Closed

LEMMA SentSame ==
  ASSUME UNCHANGED sent, NEW d
  PROVE  SentBy(d)' = SentBy(d)
  BY DEF SentBy, Script

LEMMA GotIs ==
  ASSUME NEW d
  PROVE  /\ d \in DOMAIN pending' => Got(d)' = pending'[d].got
         /\ d \notin DOMAIN pending' => Got(d)' = {}
         /\ d \in DOMAIN pending => Got(d) = pending[d].got
         /\ d \notin DOMAIN pending => Got(d) = {}
         /\ IsPending(d)' <=> d \in DOMAIN pending'
         /\ IsPending(d) <=> d \in DOMAIN pending
  BY DEF Got, IsPending

LEMMA KnownIs ==
  ASSUME Quiet, NEW d, Known(d)'
  PROVE  Known(d) \/ d \in DOMAIN pending'
  BY DEF Known, Quiet

LEMMA SameKeeps ==
  ASSUME NEW d \in Calls, CallOk(d), Quiet, Same(d)
  PROVE  CallOk(d)' /\ (Spent(d) => Spent(d)')
  <1>1. SentBy(d)' = SentBy(d)
    BY SentSame DEF Quiet
  <1>2. Got(d)' = Got(d) /\ (IsPending(d)' <=> IsPending(d))
    BY GotIs DEF Same
  <1>3. /\ Queued(d)' \subseteq Queued(d) /\ Queued(d) \ Queued(d)' \subseteq {Closed}
        /\ lines'[d] = lines[d] /\ lost' = lost /\ sent' = sent /\ marking' = marking
    BY DEF Same, Quiet
  <1>4. Known(d)' => Known(d)
    BY KnownIs DEF Same, Known
  <1>5. Placed(d)'
    BY <1>1, <1>2, <1>3, <1>4 DEF CallOk, CallInv, Placed
  <1>6. Marked(d)'
    <2> SUFFICES ASSUME Whole(d)', d \notin lossy'
                 PROVE  \A i \in 1 .. sent[d][0] :
                          \/ OperationEvents[d][i] \in {Closed} \cup Queued(d) \cup Got(d)
                          \/ i = sent[d][0] /\ <<d, 0>> \in marking
      BY <1>2, <1>3 DEF Marked
    <2>1. Whole(d)
      BY <1>2, <1>3 DEF Whole
    <2>2. d \notin lossy
      <3>1. ASSUME d \in Range(evicted) \ DOMAIN pending PROVE FALSE
        <4>1. Input \notin Queued(d)
          BY <3>1 DEF CallOk, CallInv, Placed, Known
        <4>2. d \in DOMAIN pending
          BY <2>1, <4>1, GotIs DEF Whole
        <4> QED BY <3>1, <4>2
      <3> QED BY <3>1 DEF Same
    <2> QED BY <2>1, <2>2 DEF CallOk, CallInv, Marked
  <1>7. CompleteIsSettled(d)'
    BY <1>1, <1>2, <1>3 DEF CallOk, CallInv, CompleteIsSettled, Settled, Recorded
  <1>8. Visible(d)'
    <2>1. Filed(d)' = Filed(d)
      BY <1>3 DEF Filed
    <2> QED BY <1>1, <1>2, <1>3, <2>1 DEF CallOk, Visible, Quiet
  <1>9. Spent(d) => Spent(d)'
    BY <1>1, <1>2, <1>3 DEF Spent
  <1> QED BY <1>5, <1>6, <1>7, <1>8, <1>9 DEF CallOk, CallInv

(* A pending call, or one with more than "closed" to come, was not written *)
(* as complete.                                                            *)
LEMMA NoneComplete ==
  ASSUME NEW d \in Calls, CallInv(d), IsPending(d) \/ ~(Queued(d) \subseteq {Closed})
  PROVE  \A i \in 1 .. Len(lines[d]) : ~lines[d][i].complete
  BY DEF CallInv, CompleteIsSettled, Settled

LEMMA AddsIs ==
  ASSUME NEW d \in Calls, lines \in [Calls -> Seq(FileLines)], NEW x \in FileLines, Adds(d, x)
  PROVE  /\ \A i \in 1 .. Len(lines'[d]) :
               \/ i \in 1 .. Len(lines[d]) /\ lines'[d][i] = lines[d][i]
               \/ i = Len(lines[d]) + 1 /\ lines'[d][i] = x
         /\ writeError' \/ (x \in Range(lines'[d]) /\ Range(lines[d]) \subseteq Range(lines'[d]))
  <1> DEFINE ls == lines[d]  n == Len(ls)
  <1>0. ls \in Seq(FileLines) /\ n \in Nat /\ DOMAIN ls = 1 .. n
    OBVIOUS
  <1> HIDE DEF ls
  <1>1. CASE lines'[d] = ls /\ writeError'
    BY <1>0, <1>1 DEF ls
  <1>2. CASE lines'[d] = Append(ls, x)
    <2> DEFINE more == Append(ls, x)
    <2>1. /\ Len(more) = n + 1 /\ more[n + 1] = x /\ \A i \in 1 .. n : more[i] = ls[i]
          /\ DOMAIN more = 1 .. n + 1
      BY <1>0
    <2> HIDE DEF more, n
    <2>2. (\A i \in 1 .. n + 1 : i \in 1 .. n \/ i = n + 1) /\ n + 1 \in 1 .. n + 1
          /\ \A i \in 1 .. n : i \in 1 .. n + 1
      BY <1>0
    <2>3. x \in Range(more) /\ Range(ls) \subseteq Range(more)
      BY <1>0, <2>1, <2>2 DEF Range
    <2>4. lines'[d] = more
      BY <1>2 DEF more
    <2> QED BY <2>1, <2>2, <2>3, <2>4 DEF n, ls
  <1> QED BY <1>1, <1>2 DEF Adds, ls

LEMMA GoesKeeps ==
  ASSUME NEW d \in Calls, CallOk(d), WriterTypes, Quiet, Goes(d)
  PROVE  CallOk(d)' /\ (Spent(d) => Spent(d)')
  <1> DEFINE x == Line(d, pending[d], FALSE)
  <1>0. d \in DOMAIN pending /\ pending[d] \in PendingRecs
    BY DEF Goes, IsPending, WriterTypes
  <1>1. SentBy(d)' = SentBy(d)
    BY SentSame DEF Quiet
  <1>2. Got(d)' = {} /\ ~IsPending(d)' /\ Got(d) = pending[d].got
    BY <1>0, GotIs DEF Goes
  <1>3. Queued(d)' = Queued(d) /\ lost' = lost /\ sent' = sent
    BY DEF Goes, Quiet
  <1>4. Input \notin Queued(d) /\ sent[d][0] > 0
    BY <1>0 DEF CallOk, CallInv, Placed, Known
  <1>5. Placed(d)'
    BY <1>1, <1>2, <1>3, <1>4 DEF CallOk, CallInv, Placed
  <1>6. Marked(d)'
    BY <1>2, <1>3, <1>4 DEF Marked, Whole
  <1>7. x \in FileLines /\ x.complete = FALSE /\ x.got = Got(d)
    BY <1>0, <1>2 DEF FileLines, PendingRecs, Line
  <1> HIDE DEF x
  <1>8. Adds(d, x) /\ lines \in [Calls -> Seq(FileLines)]
    BY DEF Goes, x, WriterTypes
  <1>9. /\ \A i \in 1 .. Len(lines'[d]) :
               \/ i \in 1 .. Len(lines[d]) /\ lines'[d][i] = lines[d][i]
               \/ i = Len(lines[d]) + 1 /\ lines'[d][i] = x
        /\ writeError' \/ (x \in Range(lines'[d]) /\ Range(lines[d]) \subseteq Range(lines'[d]))
    BY <1>7, <1>8, AddsIs
  <1>10. \A i \in 1 .. Len(lines'[d]) : ~lines'[d][i].complete
    <2>1. \A i \in 1 .. Len(lines[d]) : ~lines[d][i].complete
      BY NoneComplete DEF Goes, CallOk
    <2> QED BY <1>7, <1>9, <2>1
  <1>11. CompleteIsSettled(d)'
    BY <1>10 DEF CompleteIsSettled
  <1>12. Visible(d)'
    <2>1. CASE writeError'
      BY <2>1 DEF Visible
    <2>2. CASE ~writeError'
      <3>1. ~writeError /\ inconsistent \subseteq inconsistent'
        BY <2>2 DEF Quiet
      <3>2. x \in Range(lines'[d]) /\ Range(lines[d]) \subseteq Range(lines'[d])
        BY <1>9, <2>2
      <3>3. Got(d) \subseteq Filed(d)'
        BY <1>7, <3>2 DEF Filed
      <3>4. Filed(d) \subseteq Filed(d)'
        BY <3>2 DEF Filed
      <3> QED BY <1>1, <1>2, <1>3, <3>1, <3>3, <3>4 DEF Visible, CallOk
    <2> QED BY <2>1, <2>2
  <1>13. Spent(d) => Spent(d)'
    BY <1>1, <1>2, <1>3 DEF Spent
  <1> QED BY <1>5, <1>6, <1>11, <1>12, <1>13 DEF CallOk, CallInv

LEMMA MergedIs ==
  ASSUME NEW d \in Calls, SenderTypes, CallOk(d), Quiet, NEW taken, NEW rec, Merges(d, taken, rec)
  PROVE  LET Q == Queued(d)'
         IN  /\ Q \cup lost[d] \cup rec.got \subseteq SentBy(d)
             /\ Fields \cap Q \cap (lost[d] \cup rec.got) = {} /\ Fields \cap rec.got \cap lost[d] = {}
             /\ Input \notin Q /\ sent[d][0] > 0
             /\ Outcome \in rec.got => Q \subseteq Trailing
             /\ Input \in rec.got /\ d \notin lossy =>
                  \A i \in 1 .. sent[d][0] :
                     \/ OperationEvents[d][i] \in {Closed} \cup Q \cup rec.got
                     \/ i = sent[d][0] /\ <<d, 0>> \in marking
             /\ \A i \in 1 .. Len(lines[d]) : ~lines[d][i].complete
             /\ writeError \/ SentBy(d) \subseteq {Closed} \cup lost[d] \cup Q \cup rec.got
                  \cup Filed(d)
                  \cup (IF d \in inconsistent' THEN Updates ELSE {})
  <1> DEFINE Q == Queued(d)'  mark == IF d \in inconsistent' THEN Updates ELSE {}
  <1>1. /\ Got(d) \subseteq rec.got /\ rec.got \subseteq Got(d) \cup taken /\ rec.got \subseteq Fields
        /\ taken \ rec.got \subseteq {Closed} \cup mark /\ Queued(d) = Q \cup taken
        /\ \A e \in taken : /\ e \in Fields => e \notin Q
                            /\ Input \notin Q
                            /\ e = Outcome => Q \subseteq Trailing
        /\ IsPending(d) \/ \E e \in taken : e # Closed
    BY DEF Merges, PendingRecs
  <1>2. /\ Queued(d) \cup lost[d] \cup Got(d) \subseteq SentBy(d)
        /\ Fields \cap Queued(d) \cap (lost[d] \cup Got(d)) = {}
        /\ Fields \cap Got(d) \cap lost[d] = {}
        /\ Known(d) => Input \notin Queued(d) /\ sent[d][0] > 0
        /\ Outcome \in Got(d) => Queued(d) \subseteq Trailing
    BY DEF CallOk, CallInv, Placed
  <1>3. mark \subseteq Updates /\ (d \in inconsistent => mark = Updates)
    BY DEF Quiet
  <1>4. IsPending(d) => Known(d)
    BY DEF IsPending, Known
  <1>5. Queued(d) # {} => sent[d][0] > 0
    BY <1>2, SentIsRecorded
  <1> HIDE DEF Q, mark
  <1>6. Q \cup lost[d] \cup rec.got \subseteq SentBy(d)
    BY <1>1, <1>2
  <1>7. Fields \cap Q \cap (lost[d] \cup rec.got) = {}
    BY <1>1, <1>2
  <1>8. Fields \cap rec.got \cap lost[d] = {}
    BY <1>1, <1>2
  <1>9. Input \notin Q /\ sent[d][0] > 0
    BY <1>1, <1>2, <1>4, <1>5
  <1>10. Outcome \in rec.got => Q \subseteq Trailing
    BY <1>1, <1>2
  <1>11. ASSUME Input \in rec.got, d \notin lossy, NEW i \in 1 .. sent[d][0]
         PROVE  \/ OperationEvents[d][i] \in {Closed} \cup Q \cup rec.got
                \/ i = sent[d][0] /\ <<d, 0>> \in marking
    <2>1. Whole(d)
      BY <1>1, <1>11 DEF Whole
    <2>2. \/ OperationEvents[d][i] \in {Closed} \cup Queued(d) \cup Got(d)
          \/ i = sent[d][0] /\ <<d, 0>> \in marking
      BY <1>11, <2>1 DEF CallOk, CallInv, Marked
    <2>3. OperationEvents[d][i] \notin Updates
      <3>1. i \in 1 .. Len(OperationEvents[d])
        BY SendersAre
      <3>2. OperationEvents[d][i] \in OperationFields \cup {Closed}
        BY <3>1, ScriptIs
      <3> QED BY <3>2, EventsApart
    <2> QED BY <1>1, <1>3, <2>2, <2>3
  <1>12. \A i \in 1 .. Len(lines[d]) : ~lines[d][i].complete
    <2>1. IsPending(d) \/ ~(Queued(d) \subseteq {Closed})
      BY <1>1
    <2> QED BY <2>1, NoneComplete DEF CallOk
  <1>13. writeError \/ SentBy(d) \subseteq {Closed} \cup lost[d] \cup Q \cup rec.got
                  \cup Filed(d) \cup mark
    <2> DEFINE filed == Filed(d)
    <2>1. writeError \/ SentBy(d) \subseteq {Closed} \cup lost[d] \cup Queued(d) \cup Got(d)
              \cup filed \cup (IF d \in inconsistent THEN Updates ELSE {})
      BY DEF CallOk, Visible
    <2>2. (IF d \in inconsistent THEN Updates ELSE {}) \subseteq mark
      BY <1>3
    <2> HIDE DEF filed
    <2>3. Queued(d) \cup Got(d) \subseteq {Closed} \cup Q \cup rec.got \cup mark
      BY <1>1
    <2>4. writeError \/ SentBy(d) \subseteq {Closed} \cup lost[d] \cup Q \cup rec.got \cup filed \cup mark
      BY <2>1, <2>2, <2>3
    <2> QED BY <2>4 DEF filed
  <1> QED BY <1>6, <1>7, <1>8, <1>9, <1>10, <1>11, <1>12, <1>13 DEF Q, mark

LEMMA HeldKeeps ==
  ASSUME NEW d \in Calls, SenderTypes, CallOk(d), Quiet,
         NEW taken, NEW rec, Merges(d, taken, rec), Held(d, rec)
  PROVE  CallOk(d)' /\ (Spent(d) => Spent(d)')
  <1> DEFINE Q == Queued(d)'  marks == IF d \in inconsistent' THEN Updates ELSE {}
             filed == Filed(d)
  <1>1. /\ Q \cup lost[d] \cup rec.got \subseteq SentBy(d)
        /\ Fields \cap Q \cap (lost[d] \cup rec.got) = {} /\ Fields \cap rec.got \cap lost[d] = {}
        /\ Input \notin Q /\ sent[d][0] > 0
        /\ Outcome \in rec.got => Q \subseteq Trailing
        /\ Input \in rec.got /\ d \notin lossy =>
                  \A i \in 1 .. sent[d][0] :
                     \/ OperationEvents[d][i] \in {Closed} \cup Q \cup rec.got
                     \/ i = sent[d][0] /\ <<d, 0>> \in marking
        /\ \A i \in 1 .. Len(lines[d]) : ~lines[d][i].complete
        /\ writeError \/ SentBy(d) \subseteq {Closed} \cup lost[d] \cup Q \cup rec.got \cup filed \cup marks
    BY MergedIs
  <1>2. SentBy(d)' = SentBy(d)
    BY SentSame DEF Quiet
  <1>3. Got(d)' = rec.got
    BY GotIs DEF Held
  <1>4. lost' = lost /\ sent' = sent /\ marking' = marking /\ lines'[d] = lines[d]
        /\ (d \in lossy => d \in lossy') /\ (writeError => writeError')
    BY DEF Held, Quiet
  <1>5. filed = Filed(d)'
    BY <1>4 DEF Filed
  <1>6. rec.got \subseteq Got(d) \cup taken /\ Queued(d) = Q \cup taken
    BY DEF Merges
  <1> HIDE DEF filed, marks
  <1>7. Placed(d)'
    BY <1>1, <1>2, <1>3, <1>4 DEF Placed
  <1>8. Marked(d)'
    BY <1>1, <1>3, <1>4 DEF Marked, Whole
  <1>9. CompleteIsSettled(d)'
    BY <1>1, <1>4 DEF CompleteIsSettled
  <1>10. Visible(d)'
    BY <1>1, <1>2, <1>3, <1>4, <1>5 DEF Visible, marks
  <1>11. Spent(d) => Spent(d)'
    BY <1>2, <1>3, <1>6 DEF Spent
  <1> QED BY <1>7, <1>8, <1>9, <1>10, <1>11 DEF CallOk, CallInv

LEMMA WrittenKeeps ==
  ASSUME NEW d \in Calls, SenderTypes, WriterTypes, CallOk(d), Quiet,
         NEW taken, NEW rec, Merges(d, taken, rec), Written(d, rec)
  PROVE  CallOk(d)' /\ ~Spent(d) /\ Spent(d)'
  <1> DEFINE Q == Queued(d)'  marks == IF d \in inconsistent' THEN Updates ELSE {}
             filed == Filed(d)
  <1>1. /\ Q \cup lost[d] \cup rec.got \subseteq SentBy(d)
        /\ Fields \cap Q \cap (lost[d] \cup rec.got) = {} /\ Fields \cap rec.got \cap lost[d] = {}
        /\ Input \notin Q /\ sent[d][0] > 0
        /\ Outcome \in rec.got => Q \subseteq Trailing
        /\ Input \in rec.got /\ d \notin lossy =>
                  \A i \in 1 .. sent[d][0] :
                     \/ OperationEvents[d][i] \in {Closed} \cup Q \cup rec.got
                     \/ i = sent[d][0] /\ <<d, 0>> \in marking
        /\ \A i \in 1 .. Len(lines[d]) : ~lines[d][i].complete
        /\ writeError \/ SentBy(d) \subseteq {Closed} \cup lost[d] \cup Q \cup rec.got \cup filed \cup marks
    BY MergedIs
  <1>2. SentBy(d)' = SentBy(d)
    BY SentSame DEF Quiet
  <1>3. Got(d)' = {} /\ ~IsPending(d)'
    BY GotIs DEF Written
  <1>4. lost' = lost /\ sent' = sent /\ (writeError => writeError')
    BY DEF Quiet
  <1>5. /\ rec \in PendingRecs
        /\ rec.got \subseteq Got(d) \cup taken /\ Queued(d) = Q \cup taken
    BY DEF Merges
  <1>6. Input \in rec.got /\ Outcome \in rec.got /\ Ready(rec)
    BY DEF Written, Ready, HasInput, Pend
  <1>7. PICK complete \in BOOLEAN : (complete => d \notin lossy) /\ Adds(d, Line(d, rec, complete))
    BY DEF Written
  <1> DEFINE x == Line(d, rec, complete)
  <1>8. x \in FileLines /\ x.complete = complete /\ x.got = rec.got
    BY <1>5 DEF FileLines, PendingRecs, Line
  <1> HIDE DEF x, filed, marks, Q
  <1>9. /\ \A i \in 1 .. Len(lines'[d]) :
               \/ i \in 1 .. Len(lines[d]) /\ lines'[d][i] = lines[d][i]
               \/ i = Len(lines[d]) + 1 /\ lines'[d][i] = x
        /\ writeError' \/ (x \in Range(lines'[d]) /\ Range(lines[d]) \subseteq Range(lines'[d]))
    BY <1>7, <1>8, AddsIs DEF x, WriterTypes
  <1>10. complete =>
           /\ rec.got = Recorded(d) \ {Closed} /\ Recorded(d) \ {Closed} \subseteq SentBy(d)
           /\ lost[d] \subseteq {Closed} /\ Q \subseteq {Closed}
    <2> SUFFICES ASSUME complete
                 PROVE  /\ rec.got = Recorded(d) \ {Closed} /\ Recorded(d) \ {Closed} \subseteq SentBy(d)
                        /\ lost[d] \subseteq {Closed} /\ Q \subseteq {Closed}
      OBVIOUS
    <2>1. Q \subseteq Trailing /\ Fields \cap Q \cap rec.got = {}
      BY <1>1, <1>6
    <2>2. \A i \in 1 .. sent[d][0] :
             \/ OperationEvents[d][i] \in {Closed} \cup Q \cup rec.got
             \/ i = sent[d][0] /\ <<d, 0>> \in marking
      BY <1>1, <1>6, <1>7
    <2> QED BY <1>1, <1>5, <1>6, <2>1, <2>2, ReadyIsWhole
  <1>11. Placed(d)'
    BY <1>1, <1>2, <1>3, <1>4 DEF Placed, Q
  <1>12. Marked(d)'
    BY <1>1, <1>3 DEF Marked, Whole, Q
  <1>13. CompleteIsSettled(d)'
    <2> SUFFICES ASSUME NEW i \in 1 .. Len(lines'[d]), lines'[d][i].complete
                 PROVE  /\ Settled(d)' /\ lines'[d][i].got = Recorded(d) \ {Closed}
                        /\ \A j \in 1 .. Len(lines'[d]) : lines'[d][j].complete => i = j
      BY DEF CompleteIsSettled, Recorded
    <2>1. \A j \in 1 .. Len(lines'[d]) : lines'[d][j].complete => j = Len(lines[d]) + 1 /\ lines'[d][j] = x
      BY <1>1, <1>9
    <2>2. complete /\ lines'[d][i].got = rec.got
      BY <1>8, <2>1
    <2>3. Settled(d)'
      BY <1>2, <1>3, <1>4, <1>10, <2>2 DEF Settled, Recorded, Q
    <2> QED BY <1>10, <2>1, <2>2, <2>3
  <1>14. Visible(d)'
    <2>1. CASE writeError'
      BY <2>1 DEF Visible
    <2>2. CASE ~writeError'
      <3>1. x \in Range(lines'[d]) /\ Range(lines[d]) \subseteq Range(lines'[d])
        BY <1>9, <2>2
      <3>2. rec.got \subseteq Filed(d)'
        BY <1>8, <3>1 DEF Filed
      <3>3. filed \subseteq Filed(d)'
        BY <3>1 DEF filed, Filed
      <3>4. SentBy(d) \subseteq {Closed} \cup lost[d] \cup Q \cup rec.got \cup filed \cup marks
        BY <1>1, <1>4, <2>2
      <3> QED BY <1>2, <1>3, <1>4, <3>2, <3>3, <3>4 DEF Visible, marks, Q
    <2> QED BY <2>1, <2>2
  <1>15. ~Spent(d) /\ Spent(d)'
    <2>1. Input \in Got(d) \cup Queued(d)
      BY <1>5, <1>6
    <2>2. Input \in SentBy(d)
      BY <1>1, <1>6
    <2> QED BY <1>1, <1>2, <1>3, <2>1, <2>2 DEF Spent, Q
  <1> QED BY <1>11, <1>12, <1>13, <1>14, <1>15 DEF CallOk, CallInv

-----------------------------------------------------------------------------
(* The inductive invariant *)

OrderInv ==
  /\ Cardinality(DOMAIN pending) <= PendingMax /\ Len(evicted) <= EvictedMax
  /\ Len(order) <= 2 * PendingMax + 1
  /\ writer # "ended" =>
        DOMAIN pending \subseteq Range(order) /\ Few(order, DOMAIN pending, SpentCalls)

RecorderInv ==
  /\ SenderTypes /\ WriterTypes /\ QueueInOrder /\ OrderInv
  /\ \A c \in Calls : CallOk(c)

LEMMA RecorderStarts == Init => RecorderInv
  <1> SUFFICES ASSUME Init PROVE RecorderInv
    OBVIOUS
  <1> USE DEF Init
  <1>0. Range(<<>>) = {} /\ DOMAIN <<>> = {} /\ Len(<<>>) = 0 /\ (\A i \in 1 .. 0 : FALSE)
    BY DEF Range
  <1>1. SenderTypes
    <2>1. sent \in [Calls -> [Senders -> Nat]] /\ lost \in [Calls -> SUBSET Events]
      OBVIOUS
    <2>2. \A c \in Calls, s \in Senders : sent[c][s] = 0
      OBVIOUS
    <2>3. \A c \in Calls, s \in Senders : Len(Script(c, s)) \in Nat
      BY ScriptIs, BodyIs DEF Script, Senders
    <2>4. \A c \in Calls, x \in Exchanges : sent[c][x] = 0
      BY <2>2 DEF Senders
    <2> QED BY <2>1, <2>2, <2>3, <2>4 DEF SenderTypes
  <1>2. WriterTypes
    <2>1. DOMAIN pending = {} /\ IsFiniteSet({}) /\ Range(evicted) = {}
      BY <1>0, FS_EmptySet
    <2>2. order \in Seq(Calls) /\ evicted \in Seq(Calls) /\ lines \in [Calls -> Seq(FileLines)]
      OBVIOUS
    <2>3. lossy = {} /\ inconsistent = {} /\ writeError \in BOOLEAN
      OBVIOUS
    <2> QED BY <2>1, <2>2, <2>3 DEF WriterTypes
  <1>3. QueueInOrder
    BY <1>0 DEF QueueInOrder, InOrder
  <1>4. OrderInv
    <2>1. Cardinality(DOMAIN pending) = 0 /\ Len(order) = 0 /\ Len(evicted) = 0
      BY <1>0, FS_EmptySet
    <2>2. PendingMax \in Nat /\ EvictedMax \in Nat
      BY RecordingAssumption
    <2>3. Few(order, DOMAIN pending, SpentCalls)
      BY <1>0 DEF Few
    <2> QED BY <1>0, <2>1, <2>2, <2>3 DEF OrderInv
  <1>5. ASSUME NEW c \in Calls PROVE CallOk(c)
    <2>1. \A s \in Senders : sent[c][s] = 0
      OBVIOUS
    <2>2. SentBy(c) = {}
      BY <1>0, <2>1 DEF SentBy
    <2>3. Queued(c) = {}
      BY <1>0 DEF Queued
    <2>4. Got(c) = {} /\ ~Known(c)
      BY <1>0 DEF Got, IsPending, Known
    <2>5. lost[c] = {} /\ lines[c] = <<>>
      OBVIOUS
    <2>6. Placed(c)
      BY <2>2, <2>3, <2>4, <2>5 DEF Placed
    <2>7. Marked(c)
      BY <2>3, <2>4 DEF Marked, Whole
    <2>8. CompleteIsSettled(c)
      BY <1>0, <2>5 DEF CompleteIsSettled
    <2>9. Visible(c)
      BY <2>2 DEF Visible
    <2> QED BY <2>6, <2>7, <2>8, <2>9 DEF CallOk, CallInv
  <1> QED BY <1>1, <1>2, <1>3, <1>4, <1>5 DEF RecorderInv

LEMMA SpentGrows ==
  ASSUME \A d \in Calls : Spent(d) => Spent(d)'
  PROVE  SpentCalls \subseteq SpentCalls'
  BY DEF SpentCalls

(* Nothing changes for the calls.                                          *)
LEMMA StillKeeps ==
  ASSUME RecorderInv, UNCHANGED <<sent, marking, lost, damaged, store, file>>,
         writer' # "ended" => writer # "ended", InOrder(queue'),
         \A d \in Calls : Queued(d)' = Queued(d)
  PROVE  RecorderInv'
  <1>1. /\ sent' = sent /\ marking' = marking /\ lost' = lost /\ lossy' = lossy
        /\ inconsistent' = inconsistent /\ pending' = pending /\ order' = order
        /\ evicted' = evicted /\ writeError' = writeError /\ lines' = lines
    BY DEF damaged, store, file
  <1>2. SenderTypes'
    BY <1>1 DEF RecorderInv, SenderTypes, Script, Began
  <1>3. WriterTypes'
    BY <1>1 DEF RecorderInv, WriterTypes
  <1>4. Quiet
    BY <1>1 DEF Quiet
  <1>5. ASSUME NEW d \in Calls PROVE CallOk(d)' /\ (Spent(d) => Spent(d)')
    <2>1. Same(d)
      BY <1>1 DEF Same
    <2>2. CallOk(d)
      BY DEF RecorderInv
    <2> QED BY <1>4, <2>1, <2>2, SameKeeps
  <1>6. OrderInv'
    <2>1. SpentCalls \subseteq SpentCalls'
      BY <1>5, SpentGrows
    <2>2. OrderInv
      BY DEF RecorderInv
    <2>3. ASSUME writer # "ended" PROVE Few(order, DOMAIN pending, SpentCalls')
      <3>1. Few(order, DOMAIN pending, SpentCalls)
        BY <2>2, <2>3 DEF OrderInv
      <3> QED BY <2>1, <3>1, FewShift
    <2> QED BY <1>1, <2>2, <2>3 DEF OrderInv
  <1> QED BY <1>2, <1>3, <1>5, <1>6 DEF RecorderInv, QueueInOrder

LEMMA QuietActions ==
  ASSUME RecorderInv, TryFlush \/ FlushTimeout \/ DropRecorder \/ UNCHANGED vars
  PROVE  RecorderInv'
  <1>0. InOrder(queue)
    BY DEF RecorderInv, QueueInOrder
  <1>1. CASE TryFlush
    <2>1. /\ UNCHANGED <<sent, marking, lost, damaged, store, file>> /\ writer' = writer
          /\ queue' = Append(queue, <<"flush">>)
      BY <1>1 DEF TryFlush, senders
    <2>2. <<"flush">> \in Items /\ \A e, c : <<"flush">> # <<e, c>>
      BY ItemIs DEF Items
    <2>3. InOrder(queue')
      BY <1>0, <2>1, <2>2, AppendInOrder
    <2>4. \A d \in Calls : Queued(d)' = Queued(d)
      <3>1. queue \in Seq(Items)
        BY <1>0 DEF InOrder
      <3>2. \A d, e : e \in QueuedOf(queue', d) <=> e \in QueuedOf(queue, d)
        BY <2>1, <2>2, <3>1, AppendQueue
      <3> QED BY <3>2 DEF Queued, QueuedOf
    <2> QED BY <2>1, <2>3, <2>4, StillKeeps
  <1>2. CASE FlushTimeout \/ DropRecorder \/ UNCHANGED vars
    <2>1. /\ UNCHANGED <<sent, marking, lost, damaged, store, file>> /\ queue' = queue
          /\ (writer' # "ended" => writer # "ended")
      BY <1>2 DEF FlushTimeout, DropRecorder, vars, senders, damaged, store, file
    <2>2. InOrder(queue') /\ \A d \in Calls : Queued(d)' = Queued(d)
      BY <1>0, <2>1 DEF Queued
    <2> QED BY <2>1, <2>2, StillKeeps
  <1> QED BY <1>1, <1>2

LEMMA MarkLossyKeeps ==
  ASSUME RecorderInv, NEW c \in Calls, NEW s \in Senders, MarkLossy(c, s)
  PROVE  RecorderInv'
  <1>1. /\ sent' = sent /\ lost' = lost /\ queue' = queue /\ writer' = writer
        /\ inconsistent' = inconsistent /\ pending' = pending /\ order' = order
        /\ evicted' = evicted /\ writeError' = writeError /\ lines' = lines
        /\ marking' = marking \ {<<c, s>>} /\ lossy' = lossy \cup {c}
    BY DEF MarkLossy, store, file
  <1>2. SenderTypes'
    BY <1>1 DEF RecorderInv, SenderTypes, Script, Began
  <1>3. WriterTypes'
    BY <1>1 DEF RecorderInv, WriterTypes
  <1>4. QueueInOrder'
    BY <1>1 DEF RecorderInv, QueueInOrder, InOrder
  <1>5. ASSUME NEW d \in Calls
        PROVE  SentBy(d)' = SentBy(d) /\ Queued(d)' = Queued(d) /\ Got(d)' = Got(d)
               /\ (Known(d)' <=> Known(d)) /\ Filed(d)' = Filed(d) /\ (IsPending(d)' <=> IsPending(d))
    BY <1>1, SentSame DEF Queued, Got, Known, Filed, IsPending
  <1>6. ASSUME NEW d \in Calls PROVE CallOk(d)' /\ (Spent(d)' <=> Spent(d))
    <2>0. CallOk(d)
      BY DEF RecorderInv
    <2>1. Placed(d)'
      BY <1>1, <1>5, <2>0 DEF CallOk, CallInv, Placed
    <2>2. Marked(d)'
      <3>1. CASE d = c
        BY <1>1, <3>1 DEF Marked
      <3>2. CASE d # c
        <4>1. (<<d, 0>> \in marking' <=> <<d, 0>> \in marking) /\ (d \in lossy' <=> d \in lossy)
          BY <1>1, <3>2
        <4> QED BY <1>1, <1>5, <2>0, <4>1 DEF CallOk, CallInv, Marked, Whole
      <3> QED BY <3>1, <3>2
    <2>3. CompleteIsSettled(d)'
      BY <1>1, <1>5, <2>0 DEF CallOk, CallInv, CompleteIsSettled, Settled, Recorded
    <2>4. Visible(d)'
      BY <1>1, <1>5, <2>0 DEF CallOk, Visible
    <2> QED BY <1>5, <2>1, <2>2, <2>3, <2>4 DEF CallOk, CallInv, Spent
  <1>7. OrderInv'
    <2>1. SpentCalls' = SpentCalls
      BY <1>6 DEF SpentCalls
    <2> QED BY <1>1, <2>1 DEF RecorderInv, OrderInv
  <1> QED BY <1>2, <1>3, <1>4, <1>6, <1>7 DEF RecorderInv

-----------------------------------------------------------------------------
(* The senders *)

LEMMA SentMore ==
  ASSUME SenderTypes, NEW c \in Calls, NEW s \in Senders, Began(c, s),
         sent[c][s] < Len(Script(c, s)), sent' = [sent EXCEPT ![c][s] = @ + 1]
  PROVE  LET e == Script(c, s)[sent[c][s] + 1]
         IN  /\ SentBy(c)' = SentBy(c) \cup {e}
             /\ \A d \in Calls : d # c => SentBy(d)' = SentBy(d) /\ sent'[d] = sent[d]
             /\ s = 0 => sent'[c][0] = sent[c][0] + 1 /\ e = OperationEvents[c][sent[c][0] + 1]
             /\ s # 0 => sent'[c][0] = sent[c][0]
             /\ sent' \in [Calls -> [Senders -> Nat]]
             /\ \A d \in Calls, t \in Senders : sent'[d][t] <= Len(Script(d, t)) /\ sent[d][t] <= sent'[d][t]
             /\ \A d \in Calls, x \in Exchanges : sent'[d][x] > 0 => Began(d, x)'
  <1> DEFINE k == sent[c][s]  e == Script(c, s)[k + 1]
  <1>0. /\ sent \in [Calls -> [Senders -> Nat]] /\ k \in Nat /\ 0 \in Senders
        /\ Exchanges \subseteq Senders
    BY DEF SenderTypes, Senders
  <1>1. /\ sent' \in [Calls -> [Senders -> Nat]]
        /\ \A d \in Calls, t \in Senders : sent'[d][t] = IF d = c /\ t = s THEN k + 1 ELSE sent[d][t]
        /\ \A d \in Calls : d # c => sent'[d] = sent[d]
    BY <1>0
  <1>2. \A f : f \in SentBy(c) <=> \E t \in Senders : \E i \in 1 .. sent[c][t] : Script(c, t)[i] = f
    BY DEF SentBy
  <1>3. \A f : f \in SentBy(c)' <=> \E t \in Senders : \E i \in 1 .. sent'[c][t] : Script(c, t)[i] = f
    BY DEF SentBy, Script
  <1>4. \A d \in Calls : d # c => SentBy(d)' = SentBy(d)
    BY <1>1 DEF SentBy, Script
  <1>5. \A d \in Calls, t \in Senders : sent'[d][t] <= Len(Script(d, t)) /\ sent[d][t] <= sent'[d][t]
    <2> TAKE d \in Calls, t \in Senders
    <2>1. sent[d][t] \in Nat /\ sent[d][t] <= Len(Script(d, t)) /\ Len(Script(d, t)) \in Nat
      BY ScriptIs, BodyIs DEF SenderTypes, Script, Senders
    <2>2. CASE d = c /\ t = s
      BY <1>1, <2>1, <2>2
    <2>3. CASE ~(d = c /\ t = s)
      BY <1>1, <2>1, <2>3
    <2> QED BY <2>2, <2>3
  <1>6. \A d \in Calls, x \in Exchanges : sent'[d][x] > 0 => Began(d, x)'
    <2> SUFFICES ASSUME NEW d \in Calls, NEW x \in Exchanges, sent'[d][x] > 0, x # 0
                 PROVE  \E i \in 1 .. sent'[d][0] : OperationEvents[d][i] = Skeleton(x)
      BY DEF Began
    <2>1. Began(d, x)
      <3>1. CASE d = c /\ s = x
        BY <3>1
      <3>2. CASE ~(d = c /\ s = x)
        BY <1>0, <1>1, <3>2 DEF SenderTypes
      <3> QED BY <3>1, <3>2
    <2>2. PICK i \in 1 .. sent[d][0] : OperationEvents[d][i] = Skeleton(x)
      BY <2>1 DEF Began
    <2>3. sent[d][0] <= sent'[d][0] /\ sent[d][0] \in Nat /\ sent'[d][0] \in Nat
      BY <1>0, <1>1, <1>5
    <2>4. i \in 1 .. sent'[d][0]
      BY <2>3
    <2> QED BY <2>2, <2>4
  <1>7. s = 0 => sent'[c][0] = sent[c][0] + 1 /\ e = OperationEvents[c][sent[c][0] + 1]
    BY <1>0, <1>1 DEF Script
  <1>8. s # 0 => sent'[c][0] = sent[c][0]
    BY <1>0, <1>1
  <1>9. SentBy(c)' = SentBy(c) \cup {e}
    <2>1. sent'[c][s] = k + 1 /\ \A t \in Senders : t # s => sent'[c][t] = sent[c][t]
      BY <1>1
    <2>2. k + 1 \in 1 .. k + 1 /\ (\A i \in 1 .. k + 1 : i \in 1 .. k \/ i = k + 1)
          /\ \A i \in 1 .. k : i \in 1 .. k + 1
      BY <1>0
    <2>3. ASSUME NEW f, NEW t \in Senders, NEW i \in 1 .. sent'[c][t], Script(c, t)[i] = f
          PROVE  f \in SentBy(c) \/ f = e
      <3>1. CASE t # s
        BY <1>2, <2>1, <2>3, <3>1
      <3>2. CASE t = s /\ i \in 1 .. k
        BY <1>2, <2>3, <3>2
      <3>3. CASE t = s /\ i = k + 1
        BY <2>3, <3>3
      <3> QED BY <2>1, <2>2, <2>3, <3>1, <3>2, <3>3
    <2>4. ASSUME NEW f, NEW t \in Senders, NEW i \in 1 .. sent[c][t], Script(c, t)[i] = f
          PROVE  f \in SentBy(c)'
      <3>1. i \in 1 .. sent'[c][t]
        BY <2>1, <2>2, <2>4
      <3> QED BY <1>3, <2>4, <3>1
    <2>5. e \in SentBy(c)'
      BY <1>3, <2>1, <2>2
    <2> HIDE DEF e, k
    <2>6. \A f : f \in SentBy(c)' => f \in SentBy(c) \/ f = e
      BY <1>3, <2>3
    <2>7. \A f : f \in SentBy(c) => f \in SentBy(c)'
      BY <1>2, <2>4
    <2> QED BY <2>5, <2>6, <2>7
  <1> QED BY <1>1, <1>4, <1>5, <1>6, <1>7, <1>8, <1>9

(* What the event sent makes of its call, queued or lost.                  *)
LEMMA SentKeeps ==
  ASSUME SenderTypes, NEW c \in Calls, NEW s \in Senders, CallOk(c), Send(c, s),
         LET e == Script(c, s)[sent[c][s] + 1]
         IN  \/ /\ Queued(c)' = Queued(c) \cup {e} /\ lost'[c] = lost[c] /\ marking' = marking
             \/ /\ Queued(c)' = Queued(c) /\ lost'[c] = lost[c] \cup {e}
                /\ marking' = marking \cup {<<c, s>>}
  PROVE  CallOk(c)' /\ (Spent(c) => Spent(c)')
  <1> DEFINE e == Script(c, s)[sent[c][s] + 1]  n == sent[c][0]  op == OperationEvents[c]
  <1>0. /\ Began(c, s) /\ sent[c][s] < Len(Script(c, s)) /\ <<c, s>> \notin marking
        /\ sent' = [sent EXCEPT ![c][s] = @ + 1]
        /\ lossy' = lossy /\ inconsistent' = inconsistent /\ pending' = pending /\ order' = order
        /\ evicted' = evicted /\ writeError' = writeError /\ lines' = lines
    BY DEF Send, damaged, store, file
  <1>1. /\ e \in Events /\ (e \in Fields => e \notin SentBy(c))
        /\ e = Input => SentBy(c) = {} /\ s = 0 /\ n = 0
        /\ Outcome \in SentBy(c) => e \in Trailing
    BY <1>0, NextEvent
  <1>2. e \in Recorded(c) \cup {Closed}
    BY <1>0, NextEvent
  <1>3. /\ SentBy(c)' = SentBy(c) \cup {e}
        /\ s = 0 => sent'[c][0] = n + 1 /\ e = op[n + 1]
        /\ s # 0 => sent'[c][0] = n
        /\ n \in Nat
    <2>1. n \in Nat
      BY DEF SenderTypes, Senders
    <2> QED BY <1>0, <2>1, SentMore
  <1> HIDE DEF e, n, op
  <1>4. \/ /\ Queued(c)' = Queued(c) \cup {e} /\ lost'[c] = lost[c] /\ marking' = marking
        \/ /\ Queued(c)' = Queued(c) /\ lost'[c] = lost[c] \cup {e}
           /\ marking' = marking \cup {<<c, s>>}
    BY DEF e
  <1>5. Got(c)' = Got(c) /\ (Known(c)' <=> Known(c)) /\ (IsPending(c)' <=> IsPending(c)) /\ Filed(c)' = Filed(c)
    BY <1>0 DEF Got, IsPending, Known, Filed
  <1>6. /\ Queued(c) \cup lost[c] \cup Got(c) \subseteq SentBy(c)
        /\ Fields \cap Queued(c) \cap (lost[c] \cup Got(c)) = {}
        /\ Fields \cap Got(c) \cap lost[c] = {}
        /\ Known(c) => Input \notin Queued(c) /\ n > 0
        /\ Outcome \in Got(c) => Queued(c) \subseteq Trailing
    BY DEF CallOk, CallInv, Placed, n
  <1>7. Placed(c)'
    <2>1. (Queued(c) \cup lost[c] \cup Got(c) \subseteq SentBy(c))'
      BY <1>3, <1>4, <1>5, <1>6
    <2>2. (Fields \cap Queued(c) \cap (lost[c] \cup Got(c)) = {})'
      BY <1>1, <1>4, <1>5, <1>6
    <2>3. (Fields \cap Got(c) \cap lost[c] = {})'
      BY <1>1, <1>4, <1>5, <1>6
    <2>4. (Known(c) => Input \notin Queued(c) /\ sent[c][0] > 0)'
      <3>1. n > 0 => sent'[c][0] > 0 /\ e # Input
        BY <1>1, <1>3
      <3> QED BY <1>4, <1>5, <1>6, <3>1
    <2>5. (Outcome \in Got(c) => Queued(c) \subseteq Trailing)'
      BY <1>1, <1>4, <1>5, <1>6
    <2> QED BY <2>1, <2>2, <2>3, <2>4, <2>5 DEF Placed
  <1>8. Marked(c)'
    <2> SUFFICES ASSUME Whole(c)', c \notin lossy, NEW i \in 1 .. sent'[c][0]
                 PROVE  \/ op[i] \in {Closed} \cup Queued(c)' \cup Got(c)'
                        \/ i = sent'[c][0] /\ <<c, 0>> \in marking'
      BY <1>0 DEF Marked, op
    <2>1. Whole(c) \/ n = 0
      BY <1>1, <1>4, <1>5 DEF Whole
    <2>2. ASSUME i \in 1 .. n
          PROVE  \/ op[i] \in {Closed} \cup Queued(c) \cup Got(c)
                 \/ i = n /\ <<c, 0>> \in marking
      <3>1. Whole(c)
        BY <1>3, <2>1, <2>2
      <3> QED BY <2>2, <3>1 DEF CallOk, CallInv, Marked, n, op
    <2>3. CASE s = 0
      <3>1. i \in 1 .. n \/ i = n + 1
        BY <1>3, <2>3
      <3>2. CASE i \in 1 .. n
        BY <1>0, <1>4, <1>5, <2>2, <2>3, <3>2
      <3>3. CASE i = n + 1
        BY <1>3, <1>4, <2>3, <3>3
      <3> QED BY <3>1, <3>2, <3>3
    <2>4. CASE s # 0
      BY <1>3, <1>4, <1>5, <2>2, <2>4
    <2> QED BY <1>3, <2>3, <2>4
  <1>9. CompleteIsSettled(c)'
    <2> SUFFICES ASSUME NEW i \in 1 .. Len(lines[c]), lines[c][i].complete
                 PROVE  /\ Settled(c)' /\ lines[c][i].got = Recorded(c) \ {Closed}
                        /\ \A j \in 1 .. Len(lines[c]) : lines[c][j].complete => i = j
      BY <1>0 DEF CompleteIsSettled, Recorded
    <2>1. /\ Settled(c) /\ lines[c][i].got = Recorded(c) \ {Closed}
          /\ \A j \in 1 .. Len(lines[c]) : lines[c][j].complete => i = j
      BY DEF CallOk, CallInv, CompleteIsSettled
    <2>2. e = Closed
      BY <1>1, <1>2, <2>1 DEF Settled, Events
    <2>3. Settled(c)'
      BY <1>3, <1>4, <1>5, <2>1, <2>2 DEF Settled, Recorded
    <2> QED BY <2>1, <2>3
  <1>10. Visible(c)'
    BY <1>0, <1>3, <1>4, <1>5 DEF Visible, CallOk
  <1>11. Spent(c) => Spent(c)'
    BY <1>1, <1>3, <1>4, <1>5 DEF Spent
  <1> QED BY <1>7, <1>8, <1>9, <1>10, <1>11 DEF CallOk, CallInv

(* The call of no event that was sent.                                     *)
LEMMA OthersKeep ==
  ASSUME NEW c \in Calls, NEW s \in Senders, NEW d \in Calls, d # c, SenderTypes, CallOk(d), Send(c, s),
         Queued(d)' = Queued(d)
  PROVE  CallOk(d)' /\ (Spent(d) => Spent(d)')
  <1>1. /\ lossy' = lossy /\ inconsistent' = inconsistent /\ pending' = pending
        /\ evicted' = evicted /\ writeError' = writeError /\ lines' = lines
        /\ lost'[d] = lost[d] /\ (<<d, 0>> \in marking' <=> <<d, 0>> \in marking)
    BY DEF Send, damaged, store, file, SenderTypes
  <1>2. SentBy(d)' = SentBy(d) /\ sent'[d] = sent[d]
    BY SentMore DEF Send
  <1>3. Got(d)' = Got(d) /\ (Known(d)' <=> Known(d)) /\ (IsPending(d)' <=> IsPending(d)) /\ Filed(d)' = Filed(d)
    BY <1>1 DEF Got, IsPending, Known, Filed
  <1>4. Placed(d)'
    BY <1>1, <1>2, <1>3 DEF CallOk, CallInv, Placed
  <1>5. Marked(d)'
    BY <1>1, <1>2, <1>3 DEF CallOk, CallInv, Marked, Whole
  <1>6. CompleteIsSettled(d)'
    BY <1>1, <1>2, <1>3 DEF CallOk, CallInv, CompleteIsSettled, Settled, Recorded
  <1>7. Visible(d)' /\ (Spent(d) => Spent(d)')
    BY <1>1, <1>2, <1>3 DEF CallOk, Visible, Spent
  <1> QED BY <1>4, <1>5, <1>6, <1>7 DEF CallOk, CallInv

LEMMA SendKeeps ==
  ASSUME RecorderInv, NEW c \in Calls, NEW s \in Senders, Send(c, s)
  PROVE  RecorderInv'
  <1> DEFINE e == Script(c, s)[sent[c][s] + 1]
  <1>0. /\ Began(c, s) /\ sent[c][s] < Len(Script(c, s))
        /\ sent' = [sent EXCEPT ![c][s] = @ + 1]
        /\ lossy' = lossy /\ inconsistent' = inconsistent /\ pending' = pending /\ order' = order
        /\ evicted' = evicted /\ writeError' = writeError /\ lines' = lines /\ writer' = writer
        /\ \/ queue' = Append(queue, <<e, c>>) /\ lost' = lost /\ marking' = marking
           \/ queue' = queue /\ lost' = [lost EXCEPT ![c] = @ \cup {e}] /\ marking' = marking \cup {<<c, s>>}
    BY DEF Send, damaged, store, file
  <1>1. SenderTypes /\ WriterTypes /\ InOrder(queue) /\ OrderInv /\ \A d \in Calls : CallOk(d)
    BY DEF RecorderInv, QueueInOrder
  <1>2. /\ e \in Events /\ (e \in Fields => e \notin SentBy(c))
        /\ e = Input => SentBy(c) = {}
        /\ Outcome \in SentBy(c) => e \in Trailing
    BY <1>0, <1>1, NextEvent
  <1>3. SenderTypes'
    <2>1. /\ sent' \in [Calls -> [Senders -> Nat]]
          /\ \A d \in Calls, t \in Senders : sent'[d][t] <= Len(Script(d, t))
          /\ \A d \in Calls, x \in Exchanges : sent'[d][x] > 0 => Began(d, x)'
      BY <1>0, <1>1, SentMore
    <2>2. lost \in [Calls -> SUBSET Events]
      BY <1>1 DEF SenderTypes
    <2> HIDE DEF e
    <2>3. lost' \in [Calls -> SUBSET Events]
      BY <1>0, <1>2, <2>2
    <2> QED BY <2>1, <2>3 DEF SenderTypes, Script
  <1> HIDE DEF e
  <1>4. WriterTypes'
    BY <1>0, <1>1 DEF WriterTypes
  <1>5. \A d : Queued(d) = QueuedOf(queue, d) /\ Queued(d)' = QueuedOf(queue', d)
    BY DEF Queued, QueuedOf
  <1>6. InOrder(queue') /\ Queued(c)' = (IF queue' = queue THEN Queued(c) ELSE Queued(c) \cup {e})
        /\ \A d \in Calls : d # c => Queued(d)' = Queued(d)
    <2>1. CASE queue' = queue
      BY <1>1, <1>5, <2>1
    <2>2. CASE queue' = Append(queue, <<e, c>>)
      <3>0. queue \in Seq(Items)
        BY <1>1 DEF InOrder
      <3>1. <<e, c>> \in Items
        BY <1>2 DEF Items
      <3>2. \A d, f : f \in QueuedOf(queue', d) <=> f \in QueuedOf(queue, d) \/ <<e, c>> = <<f, d>>
        BY <2>2, <3>0, <3>1, AppendQueue
      <3>3. \A d, f : <<e, c>> = <<f, d>> <=> f = e /\ d = c
        BY ItemIs
      <3>4. Queued(c)' = Queued(c) \cup {e} /\ \A d \in Calls : d # c => Queued(d)' = Queued(d)
        BY <1>5, <3>2, <3>3
      <3>5. Queued(c) \subseteq SentBy(c)
        BY <1>1 DEF CallOk, CallInv, Placed
      <3>6. \A d \in Calls, f \in Events : <<e, c>> = <<f, d>> =>
                /\ f \in Fields => f \notin QueuedOf(queue, d)
                /\ f = Input => QueuedOf(queue, d) = {}
                /\ Outcome \in QueuedOf(queue, d) => f \in Trailing
        BY <1>2, <1>5, <3>3, <3>5
      <3>7. InOrder(queue')
        BY <1>1, <2>2, <3>1, <3>6, AppendInOrder
      <3>8. queue' # queue
        <4>1. Len(queue) \in Nat /\ Len(queue') = Len(queue) + 1
          BY <2>2, <3>0
        <4> QED BY <4>1
      <3> QED BY <3>4, <3>7, <3>8
    <2> QED BY <1>0, <2>1, <2>2
  <1>7. CallOk(c)' /\ (Spent(c) => Spent(c)')
    <2>1. lost' = [lost EXCEPT ![c] = @ \cup {e}] => lost'[c] = lost[c] \cup {e}
      BY <1>1 DEF SenderTypes
    <2>2. queue' = Append(queue, <<e, c>>) => queue' # queue
      <3>1. queue \in Seq(Items) /\ <<e, c>> \in Items
        BY <1>1, <1>2 DEF InOrder, Items
      <3>2. Len(queue) \in Nat /\ Len(Append(queue, <<e, c>>)) = Len(queue) + 1
        BY <3>1
      <3> QED BY <3>2
    <2>3. \/ Queued(c)' = Queued(c) \cup {e} /\ lost'[c] = lost[c] /\ marking' = marking
          \/ Queued(c)' = Queued(c) /\ lost'[c] = lost[c] \cup {e} /\ marking' = marking \cup {<<c, s>>}
      BY <1>0, <1>6, <2>1, <2>2
    <2> QED BY <1>1, <2>3, SentKeeps DEF e
  <1>8. \A d \in Calls : CallOk(d)' /\ (Spent(d) => Spent(d)')
    <2> TAKE d \in Calls
    <2>1. CASE d = c
      BY <1>7, <2>1
    <2>2. CASE d # c
      BY <1>1, <1>6, <2>2, OthersKeep
    <2> QED BY <2>1, <2>2
  <1>9. OrderInv'
    <2>1. SpentCalls \subseteq SpentCalls'
      BY <1>8, SpentGrows
    <2>2. ASSUME writer # "ended" PROVE Few(order, DOMAIN pending, SpentCalls')
      <3>1. Few(order, DOMAIN pending, SpentCalls)
        BY <1>1, <2>2 DEF OrderInv
      <3> QED BY <2>1, <3>1, FewShift
    <2> QED BY <1>0, <1>1, <2>2 DEF OrderInv
  <1> QED BY <1>3, <1>4, <1>6, <1>8, <1>9 DEF RecorderInv, QueueInOrder

-----------------------------------------------------------------------------
(* The writer's events *)

LEMMA HeadIs ==
  ASSUME QueueInOrder, queue # <<>>, Len(Head(queue)) = 2
  PROVE  \E e \in Events, c \in Calls : Head(queue) = <<e, c>>
  <1>1. Head(queue) \in Items
    BY TailQueue DEF QueueInOrder
  <1>2. Head(queue) # <<"flush">>
    BY ItemIs
  <1> QED BY <1>1, <1>2 DEF Items

LEMMA HeadTaken ==
  ASSUME QueueInOrder, queue # <<>>, queue' = Tail(queue),
         NEW e \in Events, NEW c \in Calls, Head(queue) = <<e, c>>
  PROVE  /\ QueueInOrder' /\ Queued(c) = Queued(c)' \cup {e}
         /\ e \in Fields => e \notin Queued(c)'
         /\ Input \notin Queued(c)'
         /\ e = Outcome => Queued(c)' \subseteq Trailing
         /\ \A d \in Calls : d # c => Queued(d)' = Queued(d)
  <1>1. /\ InOrder(Tail(queue))
        /\ \A d \in Calls : \A f : f \in QueuedOf(queue, d) <=>
               f \in QueuedOf(Tail(queue), d) \/ <<e, c>> = <<f, d>>
        /\ e \in Fields => e \notin QueuedOf(Tail(queue), c)
        /\ Input \notin QueuedOf(Tail(queue), c)
        /\ e = Outcome => QueuedOf(Tail(queue), c) \subseteq Trailing
    BY TailQueue DEF QueueInOrder
  <1>2. \A d : Queued(d) = QueuedOf(queue, d) /\ Queued(d)' = QueuedOf(Tail(queue), d)
    BY DEF Queued, QueuedOf
  <1>3. \A f, d : <<e, c>> = <<f, d>> <=> f = e /\ d = c
    BY ItemIs
  <1>4. Queued(c) = Queued(c)' \cup {e} /\ \A d \in Calls : d # c => Queued(d)' = Queued(d)
    BY <1>1, <1>2, <1>3
  <1> QED BY <1>1, <1>2, <1>4 DEF QueueInOrder

LEMMA FlushTaken ==
  ASSUME QueueInOrder, queue # <<>>, Head(queue) = <<"flush">>, queue' = Tail(queue)
  PROVE  QueueInOrder' /\ \A d \in Calls : Queued(d)' = Queued(d)
  <1>1. /\ InOrder(Tail(queue))
        /\ \A d \in Calls : \A f : f \in QueuedOf(queue, d) <=>
               f \in QueuedOf(Tail(queue), d) \/ Head(queue) = <<f, d>>
    BY TailQueue DEF QueueInOrder
  <1>2. \A f, d : <<"flush">> # <<f, d>>
    BY ItemIs
  <1>3. \A d : Queued(d) = QueuedOf(queue, d) /\ Queued(d)' = QueuedOf(Tail(queue), d)
    BY DEF Queued, QueuedOf
  <1> QED BY <1>1, <1>2, <1>3 DEF QueueInOrder

LEMMA ApplyIs ==
  ASSUME NEW rec \in PendingRecs, NEW e \in Events
  PROVE  LET after == Apply(rec, e)
         IN  /\ after \in PendingRecs
             /\ rec.got \subseteq after.got /\ after.got \subseteq rec.got \cup {e}
             /\ {e} \ after.got \subseteq {Closed} \cup (IF Unmatched(rec, e) THEN Updates ELSE {})
  <1> DEFINE after == Apply(rec, e)
             stray == \E x \in Exchanges : e = Update(x) /\ ~HasExchange(rec, x)
  <1>0. rec.got \in SUBSET Fields /\ rec.closed \in BOOLEAN
        /\ rec = [got |-> rec.got, closed |-> rec.closed]
    BY DEF PendingRecs
  <1>1. stray => e # Closed
    BY EventsApart, BodyIs
  <1>2. CASE e = Closed
    <2>1. ~stray
      BY <1>1, <1>2
    <2>2. after = [got |-> rec.got, closed |-> TRUE]
      BY <1>0, <1>2, <2>1 DEF Apply
    <2> HIDE DEF after
    <2>3. after \in PendingRecs /\ after.got = rec.got
      BY <1>0, <2>2 DEF PendingRecs
    <2> QED BY <1>2, <2>3 DEF after
  <1>3. CASE stray
    <2>1. after = rec
      BY <1>1, <1>3 DEF Apply
    <2>2. Unmatched(rec, e)
      BY <1>3 DEF Unmatched
    <2>3. e \in Updates
      BY <1>3, BodyIs
    <2> HIDE DEF after
    <2> QED BY <2>1, <2>2, <2>3 DEF after
  <1>4. CASE e # Closed /\ ~stray
    <2>1. after = [got |-> rec.got \cup {e}, closed |-> rec.closed]
      BY <1>0, <1>4 DEF Apply
    <2>2. e \in Fields
      BY <1>4 DEF Events
    <2> HIDE DEF after
    <2>3. after \in PendingRecs /\ after.got = rec.got \cup {e}
      BY <1>0, <2>1, <2>2 DEF PendingRecs
    <2> QED BY <2>3 DEF after
  <1> QED BY <1>2, <1>3, <1>4

(* An event of a call that was evicted.                                    *)
LEMMA LateKeeps ==
  ASSUME RecorderInv, WriteEvent, NEW e \in Events, NEW c \in Calls, Head(queue) = <<e, c>>,
         Late(c), lossy' = lossy \cup {c}, lost' = [lost EXCEPT ![c] = @ \cup {e}],
         UNCHANGED <<inconsistent, store, file>>
  PROVE  RecorderInv'
  <1>0. /\ queue # <<>> /\ queue' = Tail(queue)
        /\ sent' = sent /\ marking' = marking /\ writer' = writer
    BY DEF WriteEvent
  <1>1. SenderTypes /\ WriterTypes /\ QueueInOrder /\ OrderInv /\ \A d \in Calls : CallOk(d)
    BY DEF RecorderInv
  <1>2. /\ QueueInOrder' /\ Queued(c) = Queued(c)' \cup {e}
        /\ e \in Fields => e \notin Queued(c)'
        /\ \A d \in Calls : d # c => Queued(d)' = Queued(d)
    BY <1>0, <1>1, HeadTaken
  <1>3. /\ Late(c) /\ lossy' = lossy \cup {c} /\ lost' = [lost EXCEPT ![c] = @ \cup {e}]
        /\ inconsistent' = inconsistent /\ pending' = pending /\ order' = order
        /\ evicted' = evicted /\ writeError' = writeError /\ lines' = lines
    BY DEF store, file
  <1>4. lost \in [Calls -> SUBSET Events]
    BY <1>1 DEF SenderTypes
  <1>5. /\ lost' \in [Calls -> SUBSET Events] /\ lost'[c] = lost[c] \cup {e}
        /\ \A d \in Calls : d # c => lost'[d] = lost[d]
    BY <1>2, <1>3, <1>4
  <1>6. SenderTypes'
    BY <1>0, <1>1, <1>5 DEF SenderTypes, Script, Began
  <1>7. WriterTypes'
    BY <1>1, <1>2, <1>3 DEF WriterTypes
  <1>8. ASSUME NEW d \in Calls
        PROVE  SentBy(d)' = SentBy(d) /\ Got(d)' = Got(d) /\ (IsPending(d)' <=> IsPending(d))
               /\ (Known(d)' <=> Known(d)) /\ Filed(d)' = Filed(d)
    BY <1>0, <1>3, SentSame DEF Got, IsPending, Known, Filed
  <1>9. ~IsPending(c) /\ Got(c) = {} /\ Known(c)
    BY <1>3 DEF Late, Got, Known
  <1>10. CallOk(c)' /\ (Spent(c) => Spent(c)')
    <2>0. CallOk(c)
      BY <1>1, <1>2
    <2>1. Placed(c)'
      BY <1>0, <1>2, <1>5, <1>8, <1>9, <2>0 DEF CallOk, CallInv, Placed
    <2>2. Marked(c)'
      BY <1>3 DEF Marked
    <2>3. CompleteIsSettled(c)'
      BY <1>2, <1>3, <1>5, <1>8, <2>0 DEF CallOk, CallInv, CompleteIsSettled, Settled, Recorded
    <2>4. Visible(c)' /\ (Spent(c) => Spent(c)')
      BY <1>2, <1>3, <1>5, <1>8, <2>0 DEF CallOk, Visible, Spent
    <2> QED BY <2>1, <2>2, <2>3, <2>4 DEF CallOk, CallInv
  <1>11. ASSUME NEW d \in Calls, d # c PROVE CallOk(d)' /\ (Spent(d) => Spent(d)')
    <2>0. CallOk(d) /\ Queued(d)' = Queued(d) /\ lost'[d] = lost[d]
      BY <1>1, <1>2, <1>5, <1>11
    <2>1. Placed(d)'
      BY <1>0, <1>8, <2>0 DEF CallOk, CallInv, Placed
    <2>2. Marked(d)'
      BY <1>0, <1>3, <1>8, <2>0 DEF CallOk, CallInv, Marked, Whole
    <2>3. CompleteIsSettled(d)'
      BY <1>3, <1>8, <2>0 DEF CallOk, CallInv, CompleteIsSettled, Settled, Recorded
    <2>4. Visible(d)' /\ (Spent(d) => Spent(d)')
      BY <1>3, <1>8, <2>0 DEF CallOk, Visible, Spent
    <2> QED BY <2>1, <2>2, <2>3, <2>4 DEF CallOk, CallInv
  <1>12. \A d \in Calls : CallOk(d)' /\ (Spent(d) => Spent(d)')
    BY <1>10, <1>11
  <1>13. OrderInv'
    <2>1. SpentCalls \subseteq SpentCalls'
      BY <1>12, SpentGrows
    <2>2. ASSUME writer # "ended" PROVE Few(order, DOMAIN pending, SpentCalls')
      <3>1. Few(order, DOMAIN pending, SpentCalls)
        BY <1>1, <2>2 DEF OrderInv
      <3> QED BY <2>1, <3>1, FewShift
    <2> QED BY <1>0, <1>1, <1>3, <2>2 DEF OrderInv
  <1> QED BY <1>2, <1>6, <1>7, <1>12, <1>13 DEF RecorderInv

(* "closed" of a call that is gone.                                       *)
LEMMA ClosedKeeps ==
  ASSUME RecorderInv, WriteEvent, NEW c \in Calls, Head(queue) = <<Closed, c>>,
         UNCHANGED <<damaged, store, file, lost>>
  PROVE  RecorderInv'
  <1>0. /\ queue # <<>> /\ queue' = Tail(queue)
        /\ sent' = sent /\ marking' = marking /\ writer' = writer
        /\ lossy' = lossy /\ inconsistent' = inconsistent /\ pending' = pending /\ order' = order
        /\ evicted' = evicted /\ writeError' = writeError /\ lines' = lines /\ lost' = lost
    BY DEF WriteEvent, damaged, store, file
  <1>1. SenderTypes /\ WriterTypes /\ QueueInOrder /\ OrderInv /\ \A d \in Calls : CallOk(d)
    BY DEF RecorderInv
  <1>2. /\ QueueInOrder' /\ Queued(c) = Queued(c)' \cup {Closed}
        /\ \A d \in Calls : d # c => Queued(d)' = Queued(d)
    <2>1. Closed \in Events
      BY DEF Events
    <2> QED BY <1>0, <1>1, <2>1, HeadTaken
  <1>3. SenderTypes' /\ WriterTypes' /\ Quiet
    BY <1>0, <1>1 DEF SenderTypes, Script, Began, WriterTypes, Quiet
  <1>4. \A d \in Calls : CallOk(d)' /\ (Spent(d) => Spent(d)')
    <2> TAKE d \in Calls
    <2>1. Same(d)
      BY <1>0, <1>2 DEF Same
    <2> QED BY <1>1, <1>3, <2>1, SameKeeps
  <1>5. OrderInv'
    <2>1. SpentCalls \subseteq SpentCalls'
      BY <1>4, SpentGrows
    <2>2. ASSUME writer # "ended" PROVE Few(order, DOMAIN pending, SpentCalls')
      <3>1. Few(order, DOMAIN pending, SpentCalls)
        BY <1>1, <2>2 DEF OrderInv
      <3> QED BY <2>1, <3>1, FewShift
    <2> QED BY <1>0, <1>1, <2>2 DEF OrderInv
  <1> QED BY <1>2, <1>3, <1>4, <1>5 DEF RecorderInv

(* The lines of the calls that a step drops and of the one it writes.      *)
LEMMA MergeLines ==
  ASSUME WriterTypes, NEW c \in Calls, NEW gone \in SUBSET (DOMAIN pending \ {c}), NEW extra \in SUBSET FileLines,
         \A x \in extra : x.call = c, \A x, y \in extra : x = y,
         NEW dropped, dropped = {Line(d, pending[d], FALSE) : d \in gone}, WriteLines(dropped \cup extra)
  PROVE  /\ lines' \in [Calls -> Seq(FileLines)] /\ writeError' \in BOOLEAN /\ (writeError => writeError')
         /\ \A d \in gone : Adds(d, Line(d, pending[d], FALSE))
         /\ \A d \in Calls : d \notin gone /\ d # c => lines'[d] = lines[d]
         /\ \A x \in extra : Adds(c, x)
         /\ extra = {} => lines'[c] = lines[c]
  <1> DEFINE new == dropped \cup extra
  <1>0. lines \in [Calls -> Seq(FileLines)] /\ writeError \in BOOLEAN /\ DOMAIN pending \subseteq Calls
        /\ \A d \in DOMAIN pending : pending[d] \in PendingRecs
    BY DEF WriterTypes
  <1>1. \A d \in gone : Line(d, pending[d], FALSE) \in FileLines /\ Line(d, pending[d], FALSE).call = d
    BY <1>0 DEF Line, FileLines, PendingRecs
  <1>2. \A x \in dropped : \E d \in gone : x = Line(d, pending[d], FALSE)
    OBVIOUS
  <1>3. \A x \in dropped : x.call \in gone
    <2> TAKE x \in dropped
    <2>1. PICK d \in gone : x = Line(d, pending[d], FALSE)
      BY <1>2
    <2> QED BY <1>1, <2>1
  <1>4. \A x, y \in dropped : x.call = y.call => x = y
    <2> SUFFICES ASSUME NEW x \in dropped, NEW y \in dropped, x.call = y.call PROVE x = y
      OBVIOUS
    <2>1. PICK d \in gone : x = Line(d, pending[d], FALSE)
      BY <1>2
    <2>2. PICK f \in gone : y = Line(f, pending[f], FALSE)
      BY <1>2
    <2>3. d = f
      BY <1>1, <2>1, <2>2
    <2> QED BY <2>1, <2>2, <2>3
  <1>5. \A d \in gone : Line(d, pending[d], FALSE) \in dropped
    OBVIOUS
  <1>6. new \in SUBSET FileLines
    BY <1>1, <1>2
  <1>7. c \notin gone
    OBVIOUS
  <1>8. \A x, y \in new : x.call = y.call => x = y
    BY <1>3, <1>4, <1>7
  <1>9. WriteLines(new)
    OBVIOUS
  <1> HIDE DEF new
  <1>10. /\ lines' \in [Calls -> Seq(FileLines)] /\ writeError' \in BOOLEAN
         /\ writeError => writeError'
         /\ \A d \in Calls : (\A x \in new : x.call # d) => lines'[d] = lines[d]
         /\ \A x \in new : x.call \in Calls => Adds(x.call, x)
    BY <1>0, <1>6, <1>8, <1>9, WriteLinesIs
  <1>11. \A d \in gone : Adds(d, Line(d, pending[d], FALSE))
    <2> TAKE d \in gone
    <2> DEFINE x == Line(d, pending[d], FALSE)
    <2>1. x \in new /\ x.call = d /\ d \in Calls
      BY <1>0, <1>1, <1>5 DEF new
    <2> HIDE DEF x
    <2>2. Adds(x.call, x)
      BY <1>10, <2>1
    <2>3. Adds(d, x)
      BY <2>1, <2>2
    <2> QED BY <2>3 DEF x
  <1>12. \A d \in Calls : d \notin gone /\ d # c => lines'[d] = lines[d]
    <2> SUFFICES ASSUME NEW d \in Calls, d \notin gone, d # c PROVE lines'[d] = lines[d]
      OBVIOUS
    <2>1. \A x \in dropped \cup extra : x.call # d
      BY <1>3
    <2> QED BY <1>10, <2>1 DEF new
  <1>13. \A x \in extra : Adds(c, x)
    <2> TAKE x \in extra
    <2>1. x \in new /\ x.call = c
      BY DEF new
    <2>2. Adds(x.call, x)
      BY <1>10, <2>1
    <2> QED BY <2>1, <2>2
  <1>14. extra = {} => lines'[c] = lines[c]
    <2> SUFFICES ASSUME extra = {} PROVE lines'[c] = lines[c]
      OBVIOUS
    <2>1. \A x \in dropped \cup extra : x.call # c
      BY <1>3, <1>7
    <2> QED BY <1>10, <2>1 DEF new
  <1> QED BY <1>10, <1>11, <1>12, <1>13, <1>14

(* An event merged into the record of its call, which is held or written.  *)
LEMMA MergeKeeps ==
  ASSUME RecorderInv, NEW c \in Calls, NEW entry, NEW gone, NEW rec, NEW taken,
         EntryOf(entry, c, gone), Merges(c, taken, rec), ~Late(c),
         writer # "ended", writer' = writer, QueueInOrder',
         \A d \in Calls : d # c => Queued(d)' = Queued(d),
         sent' = sent, marking' = marking, lost' = lost, evicted' = entry.evicted,
         inconsistent \subseteq inconsistent', inconsistent' \subseteq Calls,
         Hold(c, entry, rec) \/ (Ready(rec) /\ TryFinalize(c, entry, rec))
  PROVE  RecorderInv'
  <1> DEFINE P == DOMAIN pending
             dropped == {Line(d, pending[d], FALSE) : d \in gone}
  <1>1. SenderTypes /\ WriterTypes /\ OrderInv /\ \A d \in Calls : CallOk(d)
    BY DEF RecorderInv
  <1>2. /\ gone \subseteq P \ {c} /\ DOMAIN entry.pending = (P \ gone) \cup {c}
        /\ \A d \in P \ gone : entry.pending[d] = pending[d]
        /\ entry.lines = dropped
        /\ entry.order \in Seq(Calls) /\ DOMAIN entry.pending \subseteq Range(entry.order)
        /\ entry.evicted \in Seq(Calls) /\ Range(entry.evicted) \subseteq Range(evicted) \cup gone
        /\ lossy \ entry.lossy \subseteq Range(evicted) /\ entry.lossy \subseteq lossy \cup gone
        /\ IsFiniteSet(DOMAIN entry.pending)
    BY DEF EntryOf
  <1>3. /\ P \subseteq Calls /\ P \cap Range(evicted) = {} /\ lossy \subseteq Calls
        /\ \A d \in P : pending[d] \in PendingRecs
        /\ PendingMax \in Nat
    BY <1>1, RecordingAssumption DEF WriterTypes
  <1>4. Few(order, P, SpentCalls) /\ Cardinality(P) <= PendingMax /\ Len(evicted) <= EvictedMax
        /\ Len(order) <= 2 * PendingMax + 1
    BY <1>1 DEF OrderInv
  <1>5. /\ Few(entry.order, DOMAIN entry.pending, SpentCalls) /\ Len(entry.order) <= 2 * PendingMax + 1
        /\ Len(entry.evicted) <= EvictedMax /\ Cardinality(DOMAIN entry.pending) <= PendingMax
    BY <1>4 DEF EntryOf
  <1>6. c \notin Range(evicted) /\ c \notin gone
    BY <1>2, <1>3 DEF Late, IsPending
  <1>7. c \in lossy <=> c \in entry.lossy
    BY <1>2, <1>6
  <1>8. rec \in PendingRecs
    BY DEF Merges
  <1>9. SenderTypes'
    BY <1>1 DEF SenderTypes, Script, Began
  (* Calls other than the event's. *)
  <1>10. ASSUME Quiet, NEW d \in Calls, d # c, lossy \ lossy' \subseteq Range(evicted) \cup {c},
                d \in DOMAIN pending' <=> d \in P \ gone, d \in P \ gone => pending'[d] = pending[d],
                d \in gone => Adds(d, Line(d, pending[d], FALSE)), d \notin gone => lines'[d] = lines[d]
         PROVE  CallOk(d)' /\ (Spent(d) => Spent(d)')
    <2>1. CASE d \in gone
      <3>1. Goes(d)
        BY <1>2, <1>10, <2>1 DEF Goes, IsPending
      <3> QED BY <1>1, <1>10, <3>1, GoesKeeps
    <2>2. CASE d \notin gone
      <3>1. d \in lossy => d \in lossy' \/ d \in Range(evicted) \ P
        BY <1>3, <1>10
      <3>2. Same(d)
        BY <1>10, <2>2, <3>1 DEF Same
      <3> QED BY <1>1, <1>10, <3>2, SameKeeps
    <2> QED BY <2>1, <2>2
  <1>11. ASSUME writeError => writeError' PROVE Quiet
    BY <1>2, <1>11 DEF Quiet
  <1>12. CASE Hold(c, entry, rec)
    <2>1. /\ pending' = [entry.pending EXCEPT ![c] = rec] /\ order' = entry.order
          /\ lossy' = entry.lossy /\ WriteLines(entry.lines)
      BY <1>12 DEF Hold
    <2>2. WriteLines(dropped \cup {})
      BY <1>2, <2>1
    <2>3. /\ gone \in SUBSET (P \ {c}) /\ {} \in SUBSET FileLines /\ (\A x \in {} : x.call = c)
          /\ (\A x, y \in {} : x = y) /\ dropped = {Line(d, pending[d], FALSE) : d \in gone}
      BY <1>2
    <2> HIDE DEF dropped
    <2>4. /\ lines' \in [Calls -> Seq(FileLines)] /\ writeError' \in BOOLEAN /\ (writeError => writeError')
          /\ \A d \in gone : Adds(d, Line(d, pending[d], FALSE))
          /\ \A d \in Calls : d \notin gone /\ d # c => lines'[d] = lines[d]
          /\ lines'[c] = lines[c]
      BY <1>1, <2>2, <2>3, MergeLines
    <2>5. Quiet
      BY <1>11, <2>4
    <2>6. /\ DOMAIN pending' = (P \ gone) \cup {c} /\ pending'[c] = rec
          /\ \A d \in P \ gone : d # c => pending'[d] = pending[d]
      BY <1>2, <2>1
    <2>7. CallOk(c)' /\ (Spent(c) => Spent(c)')
      <3>1. Held(c, rec)
        BY <1>7, <2>1, <2>4, <2>6 DEF Held
      <3> QED BY <1>1, <2>5, <3>1, HeldKeeps
    <2>8. \A d \in Calls : CallOk(d)' /\ (Spent(d) => Spent(d)')
      <3> TAKE d \in Calls
      <3>1. CASE d # c
        BY <1>2, <1>10, <2>1, <2>4, <2>5, <2>6, <3>1
      <3> QED BY <2>7, <3>1
    <2>9. WriterTypes'
      <3>1. DOMAIN pending' \subseteq Calls /\ IsFiniteSet(DOMAIN pending')
        BY <1>2, <1>3, <2>6
      <3>2. \A d \in DOMAIN pending' : pending'[d] \in PendingRecs
        BY <1>3, <1>8, <2>6
      <3>3. DOMAIN pending' \cap Range(evicted') = {}
        BY <1>2, <1>3, <1>6, <2>6
      <3>4. lossy' \subseteq Calls /\ order' \in Seq(Calls) /\ evicted' \in Seq(Calls)
        BY <1>2, <1>3, <2>1
      <3> QED BY <2>4, <3>1, <3>2, <3>3, <3>4 DEF WriterTypes
    <2>10. OrderInv'
      <3>1. SpentCalls \subseteq SpentCalls'
        BY <2>8, SpentGrows
      <3>2. DOMAIN pending' = DOMAIN entry.pending
        BY <1>2, <2>6
      <3>3. Few(order', DOMAIN pending', SpentCalls')
        BY <1>5, <2>1, <3>1, <3>2, FewShift
      <3> QED BY <1>2, <1>5, <2>1, <3>2, <3>3 DEF OrderInv
    <2> QED BY <1>9, <2>8, <2>9, <2>10 DEF RecorderInv
  <1>13. CASE Ready(rec) /\ TryFinalize(c, entry, rec)
    <2> DEFINE x == Line(c, rec, TakeComplete(c, entry.lossy))
    <2>1. /\ pending' = Restrict(entry.pending, DOMAIN entry.pending \ {c})
          /\ order' = Trim(entry.order, DOMAIN pending')
          /\ lossy' = entry.lossy \ {c} /\ WriteLines(entry.lines \cup {x})
      BY <1>13 DEF TryFinalize
    <2>2. TakeComplete(c, entry.lossy) \in BOOLEAN /\ (TakeComplete(c, entry.lossy) => c \notin lossy)
      BY <1>7 DEF TakeComplete
    <2>3. x \in FileLines /\ x.call = c
      BY <1>8, <2>2 DEF Line, FileLines, PendingRecs
    <2> HIDE DEF x
    <2>4. WriteLines(dropped \cup {x}) /\ gone \in SUBSET (P \ {c})
      BY <1>2, <2>1
    <2> HIDE DEF dropped
    <2>5. /\ lines' \in [Calls -> Seq(FileLines)] /\ writeError' \in BOOLEAN /\ (writeError => writeError')
          /\ \A d \in gone : Adds(d, Line(d, pending[d], FALSE))
          /\ \A d \in Calls : d \notin gone /\ d # c => lines'[d] = lines[d]
          /\ Adds(c, x)
      <3>1. {x} \in SUBSET FileLines /\ (\A y \in {x} : y.call = c) /\ \A y, z \in {x} : y = z
        BY <2>3
      <3>2. dropped = {Line(d, pending[d], FALSE) : d \in gone}
        BY DEF dropped
      <3>3. \A y \in {x} : Adds(c, y) => Adds(c, x)
        OBVIOUS
      <3> QED BY <1>1, <2>4, <3>1, <3>2, <3>3, MergeLines
    <2>6. Quiet
      BY <1>11, <2>5
    <2>7. DOMAIN pending' = P \ (gone \cup {c}) /\ \A d \in P \ (gone \cup {c}) : pending'[d] = pending[d]
      <3>1. DOMAIN entry.pending \ {c} = P \ (gone \cup {c})
        BY <1>2
      <3>2. DOMAIN pending' = DOMAIN entry.pending \ {c}
            /\ \A d \in DOMAIN entry.pending \ {c} : pending'[d] = entry.pending[d]
        BY <2>1, RestrictIs
      <3> QED BY <1>2, <3>1, <3>2
    <2>8. CallOk(c)' /\ ~Spent(c) /\ Spent(c)'
      <3>1. Written(c, rec)
        BY <1>13, <2>2, <2>5, <2>7 DEF Written, x
      <3> QED BY <1>1, <2>6, <3>1, WrittenKeeps
    <2>9. \A d \in Calls : CallOk(d)' /\ (Spent(d) => Spent(d)')
      <3> TAKE d \in Calls
      <3>1. CASE d # c
        <4>1. lossy \ lossy' \subseteq Range(evicted) \cup {c}
          BY <1>2, <2>1
        <4> QED BY <1>10, <2>5, <2>6, <2>7, <3>1, <4>1
      <3> QED BY <2>8, <3>1
    <2>10. WriterTypes'
      <3>1. DOMAIN pending' \subseteq Calls /\ DOMAIN pending' \in SUBSET DOMAIN entry.pending
        BY <1>2, <1>3, <2>7
      <3>2. IsFiniteSet(DOMAIN pending')
        BY <1>2, <3>1, FS_Subset
      <3>3. \A d \in DOMAIN pending' : pending'[d] \in PendingRecs
        BY <1>3, <2>7
      <3>4. DOMAIN pending' \cap Range(evicted') = {}
        BY <1>2, <1>3, <2>7
      <3>5. order' \in Seq(Calls)
        BY <1>2, <2>1, TrimIs
      <3>6. lossy' \subseteq Calls /\ evicted' \in Seq(Calls)
        BY <1>2, <1>3, <2>1
      <3> QED BY <2>5, <3>1, <3>2, <3>3, <3>4, <3>5, <3>6 DEF WriterTypes
    <2>11. OrderInv'
      <3> DEFINE ids == entry.order  E == DOMAIN entry.pending
      <3>1. SpentCalls \subseteq SpentCalls' /\ c \in SpentCalls' \ SpentCalls
        BY <2>8, <2>9, SpentGrows DEF SpentCalls
      <3>2. DOMAIN pending' = E \ {c} /\ DOMAIN pending' \in SUBSET E
        BY <1>2, <2>7
      <3>3. E \subseteq Range(ids) /\ ids \in Seq(Calls) /\ Few(ids, E, SpentCalls)
            /\ Len(ids) <= 2 * PendingMax + 1 /\ IsFiniteSet(E) /\ Cardinality(E) <= PendingMax
        BY <1>2, <1>5
      <3> HIDE DEF ids, E
      <3>4. Few(ids, DOMAIN pending', SpentCalls')
        BY <3>1, <3>2, <3>3, FewShift
      <3>5. /\ order' \in Seq(Calls) /\ Len(order') <= Len(ids) /\ Embeds(order', ids)
            /\ Range(ids) \cap DOMAIN pending' \subseteq Range(order')
        BY <2>1, <3>3, TrimIs DEF ids
      <3>6. Few(order', DOMAIN pending', SpentCalls')
        BY <3>4, <3>5, FewEmbeds
      <3>7. Len(order') <= 2 * PendingMax + 1
        <4>1. Len(order') \in Nat /\ Len(ids) \in Nat
          BY <3>3, <3>5
        <4> QED BY <1>3, <3>3, <3>5, <4>1
      <3>8. Cardinality(DOMAIN pending') <= PendingMax
        <4>1. Cardinality(DOMAIN pending') <= Cardinality(E) /\ IsFiniteSet(DOMAIN pending')
          BY <3>2, <3>3, FS_Subset
        <4>2. Cardinality(DOMAIN pending') \in Nat /\ Cardinality(E) \in Nat
          BY <3>3, <4>1, FS_CardinalityType
        <4> QED BY <1>3, <3>3, <4>1, <4>2
      <3>9. DOMAIN pending' \subseteq Range(order')
        BY <3>2, <3>3, <3>5
      <3> QED BY <1>5, <3>6, <3>7, <3>8, <3>9 DEF OrderInv
    <2> QED BY <1>9, <2>9, <2>10, <2>11 DEF RecorderInv
  <1> QED BY <1>12, <1>13

LEMMA WriteEventKeeps ==
  ASSUME RecorderInv, WriteEvent
  PROVE  RecorderInv'
  <1>0. /\ writer # "ended" /\ queue # <<>> /\ Len(Head(queue)) = 2 /\ queue' = Tail(queue)
        /\ sent' = sent /\ marking' = marking /\ writer' = writer
    BY DEF WriteEvent
  <1>1. SenderTypes /\ WriterTypes /\ QueueInOrder /\ OrderInv /\ \A d \in Calls : CallOk(d)
    BY DEF RecorderInv
  <1>2. PICK e \in Events, c \in Calls : Head(queue) = <<e, c>>
    BY <1>0, <1>1, HeadIs
  <1>3. Head(queue)[1] = e /\ Head(queue)[2] = c
    BY <1>2
  <1>4. \/ /\ Late(c) /\ lossy' = lossy \cup {c} /\ lost' = [lost EXCEPT ![c] = @ \cup {e}]
           /\ UNCHANGED <<inconsistent, store, file>>
        \/ /\ e = Closed /\ UNCHANGED <<damaged, store, file, lost>>
        \/ /\ ~Late(c) /\ (e = Closed => IsPending(c)) /\ evicted' = Entry(c).evicted
           /\ inconsistent' = inconsistent \cup
                  (IF Unmatched(Entry(c).pending[c], e) THEN {c} ELSE {})
           /\ \/ Hold(c, Entry(c), Apply(Entry(c).pending[c], e))
              \/ TryFinalize(c, Entry(c), Apply(Entry(c).pending[c], e))
           /\ lost' = lost
    BY <1>3 DEF WriteEvent
  <1>5. CASE Late(c) /\ lossy' = lossy \cup {c} /\ lost' = [lost EXCEPT ![c] = @ \cup {e}]
             /\ UNCHANGED <<inconsistent, store, file>>
    BY <1>2, <1>5, LateKeeps
  <1>6. CASE e = Closed /\ UNCHANGED <<damaged, store, file, lost>>
    BY <1>2, <1>6, ClosedKeeps
  <1>7. CASE /\ ~Late(c) /\ (e = Closed => IsPending(c)) /\ evicted' = Entry(c).evicted
             /\ inconsistent' = inconsistent \cup
                    (IF Unmatched(Entry(c).pending[c], e) THEN {c} ELSE {})
             /\ \/ Hold(c, Entry(c), Apply(Entry(c).pending[c], e))
                \/ TryFinalize(c, Entry(c), Apply(Entry(c).pending[c], e))
             /\ lost' = lost
    <2>1. PICK entry : entry = Entry(c)
      OBVIOUS
    <2>2. DOMAIN pending \subseteq Range(order)
      BY <1>0, <1>1 DEF OrderInv
    <2>3. PICK gone : EntryOf(entry, c, gone)
      BY <1>1, <2>1, <2>2, EntryIs
    <2>4. PICK prev : prev = entry.pending[c]
      OBVIOUS
    <2>5. PICK rec : rec = Apply(prev, e)
      OBVIOUS
    <2>6. /\ evicted' = entry.evicted
          /\ inconsistent' = inconsistent \cup (IF Unmatched(prev, e) THEN {c} ELSE {})
          /\ Hold(c, entry, rec) \/ TryFinalize(c, entry, rec)
      BY <1>7, <2>1, <2>4, <2>5
    <2>7. prev \in PendingRecs /\ prev.got = Got(c)
      <3>1. CASE c \in DOMAIN pending
        <4>1. prev = pending[c]
          BY <2>3, <2>4, <3>1 DEF EntryOf
        <4> QED BY <1>1, <3>1, <4>1, GotIs DEF WriterTypes
      <3>2. CASE c \notin DOMAIN pending
        <4>1. prev = Placeholder
          BY <2>3, <2>4, <3>2 DEF EntryOf, IsPending
        <4>2. prev.got = {} /\ prev \in PendingRecs
          BY <4>1 DEF Placeholder, PendingRecs
        <4> QED BY <3>2, <4>2, GotIs
      <3> QED BY <3>1, <3>2
    <2>8. /\ rec \in PendingRecs
          /\ prev.got \subseteq rec.got /\ rec.got \subseteq prev.got \cup {e}
          /\ {e} \ rec.got \subseteq {Closed} \cup (IF Unmatched(prev, e) THEN Updates ELSE {})
      BY <2>5, <2>7, ApplyIs
    <2>9. /\ QueueInOrder' /\ Queued(c) = Queued(c)' \cup {e}
          /\ e \in Fields => e \notin Queued(c)'
          /\ Input \notin Queued(c)'
          /\ e = Outcome => Queued(c)' \subseteq Trailing
          /\ \A d \in Calls : d # c => Queued(d)' = Queued(d)
      BY <1>0, <1>1, <1>2, HeadTaken
    <2>10. Merges(c, {e}, rec)
      <3>1. {e} \ rec.got \subseteq {Closed} \cup (IF c \in inconsistent' THEN Updates ELSE {})
        <4>1. CASE Unmatched(prev, e)
          BY <2>6, <2>8, <4>1
        <4>2. CASE ~Unmatched(prev, e)
          BY <2>8, <4>2
        <4> QED BY <4>1, <4>2
      <3>2. IsPending(c) \/ \E f \in {e} : f # Closed
        BY <1>7
      <3>3. \A f \in {e} : /\ f \in Fields => f \notin Queued(c)'
                           /\ Input \notin Queued(c)'
                           /\ f = Outcome => Queued(c)' \subseteq Trailing
        BY <2>9
      <3>4. Got(c) \subseteq rec.got /\ rec.got \subseteq Got(c) \cup {e}
        BY <2>7, <2>8
      <3> QED BY <2>8, <2>9, <3>1, <3>2, <3>3, <3>4 DEF Merges
    <2>11. inconsistent \subseteq inconsistent' /\ inconsistent' \subseteq Calls
      BY <1>1, <2>6 DEF WriterTypes
    <2>12. Hold(c, entry, rec) \/ (Ready(rec) /\ TryFinalize(c, entry, rec))
      BY <2>6 DEF TryFinalize
    <2> QED BY <1>0, <1>7, <2>3, <2>6, <2>9, <2>10, <2>11, <2>12, MergeKeeps
  <1> QED BY <1>4, <1>5, <1>6, <1>7

(* One line for each of a set of calls.                                    *)
LEMMA EachLine ==
  ASSUME WriterTypes, NEW calls \in SUBSET DOMAIN pending, NEW marks \in [calls -> BOOLEAN],
         WriteLines({Line(d, pending[d], marks[d]) : d \in calls})
  PROVE  /\ lines' \in [Calls -> Seq(FileLines)] /\ writeError' \in BOOLEAN /\ (writeError => writeError')
         /\ \A d \in calls : Adds(d, Line(d, pending[d], marks[d]))
         /\ \A d \in Calls : d \notin calls => lines'[d] = lines[d]
  <1> DEFINE Of(d) == Line(d, pending[d], marks[d])
             new == {Of(d) : d \in calls}
  <1>0. lines \in [Calls -> Seq(FileLines)] /\ writeError \in BOOLEAN /\ DOMAIN pending \subseteq Calls
        /\ \A d \in DOMAIN pending : pending[d] \in PendingRecs
    BY DEF WriterTypes
  <1>1. \A d \in calls : Of(d) \in FileLines /\ Of(d).call = d
    BY <1>0 DEF Line, FileLines, PendingRecs
  <1> HIDE DEF Of
  <1>2. \A x \in new : \E d \in calls : x = Of(d)
    OBVIOUS
  <1>3. \A d \in calls : Of(d) \in new
    OBVIOUS
  <1>4. WriteLines(new)
    BY DEF Of
  <1> HIDE DEF new
  <1>5. new \in SUBSET FileLines /\ \A x \in new : x.call \in calls
    BY <1>1, <1>2
  <1>6. \A x, y \in new : x.call = y.call => x = y
    BY <1>1, <1>2
  <1>7. /\ lines' \in [Calls -> Seq(FileLines)] /\ writeError' \in BOOLEAN
        /\ writeError => writeError'
        /\ \A d \in Calls : (\A x \in new : x.call # d) => lines'[d] = lines[d]
        /\ \A x \in new : x.call \in Calls => Adds(x.call, x)
    BY <1>0, <1>4, <1>5, <1>6, WriteLinesIs
  <1>8. ASSUME NEW d \in calls PROVE Adds(d, Of(d))
    <2>1. PICK x \in new : x = Of(d)
      BY <1>3
    <2>2. Adds(x.call, x) /\ x.call = d
      BY <1>0, <1>1, <1>7, <2>1
    <2> QED BY <2>1, <2>2
  <1>9. \A d \in Calls : d \notin calls => lines'[d] = lines[d]
    BY <1>5, <1>7
  <1> QED BY <1>7, <1>8, <1>9 DEF Of

LEMMA WriteRestKeeps ==
  ASSUME RecorderInv, WriteRest
  PROVE  RecorderInv'
  <1> DEFINE P == DOMAIN pending
  <1>0. /\ sent' = sent /\ marking' = marking /\ lost' = lost /\ queue' = queue
        /\ lossy' = lossy /\ inconsistent' = inconsistent /\ order' = order /\ evicted' = evicted
        /\ writer' = "ended" /\ pending' = <<>>
        /\ WriteLines({Line(c, pending[c], FALSE) : c \in P})
    BY DEF WriteRest, senders, damaged
  <1>1. SenderTypes /\ WriterTypes /\ QueueInOrder /\ OrderInv /\ \A d \in Calls : CallOk(d)
    BY DEF RecorderInv
  <1>2. PICK marks : marks = [c \in P |-> FALSE]
    OBVIOUS
  <1>3. marks \in [P -> BOOLEAN] /\ P \in SUBSET P
        /\ {Line(c, pending[c], marks[c]) : c \in P} = {Line(c, pending[c], FALSE) : c \in P}
    BY <1>2
  <1>4. /\ lines' \in [Calls -> Seq(FileLines)] /\ writeError' \in BOOLEAN /\ (writeError => writeError')
        /\ \A d \in P : Adds(d, Line(d, pending[d], marks[d]))
        /\ \A d \in Calls : d \notin P => lines'[d] = lines[d]
    BY <1>0, <1>1, <1>3, EachLine
  <1>5. Quiet
    BY <1>0, <1>4 DEF Quiet
  <1>6. DOMAIN pending' = {}
    BY <1>0
  <1>7. \A d : Queued(d)' = Queued(d)
    BY <1>0 DEF Queued
  <1>8. \A d \in Calls : CallOk(d)'
    <2> TAKE d \in Calls
    <2>1. CASE d \in P
      <3>1. Adds(d, Line(d, pending[d], FALSE))
        BY <1>2, <1>4, <2>1
      <3>2. Goes(d)
        BY <1>6, <1>7, <2>1, <3>1 DEF Goes, IsPending
      <3> QED BY <1>1, <1>5, <3>2, GoesKeeps
    <2>2. CASE d \notin P
      <3>1. Same(d)
        BY <1>0, <1>4, <1>6, <1>7, <2>2 DEF Same
      <3> QED BY <1>1, <1>5, <3>1, SameKeeps
    <2> QED BY <2>1, <2>2
  <1>9. SenderTypes' /\ QueueInOrder'
    BY <1>0, <1>1 DEF SenderTypes, Script, Began, QueueInOrder, InOrder
  <1>10. WriterTypes'
    BY <1>0, <1>1, <1>4, <1>6, FS_EmptySet DEF WriterTypes
  <1>11. OrderInv'
    <2>1. Cardinality(DOMAIN pending') = 0 /\ PendingMax \in Nat
      BY <1>6, FS_EmptySet, RecordingAssumption
    <2> QED BY <1>0, <1>1, <2>1 DEF OrderInv
  <1> QED BY <1>8, <1>9, <1>10, <1>11 DEF RecorderInv

LEMMA WriteFlushKeeps ==
  ASSUME RecorderInv, WriteFlush
  PROVE  RecorderInv'
  <1> DEFINE P == DOMAIN pending
             R == {c \in P : Ready(pending[c])}
  <1>0. /\ writer # "ended" /\ queue # <<>> /\ Head(queue) = <<"flush">> /\ queue' = Tail(queue)
        /\ WriteLines({Line(c, pending[c], TakeComplete(c, lossy)) : c \in R})
        /\ pending' = Restrict(pending, P \ R) /\ lossy' = lossy \ R
        /\ order' = Live(order, DOMAIN pending')
        /\ sent' = sent /\ marking' = marking /\ lost' = lost
        /\ inconsistent' = inconsistent /\ evicted' = evicted /\ writer' = writer
    BY DEF WriteFlush, senders
  <1>1. SenderTypes /\ WriterTypes /\ QueueInOrder /\ OrderInv /\ \A d \in Calls : CallOk(d)
    BY DEF RecorderInv
  <1>2. R \in SUBSET P /\ \A d \in R : Ready(pending[d])
    OBVIOUS
  <1> HIDE DEF R
  <1>3. PICK marks : marks = [c \in R |-> TakeComplete(c, lossy)]
    OBVIOUS
  <1>4. marks \in [R -> BOOLEAN] /\ \A d \in R : marks[d] => d \notin lossy
    BY <1>3 DEF TakeComplete
  <1>5. {Line(c, pending[c], marks[c]) : c \in R} = {Line(c, pending[c], TakeComplete(c, lossy)) : c \in R}
    BY <1>3
  <1>6. /\ lines' \in [Calls -> Seq(FileLines)] /\ writeError' \in BOOLEAN /\ (writeError => writeError')
        /\ \A d \in R : Adds(d, Line(d, pending[d], marks[d]))
        /\ \A d \in Calls : d \notin R => lines'[d] = lines[d]
    BY <1>0, <1>1, <1>2, <1>4, <1>5, EachLine
  <1>7. Quiet
    BY <1>0, <1>6 DEF Quiet
  <1>8. DOMAIN pending' = P \ R /\ \A d \in P \ R : pending'[d] = pending[d]
    BY <1>0, RestrictIs
  <1>9. QueueInOrder' /\ \A d \in Calls : Queued(d)' = Queued(d)
    BY <1>0, <1>1, FlushTaken
  <1>10. P \subseteq Calls /\ \A d \in P : pending[d] \in PendingRecs
    BY <1>1 DEF WriterTypes
  <1>11. ASSUME NEW d \in R PROVE CallOk(d)' /\ ~Spent(d) /\ Spent(d)'
    <2>0. d \in P /\ d \in Calls
      BY <1>2, <1>10
    <2>1. PICK rec : rec = pending[d]
      OBVIOUS
    <2>2. Merges(d, {}, rec)
      <3>1. Got(d) = rec.got /\ IsPending(d)
        BY <2>0, <2>1, GotIs
      <3> QED BY <1>9, <1>10, <2>0, <2>1, <3>1 DEF Merges
    <2>3. Written(d, rec)
      <3>1. marks[d] \in BOOLEAN /\ (marks[d] => d \notin lossy) /\ Adds(d, Line(d, rec, marks[d]))
        BY <1>4, <1>6, <2>1
      <3>2. Ready(rec) /\ d \notin DOMAIN pending'
        BY <1>2, <1>8, <2>1
      <3> QED BY <3>1, <3>2 DEF Written
    <2> QED BY <1>1, <1>7, <2>0, <2>2, <2>3, WrittenKeeps
  <1>12. \A d \in Calls : CallOk(d)' /\ (Spent(d) => Spent(d)')
    <2> TAKE d \in Calls
    <2>1. CASE d \in R
      BY <1>11, <2>1
    <2>2. CASE d \notin R
      <3>1. Same(d)
        BY <1>0, <1>6, <1>8, <1>9, <2>2 DEF Same
      <3> QED BY <1>1, <1>7, <3>1, SameKeeps
    <2> QED BY <2>1, <2>2
  <1>13. SenderTypes'
    BY <1>0, <1>1 DEF SenderTypes, Script, Began
  <1>14. order \in Seq(Calls) /\ IsFiniteSet(P) /\ PendingMax \in Nat
    BY <1>1, RecordingAssumption DEF WriterTypes
  <1>15. /\ order' \in Seq(Calls) /\ Len(order') <= Len(order) /\ Embeds(order', order)
         /\ Range(order) \cap DOMAIN pending' \subseteq Range(order')
    BY <1>0, <1>14, LiveIs
  <1>16. DOMAIN pending' \in SUBSET P
    BY <1>8
  <1>17. IsFiniteSet(DOMAIN pending') /\ Cardinality(DOMAIN pending') <= Cardinality(P)
    BY <1>14, <1>16, FS_Subset
  <1>18. WriterTypes'
    <2>1. lossy' \subseteq Calls /\ inconsistent' \subseteq Calls /\ evicted' \in Seq(Calls)
          /\ DOMAIN pending' \cap Range(evicted') = {}
      BY <1>0, <1>1, <1>16 DEF WriterTypes
    <2>2. /\ \A d \in DOMAIN pending' : pending'[d] \in PendingRecs
      BY <1>8, <1>10
    <2> QED BY <1>6, <1>10, <1>15, <1>16, <1>17, <2>1, <2>2 DEF WriterTypes
  <1>19. OrderInv'
    <2>1. SpentCalls \subseteq SpentCalls' /\ P \ DOMAIN pending' \subseteq SpentCalls' \ SpentCalls
      <3>1. SpentCalls \subseteq SpentCalls'
        BY <1>12, SpentGrows
      <3>2. R \subseteq SpentCalls' \ SpentCalls
        BY <1>2, <1>10, <1>11 DEF SpentCalls
      <3> QED BY <1>8, <3>1, <3>2
    <2>2. Few(order, P, SpentCalls) /\ P \subseteq Range(order)
      BY <1>0, <1>1 DEF OrderInv
    <2>3. Few(order, DOMAIN pending', SpentCalls')
      BY <1>16, <2>1, <2>2, FewShift
    <2>4. Few(order', DOMAIN pending', SpentCalls')
      BY <1>15, <2>3, FewEmbeds
    <2>5. DOMAIN pending' \subseteq Range(order')
      BY <1>15, <1>16, <2>2
    <2>6. Cardinality(P) \in Nat /\ Cardinality(DOMAIN pending') \in Nat /\ Len(order) \in Nat /\ Len(order') \in Nat
      BY <1>14, <1>15, <1>17, FS_CardinalityType
    <2>7. Cardinality(P) <= PendingMax /\ Len(order) <= 2 * PendingMax + 1 /\ Len(evicted) <= EvictedMax
      BY <1>1 DEF OrderInv
    <2>8. Cardinality(DOMAIN pending') <= PendingMax
      BY <1>14, <1>17, <2>6, <2>7
    <2>9. Len(order') <= 2 * PendingMax + 1
      BY <1>14, <1>15, <2>6, <2>7
    <2> QED BY <1>0, <2>4, <2>5, <2>7, <2>8, <2>9 DEF OrderInv
  <1> QED BY <1>9, <1>12, <1>13, <1>18, <1>19 DEF RecorderInv

-----------------------------------------------------------------------------
(* The theorems *)

LEMMA RecorderSteps == RecorderInv /\ [Next]_vars => RecorderInv'
  <1> SUFFICES ASSUME RecorderInv, [Next]_vars PROVE RecorderInv'
    OBVIOUS
  <1>1. CASE WriteEvent
    BY <1>1, WriteEventKeeps
  <1>2. CASE WriteFlush
    BY <1>2, WriteFlushKeeps
  <1>3. CASE WriteRest
    BY <1>3, WriteRestKeeps
  <1>4. CASE TryFlush \/ FlushTimeout \/ DropRecorder \/ UNCHANGED vars
    BY <1>4, QuietActions
  <1>5. CASE Stopped
    BY <1>5, QuietActions DEF Stopped
  <1>6. ASSUME NEW c \in Calls, NEW s \in Senders, Send(c, s) PROVE RecorderInv'
    BY <1>6, SendKeeps
  <1>7. ASSUME NEW c \in Calls, NEW s \in Senders, MarkLossy(c, s) PROVE RecorderInv'
    BY <1>7, MarkLossyKeeps
  <1> QED BY <1>1, <1>2, <1>3, <1>4, <1>5, <1>6, <1>7 DEF Next, Write

LEMMA RecorderHolds == Spec => []RecorderInv
  BY RecorderStarts, RecorderSteps, PTL DEF Spec

(* A line that the writer of recording.rs marks complete has everything    *)
(* its call recorded, for any calls, scripts and capacities.               *)
THEOREM CompleteStaysFaithful == Spec => []CompleteIsFaithful
  <1>1. RecorderInv => CompleteIsFaithful
    <2> SUFFICES ASSUME RecorderInv, NEW c \in Calls, NEW i \in DOMAIN lines[c], lines[c][i].complete
                 PROVE  /\ lines[c][i].got = Recorded(c) \ {Closed} /\ lost[c] \subseteq {Closed}
                        /\ \A j \in DOMAIN lines[c] : lines[c][j].complete => i = j
      BY DEF CompleteIsFaithful
    <2>1. CompleteIsSettled(c) /\ lines[c] \in Seq(FileLines)
      BY DEF RecorderInv, CallOk, CallInv, WriterTypes
    <2>2. DOMAIN lines[c] = 1 .. Len(lines[c])
      BY <2>1
    <2> QED BY <2>1, <2>2 DEF CompleteIsSettled, Settled
  <1> QED BY <1>1, RecorderHolds, PTL

(* What the writer of recording.rs took from its channel is in the file,   *)
(* held, counted as dropped or marked, unless a write failed; its calls,   *)
(* their order and the tracker stay within their capacities.               *)
THEOREM LossStaysBounded == Spec => []LossIsBounded
  <1>1. RecorderInv => LossIsVisible
    BY DEF RecorderInv, CallOk, Visible, LossIsVisible, Got
  <1>2. RecorderInv => MemoryBounded
    BY DEF RecorderInv, OrderInv, MemoryBounded
  <1> QED BY <1>1, <1>2, RecorderHolds, PTL DEF LossIsBounded
=============================================================================
