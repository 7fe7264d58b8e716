----------------------------- MODULE StoreProofs -----------------------------
(***************************************************************************)
(* Proofs about the sessions of session.rs and the traces of               *)
(* trace/store.rs, for every set of calls, prompts, scopes and bodies and  *)
(* all capacities.                                                         *)
(***************************************************************************)
EXTENDS MCStores, FiniteSetTheorems, SequenceTheorems, WellFoundedInduction, TLAPS

-----------------------------------------------------------------------------
(* Sequences and numbers *)

LEMMA LeastExists ==
  ASSUME NEW S \in SUBSET Nat, S # {}
  PROVE  \E x \in S : \A y \in S : x =< y
  <1> DEFINE R == OpToRel(<, Nat)
  <1>1. IsWellFoundedOn(R, Nat)
    BY NatLessThanWellFounded
  <1>2. \E x \in S : \A y \in S : ~ (<<y, x>> \in R)
    <2> HIDE DEF R
    <2> QED BY <1>1, WFMin
  <1>3. \A x, y \in Nat : ~(<<y, x>> \in R) => x =< y
    BY DEF OpToRel
  <1> HIDE DEF R
  <1> QED BY <1>2, <1>3

LEMMA MinProperty ==
  ASSUME NEW S \in SUBSET Nat, S # {}
  PROVE  Min(S) \in S /\ \A y \in S : Min(S) =< y
  BY LeastExists DEF Min

(* What IsPrefix and IsSuffix say of each position.                        *)
LEMMA PrefixIs ==
  ASSUME NEW S, NEW a \in Seq(S), NEW b \in Seq(S)
  PROVE  IsPrefix(a, b) <=> Len(a) <= Len(b) /\ \A i \in 1 .. Len(a) : a[i] = b[i]
  <1>1. Len(a) \in Nat /\ Len(b) \in Nat
    OBVIOUS
  <1>2. SubSeq(a, 1, Len(a)) = [i \in 1 .. Len(a) |-> a[i]]
    OBVIOUS
  <1>3. SubSeq(b, 1, Len(a)) = [i \in 1 .. Len(a) |-> b[i]]
    OBVIOUS
  <1> QED BY <1>2, <1>3 DEF IsPrefix

LEMMA SuffixIs ==
  ASSUME NEW S, NEW a \in Seq(S), NEW b \in Seq(S)
  PROVE  IsSuffix(a, b) <=> /\ Len(a) <= Len(b)
                            /\ \A i \in 1 .. Len(a) : a[i] = b[Len(b) - Len(a) + i]
  <1>1. Reverse(a) \in Seq(S) /\ Reverse(b) \in Seq(S)
    BY DEF Reverse
  <1>2. /\ Len(Reverse(a)) = Len(a) /\ Len(Reverse(b)) = Len(b)
        /\ \A i \in 1 .. Len(a) : Reverse(a)[i] = a[Len(a) - i + 1]
        /\ \A i \in 1 .. Len(b) : Reverse(b)[i] = b[Len(b) - i + 1]
        /\ Len(a) \in Nat /\ Len(b) \in Nat
    BY DEF Reverse
  <1>3. IsSuffix(a, b) <=> /\ Len(a) <= Len(b)
                           /\ \A i \in 1 .. Len(a) : Reverse(a)[i] = Reverse(b)[i]
    BY <1>1, <1>2, PrefixIs DEF IsSuffix
  <1>4. ASSUME Len(a) <= Len(b)
        PROVE  (\A i \in 1 .. Len(a) : Reverse(a)[i] = Reverse(b)[i])
               <=> \A i \in 1 .. Len(a) : a[i] = b[Len(b) - Len(a) + i]
    <2>1. \A i \in 1 .. Len(a) :
            /\ Len(a) - i + 1 \in 1 .. Len(a) /\ i \in 1 .. Len(b)
            /\ Len(a) - (Len(a) - i + 1) + 1 = i
            /\ Len(b) - (Len(a) - i + 1) + 1 = Len(b) - Len(a) + i
            /\ Len(b) - Len(a) + (Len(a) - i + 1) = Len(b) - i + 1
            /\ Len(a) - i + 1 \in 1 .. Len(b)
      BY <1>2, <1>4
    <2>2. ASSUME \A i \in 1 .. Len(a) : Reverse(a)[i] = Reverse(b)[i],
                 NEW i \in 1 .. Len(a)
          PROVE  a[i] = b[Len(b) - Len(a) + i]
      <3> DEFINE j == Len(a) - i + 1
      <3>1. /\ j \in 1 .. Len(a) /\ j \in 1 .. Len(b)
            /\ Len(a) - j + 1 = i /\ Len(b) - j + 1 = Len(b) - Len(a) + i
        BY <2>1
      <3> HIDE DEF j
      <3>2. Reverse(a)[j] = Reverse(b)[j]
        BY <2>2, <3>1
      <3>3. Reverse(a)[j] = a[Len(a) - j + 1] /\ Reverse(b)[j] = b[Len(b) - j + 1]
        BY <1>2, <3>1
      <3> QED BY <3>1, <3>2, <3>3
    <2>3. ASSUME \A i \in 1 .. Len(a) : a[i] = b[Len(b) - Len(a) + i],
                 NEW i \in 1 .. Len(a)
          PROVE  Reverse(a)[i] = Reverse(b)[i]
      <3> DEFINE j == Len(a) - i + 1
      <3>1. j \in 1 .. Len(a) /\ Len(b) - Len(a) + j = Len(b) - i + 1 /\ i \in 1 .. Len(b)
        BY <2>1
      <3>2. Reverse(a)[i] = a[j] /\ Reverse(b)[i] = b[Len(b) - i + 1]
        BY <1>2, <3>1
      <3> HIDE DEF j
      <3> QED BY <2>3, <3>1, <3>2
    <2> QED BY <2>2, <2>3
  <1> QED BY <1>3, <1>4

LEMMA PrefixesCompose ==
  ASSUME NEW S, NEW a \in Seq(S), NEW b \in Seq(S), NEW c \in Seq(S),
         IsPrefix(a, b), IsPrefix(b, c)
  PROVE  IsPrefix(a, c)
  <1>1. /\ Len(a) <= Len(b) /\ \A i \in 1 .. Len(a) : a[i] = b[i]
        /\ Len(b) <= Len(c) /\ \A i \in 1 .. Len(b) : b[i] = c[i]
    BY PrefixIs
  <1>2. Len(a) \in Nat /\ Len(b) \in Nat /\ Len(c) \in Nat
    OBVIOUS
  <1>3. Len(a) <= Len(c)
    BY <1>1, <1>2
  <1>4. \A i \in 1 .. Len(a) : i \in 1 .. Len(b) /\ a[i] = c[i]
    BY <1>1, <1>2
  <1> QED BY <1>3, <1>4, PrefixIs

(* touch moves an id to the end of the list, or puts it there.             *)
LEMMA TouchedLast ==
  ASSUME NEW S, NEW ids \in Seq(S), IsInjective(ids), NEW s \in S
  PROVE  /\ Touch(ids, s) \in Seq(S) /\ IsInjective(Touch(ids, s))
         /\ Range(Touch(ids, s)) = Range(ids) \cup {s}
         /\ s \notin Range(ids) => Touch(ids, s) = Append(ids, s)
  <1> DEFINE rest == RemoveFirst(ids, s)
  <1>0. Len(ids) \in Nat /\ DOMAIN ids = 1 .. Len(ids)
    OBVIOUS
  <1>1. /\ rest \in Seq(S) /\ IsInjective(rest) /\ Range(rest) = Range(ids) \ {s}
        /\ s \notin Range(ids) => rest = ids
    <2>1. CASE ~ \E i \in 1 .. Len(ids) : ids[i] = s
      <3>1. rest = ids
        BY <2>1 DEF RemoveFirst
      <3>2. s \notin Range(ids)
        BY <2>1, <1>0 DEF Range
      <3> QED BY <3>1, <3>2
    <2>2. CASE \E i \in 1 .. Len(ids) : ids[i] = s
      <3> DEFINE found == {i \in 1 .. Len(ids) : ids[i] = s}
                 at == Min(found)
      <3>1. found \in SUBSET Nat /\ found # {}
        BY <2>2
      <3>2. at \in found
        BY <3>1, MinProperty
      <3>3. at \in 1 .. Len(ids) /\ ids[at] = s
        BY <3>2
      <3>4. rest = SubSeq(ids, 1, at - 1) \o SubSeq(ids, at + 1, Len(ids))
        BY <2>2, <3>1 DEF RemoveFirst, RemoveAt, SelectInSeq
      <3> HIDE DEF at, rest
      <3>5. /\ SubSeq(ids, 1, at - 1) \in Seq(S) /\ Len(SubSeq(ids, 1, at - 1)) = at - 1
            /\ \A i \in 1 .. at - 1 : SubSeq(ids, 1, at - 1)[i] = ids[i]
        BY <1>0, <3>3
      <3>6. /\ SubSeq(ids, at + 1, Len(ids)) \in Seq(S)
            /\ Len(SubSeq(ids, at + 1, Len(ids))) = Len(ids) - at
            /\ \A i \in 1 .. Len(ids) - at : SubSeq(ids, at + 1, Len(ids))[i] = ids[i + at]
        <4> DEFINE from == at + 1  to == Len(ids)
        <4>0. at \in Nat /\ at >= 1 /\ at <= Len(ids) /\ \A i \in 1 .. Len(ids) : ids[i] \in S
          BY <1>0, <3>3
        <4>1. /\ from \in Int /\ to \in Int /\ \A i \in from .. to : ids[i] \in S
              /\ to - from + 1 = Len(ids) - at
              /\ (IF from <= to THEN to - from + 1 ELSE 0) = Len(ids) - at
              /\ \A i \in 1 .. Len(ids) - at : from + i - 1 = i + at
          <5>1. from \in Int /\ to \in Int /\ from >= 1
            BY <1>0, <4>0
          <5>2. \A i \in from .. to : i \in 1 .. Len(ids)
            BY <1>0, <4>0
          <5>3. to - from + 1 = Len(ids) - at
            BY <1>0, <4>0
          <5>4. (IF from <= to THEN to - from + 1 ELSE 0) = Len(ids) - at
            <6>1. CASE from <= to
              BY <5>3, <6>1
            <6>2. CASE ~(from <= to)
              <7>1. Len(ids) - at = 0
                <8>1. \A m, n \in Nat : n <= m /\ ~(n + 1 <= m) => m - n = 0
                  OBVIOUS
                <8>2. ~(at + 1 <= Len(ids))
                  BY <6>2
                <8> QED BY <1>0, <4>0, <8>1, <8>2
              <7> QED BY <6>2, <7>1
            <6> QED BY <6>1, <6>2
          <5>5. \A i \in 1 .. Len(ids) - at : from + i - 1 = i + at
            BY <1>0, <4>0
          <5> QED BY <4>0, <5>1, <5>2, <5>3, <5>4, <5>5
        <4> HIDE DEF from, to
        <4>2. /\ SubSeq(ids, from, to) \in Seq(S)
              /\ Len(SubSeq(ids, from, to)) = Len(ids) - at
              /\ \A i \in 1 .. Len(ids) - at : SubSeq(ids, from, to)[i] = ids[from + i - 1]
          <5>1. /\ SubSeq(ids, from, to) \in Seq(S)
                /\ Len(SubSeq(ids, from, to)) = IF from <= to THEN to - from + 1 ELSE 0
                /\ \A i \in 1 .. to - from + 1 : SubSeq(ids, from, to)[i] = ids[from + i - 1]
            BY <4>1, SubSeqProperties
          <5> QED BY <4>1, <5>1
        <4>3. \A i \in 1 .. Len(ids) - at : SubSeq(ids, from, to)[i] = ids[i + at]
          BY <4>1, <4>2
        <4> QED BY <4>2, <4>3 DEF from, to
      <3>7. /\ rest \in Seq(S) /\ Len(rest) = Len(ids) - 1
            /\ \A i \in 1 .. Len(rest) : rest[i] = ids[IF i < at THEN i ELSE i + 1]
        <4> DEFINE l == SubSeq(ids, 1, at - 1)  r == SubSeq(ids, at + 1, Len(ids))
        <4>1. /\ l \in Seq(S) /\ r \in Seq(S) /\ Len(l) = at - 1 /\ Len(r) = Len(ids) - at
              /\ \A i \in 1 .. at - 1 : l[i] = ids[i]
              /\ \A i \in 1 .. Len(ids) - at : r[i] = ids[i + at]
              /\ rest = l \o r
          BY <3>4, <3>5, <3>6
        <4> HIDE DEF l, r
        <4>2. /\ rest \in Seq(S) /\ Len(rest) = Len(l) + Len(r)
              /\ \A i \in 1 .. Len(l) + Len(r) :
                    rest[i] = IF i <= Len(l) THEN l[i] ELSE r[i - Len(l)]
          BY <4>1, ConcatProperties
        <4>3. Len(rest) = Len(ids) - 1
          BY <1>0, <3>3, <4>1, <4>2
        <4>4. ASSUME NEW i \in 1 .. Len(rest)
              PROVE  rest[i] = ids[IF i < at THEN i ELSE i + 1]
          <5>1. CASE i < at
            <6>1. i \in 1 .. at - 1 /\ i \in 1 .. Len(l)
              BY <5>1, <3>3, <4>1, <4>3
            <6>2. rest[i] = l[i]
              BY <4>1, <6>1
            <6> QED BY <4>1, <5>1, <6>1, <6>2
          <5>2. CASE ~(i < at)
            <6>1. /\ i - Len(l) \in 1 .. Len(ids) - at /\ i - Len(l) + at = i + 1
                  /\ i - Len(l) \in 1 .. Len(r) /\ i \in 1 .. Len(l) + Len(r)
                  /\ i > Len(l)
              BY <1>0, <5>2, <3>3, <4>1, <4>3
            <6>2. rest[i] = r[i - Len(l)]
              BY <4>1, <4>2, <6>1
            <6> QED BY <4>1, <5>2, <6>1, <6>2
          <5> QED BY <5>1, <5>2
        <4> QED BY <4>2, <4>3, <4>4
      <3>8. \A i \in 1 .. Len(rest) : /\ i \in Nat
                                      /\ (IF i < at THEN i ELSE i + 1) \in 1 .. Len(ids)
                                      /\ (IF i < at THEN i ELSE i + 1) # at
        BY <1>0, <3>3, <3>7
      <3>9. \A i, j \in 1 .. Len(ids) : ids[i] = ids[j] => i = j
        BY <1>0 DEF IsInjective
      <3>10. DOMAIN rest = 1 .. Len(rest)
        BY <3>7
      <3>11. IsInjective(rest)
        <4> SUFFICES ASSUME NEW i \in 1 .. Len(rest), NEW j \in 1 .. Len(rest), rest[i] = rest[j]
                     PROVE  i = j
          BY <3>10 DEF IsInjective
        <4>1. (IF i < at THEN i ELSE i + 1) = (IF j < at THEN j ELSE j + 1)
          BY <3>7, <3>8, <3>9
        <4> QED BY <4>1, <3>3, <3>8
      <3>12. Range(rest) \subseteq Range(ids) \ {s}
        <4> SUFFICES ASSUME NEW i \in 1 .. Len(rest)
                     PROVE  rest[i] \in Range(ids) /\ rest[i] # s
          BY <3>10 DEF Range
        <4>1. PICK k \in 1 .. Len(ids) : rest[i] = ids[k] /\ k # at
          BY <3>7, <3>8
        <4> QED BY <4>1, <3>3, <3>9, <1>0 DEF Range
      <3>13. ASSUME NEW x \in Range(ids), x # s
             PROVE  x \in Range(rest)
        <4>1. PICK k \in 1 .. Len(ids) : ids[k] = x
          BY <1>0 DEF Range
        <4>2. k # at
          BY <4>1, <3>3, <3>13
        <4> DEFINE j == IF k < at THEN k ELSE k - 1
        <4>3. j \in 1 .. Len(rest) /\ (IF j < at THEN j ELSE j + 1) = k
          BY <1>0, <3>3, <3>7, <4>2
        <4> HIDE DEF j
        <4>4. rest[j] = x
          BY <3>7, <4>1, <4>3
        <4> QED BY <3>10, <4>3, <4>4 DEF Range
      <3>14. s \in Range(ids)
        BY <1>0, <3>3 DEF Range
      <3> QED BY <3>7, <3>11, <3>12, <3>13, <3>14
    <2> QED BY <2>1, <2>2
  <1> HIDE DEF rest
  <1>2. Touch(ids, s) = Append(rest, s)
    BY DEF Touch, rest
  <1>3. /\ Len(rest) \in Nat /\ DOMAIN rest = 1 .. Len(rest)
        /\ Append(rest, s) \in Seq(S) /\ DOMAIN Append(rest, s) = 1 .. Len(rest) + 1
        /\ \A i \in 1 .. Len(rest) : Append(rest, s)[i] = rest[i]
        /\ Append(rest, s)[Len(rest) + 1] = s
    BY <1>1
  <1>4. \A i \in 1 .. Len(rest) + 1 : i \in 1 .. Len(rest) \/ i = Len(rest) + 1
    BY <1>3
  <1>5. Range(Append(rest, s)) = Range(rest) \cup {s}
    <2>1. Range(Append(rest, s)) \subseteq Range(rest) \cup {s}
      BY <1>3, <1>4 DEF Range
    <2>2. Range(rest) \subseteq Range(Append(rest, s))
      <3>1. \A i \in 1 .. Len(rest) : i \in 1 .. Len(rest) + 1
        BY <1>3
      <3> QED BY <1>3, <3>1 DEF Range
    <2>3. s \in Range(Append(rest, s))
      <3>1. Len(rest) + 1 \in 1 .. Len(rest) + 1
        BY <1>3
      <3> QED BY <1>3, <3>1 DEF Range
    <2> QED BY <2>1, <2>2, <2>3
  <1>6. IsInjective(Append(rest, s))
    <2>1. \A i \in 1 .. Len(rest) : rest[i] # s
      BY <1>1, <1>3 DEF Range
    <2>2. \A i, j \in 1 .. Len(rest) : rest[i] = rest[j] => i = j
      BY <1>1, <1>3 DEF IsInjective
    <2> SUFFICES ASSUME NEW i \in 1 .. Len(rest) + 1, NEW j \in 1 .. Len(rest) + 1,
                        Append(rest, s)[i] = Append(rest, s)[j]
                 PROVE  i = j
      BY <1>3 DEF IsInjective
    <2> QED BY <1>3, <1>4, <2>1, <2>2
  <1> QED BY <1>1, <1>2, <1>3, <1>5, <1>6

-----------------------------------------------------------------------------
(* The inductive invariant of the sessions *)

CallRecs == [call : Calls, step : Nat]

SessionTypes ==
  /\ DOMAIN sessions \subseteq Ids /\ IsFiniteSet(DOMAIN sessions)
  /\ \A s \in DOMAIN sessions :
        sessions[s].calls \in Seq(CallRecs) /\ sessions[s].next_step \in Nat
  /\ lru \in Seq(Ids) /\ history \in [Ids -> Seq(CallRecs)]
  /\ recent \in Seq(Seq(Messages) \X Ids)
  /\ DOMAIN resolved \subseteq Calls
  /\ \A c \in DOMAIN resolved :
        resolved[c].session \in Ids /\ resolved[c].prompt \in Seq(Messages)

(* An id that resolve made up belongs to a call that has resolved, and     *)
(* what is remembered under it extends that call's prompt.                 *)
RememberedExtend ==
  \A c \in Calls, i \in 1 .. Len(recent) : recent[i][2] = AutoId(c) =>
    c \in DOMAIN resolved /\ IsPrefix(resolved[c].prompt, recent[i][1])

ResolvedExtend ==
  \A c \in Calls, d \in DOMAIN resolved : resolved[d].session = AutoId(c) =>
    c \in DOMAIN resolved /\ IsPrefix(resolved[c].prompt, resolved[d].prompt)

SessionInv == SessionTypes /\ StoreCoherent /\ RememberedExtend /\ ResolvedExtend

-----------------------------------------------------------------------------
(* resolve *)

LEMMA PrefixReflexive ==
  ASSUME NEW S, NEW a \in Seq(S)
  PROVE  IsPrefix(a, a)
  <1>1. Len(a) <= Len(a)
    OBVIOUS
  <1> QED BY <1>1, PrefixIs

(* The session that resolve picks: if it is one made up for a call, that   *)
(* call is this one, or the prompt extends what was remembered under it.   *)
LEMMA PickedSession ==
  ASSUME SessionInv, NEW c \in Calls, c \notin DOMAIN resolved,
         NEW explicit \in {{}} \cup {{s} : s \in Named}, NEW prompt \in Prompts,
         NEW s, s = IF explicit # {} THEN CHOOSE x \in explicit : TRUE
                    ELSE IF FindByStrongPrefix(prompt) # 0
                         THEN recent[FindByStrongPrefix(prompt)][2] ELSE AutoId(c)
  PROVE  /\ s \in Ids
         /\ \A d \in Calls : s = AutoId(d) =>
              \/ d = c
              \/ d \in DOMAIN resolved /\ IsPrefix(resolved[d].prompt, prompt)
  <1>0. prompt \in Seq(Messages)
    BY SessionsAssumption
  <1>1. CASE explicit # {}
    <2>1. s \in Named
      BY <1>1
    <2> QED BY <2>1, SessionsAssumption DEF Ids
  <1>2. CASE explicit = {} /\ FindByStrongPrefix(prompt) = 0
    <2>1. s = AutoId(c)
      BY <1>2
    <2> QED BY <2>1 DEF Ids, AutoId
  <1>3. CASE explicit = {} /\ FindByStrongPrefix(prompt) # 0
    <2> DEFINE matching == {i \in 1 .. Len(recent) : IsPrefix(recent[i][1], prompt)}
               at == FindByStrongPrefix(prompt)
    <2>1. at = IF matching # {} THEN Min(matching) ELSE 0
      BY DEF FindByStrongPrefix, SelectInSeq, StrongPrefix
    <2>2. matching \in SUBSET Nat
      OBVIOUS
    <2>3. at \in matching
      BY <1>3, <2>1, <2>2, MinProperty
    <2> HIDE DEF at
    <2>4. at \in 1 .. Len(recent) /\ IsPrefix(recent[at][1], prompt)
      BY <2>3
    <2>5. s = recent[at][2]
      BY <1>3 DEF at
    <2>6. recent[at][1] \in Seq(Messages) /\ recent[at][2] \in Ids
      <3>1. recent[at] \in Seq(Messages) \X Ids
        BY <2>4 DEF SessionInv, SessionTypes
      <3> QED BY <3>1
    <2>7. ASSUME NEW d \in Calls, s = AutoId(d)
          PROVE  d \in DOMAIN resolved /\ IsPrefix(resolved[d].prompt, prompt)
      <3>1. d \in DOMAIN resolved /\ IsPrefix(resolved[d].prompt, recent[at][1])
        BY <2>4, <2>5, <2>7 DEF SessionInv, RememberedExtend
      <3>2. resolved[d].prompt \in Seq(Messages)
        BY <3>1 DEF SessionInv, SessionTypes
      <3> QED BY <1>0, <2>4, <2>6, <3>1, <3>2, PrefixesCompose
    <2> QED BY <2>5, <2>6, <2>7
  <1> QED BY <1>1, <1>2, <1>3

LEMMA RememberedIs ==
  ASSUME recent \in Seq(Seq(Messages) \X Ids), NEW prompt \in Seq(Messages),
         NEW s \in Ids, Remember(prompt, s)
  PROVE  /\ recent' \in Seq(Seq(Messages) \X Ids)
         /\ \A i \in 1 .. Len(recent') :
              recent'[i] = <<prompt, s>> \/ \E j \in 1 .. Len(recent) : recent'[i] = recent[j]
  <1> DEFINE T == Seq(Messages) \X Ids
             kept == IF Len(recent) >= RecentMax THEN Front(recent) ELSE recent
             new == <<<<prompt, s>>>>
  <1>1. /\ Len(new) = 1 /\ new[1] = <<prompt, s>> /\ new \in Seq(T)
    <2>1. <<prompt, s>> \in T
      OBVIOUS
    <2> QED BY <2>1
  <1>2. /\ kept \in Seq(T) /\ \A j \in 1 .. Len(kept) : \E k \in 1 .. Len(recent) : kept[j] = recent[k]
    <2>1. CASE Len(recent) >= RecentMax
      <3>0. Len(recent) \in Nat /\ Len(recent) >= 1 /\ \A i \in 1 .. Len(recent) : recent[i] \in T
        BY <2>1, SessionsAssumption
      <3> DEFINE n == Len(recent) - 1
      <3>1. n \in Nat /\ (\A i \in 1 .. n : i \in 1 .. Len(recent)) /\ 1 \in Int /\ n \in Int
        BY <3>0
      <3>2. kept = SubSeq(recent, 1, n)
        BY <2>1 DEF Front
      <3> HIDE DEF n, kept, T
      <3>3. SubSeq(recent, 1, n) \in Seq(T) /\ Len(SubSeq(recent, 1, n)) = n
            /\ \A i \in 1 .. n : SubSeq(recent, 1, n)[i] = recent[i]
        <4>1. \A i \in 1 .. n : recent[i] \in T
          BY <3>0, <3>1
        <4>2. /\ SubSeq(recent, 1, n) \in Seq(T)
              /\ Len(SubSeq(recent, 1, n)) = IF 1 <= n THEN n - 1 + 1 ELSE 0
              /\ \A i \in 1 .. n - 1 + 1 : SubSeq(recent, 1, n)[i] = recent[1 + i - 1]
          BY <3>1, <4>1, SubSeqProperties
        <4>3. n - 1 + 1 = n /\ (\A i \in 1 .. n : 1 + i - 1 = i)
              /\ (~(1 <= n) => n = 0)
          BY <3>1
        <4> QED BY <4>2, <4>3
      <3> QED BY <3>1, <3>2, <3>3
    <2>2. CASE ~(Len(recent) >= RecentMax)
      BY <2>2
    <2> QED BY <2>1, <2>2
  <1>3. recent' = new \o kept
    BY DEF Remember
  <1> HIDE DEF new, kept, T
  <1>4. /\ recent' \in Seq(T) /\ Len(recent') = 1 + Len(kept) /\ Len(kept) \in Nat
        /\ \A i \in 1 .. 1 + Len(kept) : recent'[i] = IF i <= 1 THEN new[i] ELSE kept[i - 1]
    <2>1. /\ new \o kept \in Seq(T) /\ Len(new \o kept) = Len(new) + Len(kept)
          /\ \A i \in 1 .. Len(new) + Len(kept) : (new \o kept)[i] =
                  IF i <= Len(new) THEN new[i] ELSE kept[i - Len(new)]
      BY <1>1, <1>2, ConcatProperties
    <2>2. Len(kept) \in Nat
      BY <1>2
    <2> QED BY <1>1, <1>3, <2>1, <2>2
  <1>5. ASSUME NEW i \in 1 .. Len(recent')
        PROVE  recent'[i] = <<prompt, s>> \/ \E j \in 1 .. Len(recent) : recent'[i] = recent[j]
    <2>1. CASE i = 1
      <3>1. 1 \in 1 .. 1 + Len(kept)
        BY <1>4
      <3> QED BY <1>1, <1>4, <2>1, <3>1
    <2>2. CASE i # 1
      <3>1. i \in 1 .. 1 + Len(kept) /\ ~(i <= 1) /\ i - 1 \in 1 .. Len(kept)
        BY <1>4, <2>2
      <3>2. recent'[i] = kept[i - 1]
        BY <1>4, <3>1
      <3> QED BY <1>2, <3>1, <3>2
    <2> QED BY <2>1, <2>2
  <1> QED BY <1>4, <1>5 DEF T

LEMMA ResolveKeeps ==
  ASSUME SessionInv, NEW c \in Calls, NEW explicit \in {{}} \cup {{s} : s \in Named},
         NEW prompt \in Prompts, Resolve(c, explicit, prompt)
  PROVE  SessionInv'
  <1> DEFINE at == FindByStrongPrefix(prompt)
             s == IF explicit # {} THEN CHOOSE x \in explicit : TRUE
                  ELSE IF at # 0 THEN recent[at][2] ELSE AutoId(c)
  <1>1. /\ c \notin DOMAIN resolved /\ Remember(prompt, s)
        /\ resolved' = [x \in DOMAIN resolved \cup {c} |->
              IF x = c THEN [session |-> s, prompt |-> prompt] ELSE resolved[x]]
        /\ sessions' = sessions /\ lru' = lru /\ history' = history
    BY DEF Resolve
  <1>2. /\ s \in Ids
        /\ \A d \in Calls : s = AutoId(d) =>
              \/ d = c
              \/ d \in DOMAIN resolved /\ IsPrefix(resolved[d].prompt, prompt)
    BY <1>1, PickedSession
  <1> HIDE DEF s
  <1>3. prompt \in Seq(Messages)
    BY SessionsAssumption
  <1>4. /\ recent' \in Seq(Seq(Messages) \X Ids)
        /\ \A i \in 1 .. Len(recent') :
              recent'[i] = <<prompt, s>> \/ \E j \in 1 .. Len(recent) : recent'[i] = recent[j]
    BY <1>1, <1>2, <1>3, RememberedIs DEF SessionInv, SessionTypes
  <1>5. /\ DOMAIN resolved' = DOMAIN resolved \cup {c}
        /\ resolved'[c].session = s /\ resolved'[c].prompt = prompt
        /\ \A d \in DOMAIN resolved : d # c /\ resolved'[d] = resolved[d]
    BY <1>1
  <1>6. SessionTypes'
    BY <1>1, <1>2, <1>3, <1>4, <1>5 DEF SessionInv, SessionTypes
  <1>7. StoreCoherent'
    BY <1>1 DEF SessionInv, StoreCoherent
  <1>8. ASSUME NEW d \in Calls, s = AutoId(d)
        PROVE  d \in DOMAIN resolved' /\ IsPrefix(resolved'[d].prompt, prompt)
    BY <1>2, <1>3, <1>5, <1>8, PrefixReflexive
  <1>9. RememberedExtend'
    <2> SUFFICES ASSUME NEW d \in Calls, NEW i \in 1 .. Len(recent'), recent'[i][2] = AutoId(d)
                 PROVE  d \in DOMAIN resolved' /\ IsPrefix(resolved'[d].prompt, recent'[i][1])
      BY DEF RememberedExtend
    <2>1. CASE recent'[i] = <<prompt, s>>
      BY <1>8, <2>1
    <2>2. ASSUME NEW j \in 1 .. Len(recent), recent'[i] = recent[j]
          PROVE  d \in DOMAIN resolved' /\ IsPrefix(resolved'[d].prompt, recent'[i][1])
      <3>1. d \in DOMAIN resolved /\ IsPrefix(resolved[d].prompt, recent[j][1])
        BY <2>2 DEF SessionInv, RememberedExtend
      <3> QED BY <1>5, <2>2, <3>1
    <2> QED BY <1>4, <2>1, <2>2
  <1>10. ResolvedExtend'
    <2> SUFFICES ASSUME NEW d \in Calls, NEW e \in DOMAIN resolved', resolved'[e].session = AutoId(d)
                 PROVE  d \in DOMAIN resolved' /\ IsPrefix(resolved'[d].prompt, resolved'[e].prompt)
      BY DEF ResolvedExtend
    <2>1. CASE e = c
      BY <1>5, <1>8, <2>1
    <2>2. CASE e \in DOMAIN resolved
      <3>1. d \in DOMAIN resolved /\ IsPrefix(resolved[d].prompt, resolved[e].prompt)
        BY <1>5, <2>2 DEF SessionInv, ResolvedExtend
      <3> QED BY <1>5, <2>2, <3>1
    <2> QED BY <1>5, <2>1, <2>2
  <1> QED BY <1>6, <1>7, <1>9, <1>10 DEF SessionInv

-----------------------------------------------------------------------------
(* append, session_calls and clear *)

(* What StoreCoherent says of one session: its calls are the newest of     *)
(* what it was given, and they are numbered up to next_step.               *)
NewestOf(list, given, step) ==
  /\ Len(list) <= MaxCallsPerSession /\ IsSuffix(list, given)
  /\ \A i \in 1 .. Len(list) : list[i].step = step - Len(list) + i - 1

LEMMA CoherentIs ==
  StoreCoherent <=>
    /\ Range(lru) = DOMAIN sessions /\ IsInjective(lru)
    /\ Cardinality(DOMAIN sessions) <= MaxSessions
    /\ \A s \in DOMAIN sessions :
         NewestOf(sessions[s].calls, history[s], sessions[s].next_step)
  BY DEF StoreCoherent, NewestOf

(* One more call: the oldest goes when the session is full.                *)
LEMMA NewestGrows ==
  ASSUME NEW list \in Seq(CallRecs), NEW given \in Seq(CallRecs), NEW step \in Nat,
         NewestOf(list, given, step), NEW call \in CallRecs, call.step = step,
         NEW after, after = Append(IF Len(list) >= MaxCallsPerSession
                                   THEN Tail(list) ELSE list, call)
  PROVE  after \in Seq(CallRecs) /\ NewestOf(after, Append(given, call), step + 1)
  <1> DEFINE kept == IF Len(list) >= MaxCallsPerSession THEN Tail(list) ELSE list
             cut == Len(list) - Len(kept)
             all == Append(given, call)
  <1>0. /\ Len(list) \in Nat /\ Len(given) \in Nat /\ MaxCallsPerSession \in Nat \ {0}
        /\ Len(list) <= MaxCallsPerSession /\ Len(list) <= Len(given)
        /\ \A i \in 1 .. Len(list) : list[i] = given[Len(given) - Len(list) + i]
        /\ \A i \in 1 .. Len(list) : list[i].step = step - Len(list) + i - 1
    BY SuffixIs, SessionsAssumption DEF NewestOf
  <1>1. /\ kept \in Seq(CallRecs) /\ cut \in Nat /\ Len(kept) \in Nat
        /\ Len(kept) + 1 <= MaxCallsPerSession /\ Len(list) = Len(kept) + cut
        /\ \A i \in 1 .. Len(kept) : kept[i] = list[cut + i]
    <2>1. CASE Len(list) >= MaxCallsPerSession
      <3>1. list # <<>> /\ kept = Tail(list)
        BY <1>0, <2>1
      <3>2. /\ kept \in Seq(CallRecs) /\ Len(kept) = Len(list) - 1
            /\ \A i \in 1 .. Len(kept) : kept[i] = list[i + 1]
        BY <3>1, HeadTailProperties
      <3>3. cut = 1
        BY <1>0, <3>2
      <3> HIDE DEF kept, cut
      <3>4. /\ Len(kept) \in Nat /\ Len(kept) + 1 <= MaxCallsPerSession
            /\ Len(list) = Len(kept) + cut /\ \A i \in 1 .. Len(kept) : i + 1 = cut + i
        BY <1>0, <3>2, <3>3
      <3>5. \A i \in 1 .. Len(kept) : kept[i] = list[cut + i]
        BY <3>2, <3>4
      <3> QED BY <3>2, <3>3, <3>4, <3>5
    <2>2. CASE ~(Len(list) >= MaxCallsPerSession)
      <3>1. kept = list
        BY <2>2
      <3>2. cut = 0
        BY <1>0, <3>1
      <3> HIDE DEF kept, cut
      <3>3. /\ \A i \in 1 .. Len(list) : 0 + i = i
            /\ Len(list) + 1 <= MaxCallsPerSession /\ Len(list) = Len(list) + 0
        BY <1>0, <2>2
      <3> QED BY <1>0, <3>1, <3>2, <3>3
    <2> QED BY <2>1, <2>2
  <1>2. after = Append(kept, call)
    OBVIOUS
  <1> HIDE DEF kept, cut
  <1>3. /\ after \in Seq(CallRecs) /\ Len(after) = Len(kept) + 1
        /\ after[Len(kept) + 1] = call
        /\ \A i \in 1 .. Len(kept) : after[i] = kept[i]
    <2>1. kept \in Seq(CallRecs)
      BY <1>1
    <2>2. /\ Append(kept, call) \in Seq(CallRecs)
          /\ Len(Append(kept, call)) = Len(kept) + 1
          /\ Append(kept, call)[Len(kept) + 1] = call
          /\ \A i \in 1 .. Len(kept) : Append(kept, call)[i] = kept[i]
      BY <2>1, AppendProperties
    <2> QED BY <1>2, <2>2
  <1>4. /\ all \in Seq(CallRecs) /\ Len(all) = Len(given) + 1
        /\ all[Len(given) + 1] = call
        /\ \A i \in 1 .. Len(given) : all[i] = given[i]
    BY AppendProperties
  <1> HIDE DEF all
  <1> DEFINE ll == Len(list)  lk == Len(kept)  lg == Len(given)  la == Len(after)
             lt == Len(all)
  <1>l. /\ ll \in Nat /\ lk \in Nat /\ lg \in Nat /\ cut \in Nat /\ ll = lk + cut
        /\ la = lk + 1 /\ lt = lg + 1 /\ ll <= lg
    BY <1>0, <1>1, <1>3, <1>4
  <1>5. ASSUME NEW i \in 1 .. Len(after)
        PROVE  /\ after[i] = all[Len(all) - Len(after) + i]
               /\ after[i].step = (step + 1) - Len(after) + i - 1
    <2>1. CASE i = Len(kept) + 1
      <3>1. /\ Len(all) - Len(after) + i = Len(given) + 1
            /\ (step + 1) - Len(after) + i - 1 = step
        <4>1. i = lk + 1
          BY <2>1
        <4> HIDE DEF ll, lk, lg, la, lt
        <4>2. lt - la + i = lg + 1 /\ (step + 1) - la + i - 1 = step
          BY <1>l, <4>1
        <4> QED BY <4>2 DEF lt, la, lg
      <3> QED BY <1>3, <1>4, <2>1, <3>1
    <2>2. CASE i # Len(kept) + 1
      <3>1. /\ i \in 1 .. Len(kept) /\ cut + i \in 1 .. Len(list)
            /\ Len(given) - Len(list) + (cut + i) = Len(all) - Len(after) + i
            /\ Len(all) - Len(after) + i \in 1 .. Len(given)
            /\ step - Len(list) + (cut + i) - 1 = (step + 1) - Len(after) + i - 1
        <4>1. i # lk + 1 /\ i \in 1 .. la
          BY <2>2
        <4> HIDE DEF ll, lk, lg, la, lt
        <4>2. i \in Nat /\ i >= 1 /\ i <= lk
          BY <1>l, <4>1
        <4>3. i \in 1 .. lk /\ cut + i \in 1 .. ll
          BY <1>l, <4>2
        <4>4. lg - ll + (cut + i) = lt - la + i
          BY <1>l, <4>2
        <4>5. lt - la + i \in 1 .. lg
          BY <1>l, <4>2
        <4>6. step - ll + (cut + i) - 1 = (step + 1) - la + i - 1
          BY <1>l, <4>2
        <4> QED BY <4>3, <4>4, <4>5, <4>6 DEF ll, lk, lg, la, lt
      <3>2. after[i] = list[cut + i]
        BY <1>1, <1>3, <3>1
      <3>3. /\ list[cut + i] = given[Len(given) - Len(list) + (cut + i)]
            /\ list[cut + i].step = step - Len(list) + (cut + i) - 1
        BY <1>0, <3>1
      <3>4. given[Len(all) - Len(after) + i] = all[Len(all) - Len(after) + i]
        BY <1>4, <3>1
      <3> QED BY <3>1, <3>2, <3>3, <3>4
    <2> QED BY <2>1, <2>2
  <1>6. Len(after) <= Len(all) /\ Len(after) <= MaxCallsPerSession
    BY <1>0, <1>1, <1>3, <1>4
  <1>7. IsSuffix(after, all)
    BY <1>3, <1>4, <1>5, <1>6, SuffixIs
  <1> QED BY <1>3, <1>5, <1>6, <1>7 DEF NewestOf, all

(* The first call of a session that is new.                                *)
LEMMA NewestBegins ==
  ASSUME NEW given \in Seq(CallRecs)
  PROVE  <<>> \in Seq(CallRecs) /\ NewestOf(<<>>, given, 0)
  <1>1. /\ <<>> \in Seq(CallRecs) /\ Len(<<>>) = 0 /\ Len(given) \in Nat
        /\ MaxCallsPerSession \in Nat
    BY SessionsAssumption
  <1>2. IsSuffix(<<>>, given)
    <2> DEFINE none == <<>>
    <2>1. none \in Seq(CallRecs) /\ Len(none) = 0
      BY <1>1
    <2> HIDE DEF none
    <2>2. Len(none) <= Len(given) /\ \A i \in 1 .. Len(none) : FALSE
      BY <1>1, <2>1
    <2>3. IsSuffix(none, given)
      BY <2>1, <2>2, SuffixIs
    <2> QED BY <2>3 DEF none
  <1> QED BY <1>1, <1>2 DEF NewestOf

LEMMA AppendKeeps ==
  ASSUME SessionInv, NEW c \in Calls, AppendCall(c)
  PROVE  SessionInv'
  <1> DEFINE s == resolved[c].session
             touched == Touch(lru, s)
             evicts == s \notin DOMAIN sessions /\ Cardinality(DOMAIN sessions) >= MaxSessions
             kept == DOMAIN sessions \ (IF evicts THEN {Head(touched)} ELSE {})
             entry == IF s \in kept THEN sessions[s] ELSE New
             call == [call |-> c, step |-> entry.next_step]
             list == Append(IF Len(entry.calls) >= MaxCallsPerSession
                            THEN Tail(entry.calls) ELSE entry.calls, call)
  <1>1. /\ c \in DOMAIN resolved /\ recent' = recent /\ resolved' = resolved
        /\ lru' = IF evicts THEN Tail(touched) ELSE touched
        /\ sessions' = [x \in kept \cup {s} |->
              IF x = s THEN [calls |-> list, next_step |-> entry.next_step + 1]
              ELSE sessions[x]]
        /\ history' = [history EXCEPT ![s] = Append(@, call)]
    BY DEF AppendCall
  <1>2. /\ SessionTypes /\ s \in Ids /\ lru \in Seq(Ids) /\ history \in [Ids -> Seq(CallRecs)]
        /\ IsFiniteSet(DOMAIN sessions) /\ DOMAIN sessions \subseteq Ids
    BY <1>1 DEF SessionInv, SessionTypes
  <1>3. /\ Range(lru) = DOMAIN sessions /\ IsInjective(lru)
        /\ Cardinality(DOMAIN sessions) <= MaxSessions
        /\ \A x \in DOMAIN sessions :
             NewestOf(sessions[x].calls, history[x], sessions[x].next_step)
    BY CoherentIs DEF SessionInv
  <1>4. /\ touched \in Seq(Ids) /\ IsInjective(touched)
        /\ Range(touched) = DOMAIN sessions \cup {s}
        /\ s \notin DOMAIN sessions => touched = Append(lru, s)
    <2> HIDE DEF s
    <2>1. /\ Touch(lru, s) \in Seq(Ids) /\ IsInjective(Touch(lru, s))
          /\ Range(Touch(lru, s)) = Range(lru) \cup {s}
          /\ s \notin Range(lru) => Touch(lru, s) = Append(lru, s)
      BY <1>2, <1>3, TouchedLast
    <2> QED BY <1>3, <2>1 DEF touched
  <1>5. MaxSessions \in Nat \ {0} /\ Cardinality(DOMAIN sessions) \in Nat
    BY <1>2, SessionsAssumption, FS_CardinalityType
  <1> HIDE DEF touched
  (* The evicted session is the least recently used, not the new one.      *)
  <1>6. ASSUME evicts
        PROVE  /\ Head(touched) \in DOMAIN sessions /\ Head(touched) # s
               /\ Tail(touched) \in Seq(Ids) /\ IsInjective(Tail(touched))
               /\ Range(Tail(touched)) = (DOMAIN sessions \ {Head(touched)}) \cup {s}
    <2>1. touched = Append(lru, s) /\ s \notin DOMAIN sessions
      BY <1>4, <1>6
    <2>2. DOMAIN sessions # {}
      BY <1>2, <1>5, <1>6, FS_EmptySet
    <2>3. lru # <<>>
      BY <1>3, <2>2 DEF Range
    <2>4. /\ Len(lru) \in Nat /\ Len(lru) >= 1 /\ DOMAIN lru = 1 .. Len(lru)
          /\ Len(touched) = Len(lru) + 1 /\ touched[1] = lru[1] /\ Head(touched) = touched[1]
          /\ DOMAIN touched = 1 .. Len(touched) /\ touched # <<>>
      <3> HIDE DEF s
      <3>1. Len(lru) \in Nat /\ DOMAIN lru = 1 .. Len(lru) /\ Len(lru) >= 1
        BY <1>2, <2>3
      <3>2. /\ Len(touched) = Len(lru) + 1 /\ touched # <<>>
            /\ \A i \in 1 .. Len(lru) : touched[i] = lru[i]
        BY <1>2, <2>1, AppendProperties
      <3>3. touched[1] = lru[1]
        BY <3>1, <3>2
      <3>4. Head(touched) = touched[1] /\ DOMAIN touched = 1 .. Len(touched)
        BY <1>4, <3>2
      <3> QED BY <3>1, <3>2, <3>3, <3>4
    <2>5. Head(touched) \in DOMAIN sessions
      BY <1>3, <2>4 DEF Range
    <2>6. /\ Tail(touched) \in Seq(Ids) /\ Len(Tail(touched)) = Len(touched) - 1
          /\ \A i \in 1 .. Len(Tail(touched)) : Tail(touched)[i] = touched[i + 1]
          /\ DOMAIN Tail(touched) = 1 .. Len(Tail(touched))
      BY <1>4, <2>4, HeadTailProperties
    <2>7. /\ \A i \in 1 .. Len(Tail(touched)) : i + 1 \in 1 .. Len(touched) /\ i + 1 # 1
          /\ \A i \in 1 .. Len(touched) : i = 1 \/ i - 1 \in 1 .. Len(Tail(touched))
          /\ \A i \in 1 .. Len(touched) : (i - 1) + 1 = i
          /\ 1 \in 1 .. Len(touched)
      BY <2>4, <2>6
    <2>8. \A i, j \in 1 .. Len(touched) : touched[i] = touched[j] => i = j
      BY <1>4, <2>4 DEF IsInjective
    <2> DEFINE rest == Tail(touched)
    <2> HIDE DEF rest
    <2>9. IsInjective(rest)
      <3> SUFFICES ASSUME NEW i \in 1 .. Len(rest), NEW j \in 1 .. Len(rest), rest[i] = rest[j]
                   PROVE  i = j
        BY <2>6 DEF IsInjective, rest
      <3>1. i + 1 = j + 1
        BY <2>6, <2>7, <2>8 DEF rest
      <3> QED BY <3>1
    <2>10. Range(rest) = Range(touched) \ {Head(touched)}
      <3>1. Range(rest) \subseteq Range(touched) \ {Head(touched)}
        <4> SUFFICES ASSUME NEW i \in 1 .. Len(rest)
                     PROVE  rest[i] \in Range(touched) /\ rest[i] # Head(touched)
          BY <2>6 DEF Range, rest
        <4>1. rest[i] = touched[i + 1] /\ i + 1 \in 1 .. Len(touched) /\ i + 1 # 1
          BY <2>6, <2>7 DEF rest
        <4> QED BY <4>1, <2>4, <2>7, <2>8 DEF Range
      <3>2. ASSUME NEW x \in Range(touched), x # Head(touched)
            PROVE  x \in Range(rest)
        <4>1. PICK i \in 1 .. Len(touched) : touched[i] = x
          BY <2>4 DEF Range
        <4>2. i - 1 \in 1 .. Len(rest) /\ (i - 1) + 1 = i
          BY <2>4, <2>7, <3>2, <4>1 DEF rest
        <4>3. rest[i - 1] = x
          BY <2>6, <4>1, <4>2 DEF rest
        <4> QED BY <2>6, <4>2, <4>3 DEF Range, rest
      <3> QED BY <3>1, <3>2
    <2> QED BY <1>4, <2>1, <2>5, <2>6, <2>9, <2>10 DEF rest
  <1>7. /\ lru' \in Seq(Ids) /\ IsInjective(lru)' /\ Range(lru)' = kept \cup {s}
    <2>1. CASE evicts
      <3>1. lru' = Tail(touched) /\ kept = DOMAIN sessions \ {Head(touched)}
        BY <1>1, <2>1
      <3> HIDE DEF kept
      <3> QED BY <1>6, <2>1, <3>1
    <2>2. CASE ~evicts
      <3>1. lru' = touched /\ kept = DOMAIN sessions
        BY <1>1, <2>2
      <3> HIDE DEF kept
      <3> QED BY <1>4, <2>2, <3>1
    <2> QED BY <2>1, <2>2
  <1>8. /\ IsFiniteSet(kept \cup {s}) /\ Cardinality(kept \cup {s}) <= MaxSessions
        /\ kept \subseteq DOMAIN sessions
    <2>1. CASE evicts
      <3>1. /\ kept = DOMAIN sessions \ {Head(touched)} /\ Head(touched) \in DOMAIN sessions
            /\ s \notin DOMAIN sessions
        BY <1>6, <2>1
      <3> HIDE DEF kept
      <3>2. IsFiniteSet(kept) /\ Cardinality(kept) = Cardinality(DOMAIN sessions) - 1
        BY <1>2, <3>1, FS_RemoveElement
      <3>3. /\ IsFiniteSet(kept \cup {s})
            /\ Cardinality(kept \cup {s}) = Cardinality(kept) + 1
        <4>1. s \notin kept
          BY <3>1
        <4> QED BY <3>2, <4>1, FS_AddElement
      <3> QED BY <1>3, <1>5, <3>1, <3>2, <3>3
    <2>2. CASE ~evicts
      <3>1. kept = DOMAIN sessions
        BY <2>2
      <3>2. s \in DOMAIN sessions \/ Cardinality(DOMAIN sessions) < MaxSessions
        BY <1>5, <2>2
      <3> HIDE DEF kept
      <3>3. /\ IsFiniteSet(kept \cup {s})
            /\ Cardinality(kept \cup {s}) =
                 IF s \in kept THEN Cardinality(kept) ELSE Cardinality(kept) + 1
        BY <1>2, <3>1, FS_AddElement
      <3> QED BY <1>3, <1>5, <3>1, <3>2, <3>3
    <2> QED BY <2>1, <2>2
  <1> HIDE DEF kept
  <1>9. /\ entry.calls \in Seq(CallRecs) /\ entry.next_step \in Nat
        /\ NewestOf(entry.calls, history[s], entry.next_step)
    <2>1. CASE s \in kept
      BY <1>2, <1>3, <1>8, <2>1 DEF SessionTypes
    <2>2. CASE s \notin kept
      <3>1. entry.calls = <<>> /\ entry.next_step = 0 /\ history[s] \in Seq(CallRecs)
        BY <1>2, <2>2 DEF New
      <3> HIDE DEF entry, s
      <3>2. <<>> \in Seq(CallRecs) /\ NewestOf(<<>>, history[s], 0)
        BY <3>1, NewestBegins
      <3> QED BY <3>1, <3>2
    <2> QED BY <2>1, <2>2
  <1> HIDE DEF entry
  <1>10. call \in CallRecs /\ call.step = entry.next_step /\ history[s] \in Seq(CallRecs)
    BY <1>2, <1>9 DEF CallRecs
  <1>11. list \in Seq(CallRecs) /\ NewestOf(list, Append(history[s], call), entry.next_step + 1)
    <2> HIDE DEF call
    <2> QED BY <1>9, <1>10, NewestGrows
  <1> HIDE DEF list, call
  <1>12. /\ history' \in [Ids -> Seq(CallRecs)] /\ history'[s] = Append(history[s], call)
         /\ \A x \in Ids \ {s} : history'[x] = history[x]
    BY <1>1, <1>2, <1>10
  <1>13. /\ DOMAIN sessions' = kept \cup {s}
         /\ sessions'[s].calls = list /\ sessions'[s].next_step = entry.next_step + 1
         /\ \A x \in kept \ {s} : sessions'[x] = sessions[x]
    BY <1>1
  <1> HIDE DEF s
  <1>14. SessionTypes'
    <2>1. DOMAIN sessions' \subseteq Ids /\ IsFiniteSet(DOMAIN sessions')
      BY <1>2, <1>8, <1>13
    <2>2. \A x \in DOMAIN sessions' :
            sessions'[x].calls \in Seq(CallRecs) /\ sessions'[x].next_step \in Nat
      BY <1>2, <1>8, <1>9, <1>11, <1>13 DEF SessionTypes
    <2> QED BY <1>1, <1>2, <1>7, <1>12, <2>1, <2>2 DEF SessionTypes
  <1>15. ASSUME NEW x \in DOMAIN sessions'
         PROVE  NewestOf(sessions'[x].calls, history'[x], sessions'[x].next_step)
    <2>1. CASE x = s
      BY <1>11, <1>12, <1>13, <2>1
    <2>2. CASE x # s
      <3>1. x \in DOMAIN sessions /\ x \in Ids /\ sessions'[x] = sessions[x]
        BY <1>2, <1>8, <1>13, <2>2
      <3>2. history'[x] = history[x]
        BY <1>12, <2>2, <3>1
      <3> QED BY <1>3, <3>1, <3>2
    <2> QED BY <2>1, <2>2
  <1>16. StoreCoherent'
    BY <1>7, <1>8, <1>13, <1>15 DEF StoreCoherent, NewestOf
  <1>17. RememberedExtend' /\ ResolvedExtend'
    BY <1>1 DEF SessionInv, RememberedExtend, ResolvedExtend
  <1> QED BY <1>14, <1>16, <1>17 DEF SessionInv

LEMMA QueryKeeps ==
  ASSUME SessionInv, NEW s \in Ids, Query(s)
  PROVE  SessionInv'
  <1>1. /\ s \in DOMAIN sessions /\ lru' = Touch(lru, s)
        /\ UNCHANGED <<sessions, recent, resolved, history>>
    BY DEF Query
  <1>2. /\ lru' \in Seq(Ids) /\ IsInjective(lru)' /\ Range(lru)' = DOMAIN sessions
    <2>1. lru \in Seq(Ids) /\ IsInjective(lru) /\ Range(lru) = DOMAIN sessions
      BY DEF SessionInv, SessionTypes, StoreCoherent
    <2>2. Touch(lru, s) \in Seq(Ids) /\ IsInjective(Touch(lru, s))
          /\ Range(Touch(lru, s)) = Range(lru) \cup {s}
      BY <2>1, TouchedLast
    <2> QED BY <1>1, <2>1, <2>2
  <1>3. StoreCoherent'
    BY <1>1, <1>2 DEF SessionInv, StoreCoherent
  <1> QED BY <1>1, <1>2, <1>3 DEF SessionInv, SessionTypes, RememberedExtend, ResolvedExtend

LEMMA EmptyStore ==
  ASSUME sessions' = <<>>, lru' = <<>>, history' = [s \in Ids |-> <<>>]
  PROVE  /\ StoreCoherent' /\ DOMAIN sessions' = {} /\ IsFiniteSet(DOMAIN sessions')
         /\ lru' \in Seq(Ids) /\ history' \in [Ids -> Seq(CallRecs)]
  <1>1. DOMAIN sessions' = {} /\ Range(lru)' = {} /\ IsInjective(lru)'
    BY DEF Range, IsInjective
  <1>2. IsFiniteSet({}) /\ Cardinality({}) = 0 /\ MaxSessions \in Nat
    BY FS_EmptySet, SessionsAssumption
  <1> QED BY <1>1, <1>2 DEF StoreCoherent

LEMMA ClearKeeps ==
  ASSUME SessionInv, ClearSessions
  PROVE  SessionInv'
  <1>1. UNCHANGED <<recent, resolved>>
    BY DEF ClearSessions
  <1>2. /\ StoreCoherent' /\ DOMAIN sessions' = {} /\ IsFiniteSet(DOMAIN sessions')
        /\ lru' \in Seq(Ids) /\ history' \in [Ids -> Seq(CallRecs)]
    BY EmptyStore DEF ClearSessions
  <1> QED BY <1>1, <1>2 DEF SessionInv, SessionTypes, RememberedExtend, ResolvedExtend

-----------------------------------------------------------------------------
(* session.rs: whatever resolves, appends, queries and clears interleave,  *)
(* the store holds no more than it may, lists every session once, keeps    *)
(* the newest calls of each in order, and puts into one inferred session   *)
(* only calls that extend the prompt which opened it.                      *)
THEOREM SessionsStaySound == Spec => []SessionsAreSound
  <1>1. Init => SessionInv
    <2> SUFFICES ASSUME SessionInit PROVE SessionInv
      BY DEF Init
    <2>1. /\ DOMAIN sessions = {} /\ Range(lru) = {} /\ IsInjective(lru)
          /\ DOMAIN resolved = {} /\ Len(recent) = 0
      BY DEF SessionInit, Range, IsInjective
    <2>2. IsFiniteSet({}) /\ Cardinality({}) = 0 /\ MaxSessions \in Nat
      BY FS_EmptySet, SessionsAssumption
    <2>3. lru \in Seq(Ids) /\ recent \in Seq(Seq(Messages) \X Ids)
          /\ history \in [Ids -> Seq(CallRecs)]
      BY DEF SessionInit
    <2>4. StoreCoherent
      BY <2>1, <2>2 DEF StoreCoherent
    <2>5. RememberedExtend /\ ResolvedExtend
      BY <2>1 DEF RememberedExtend, ResolvedExtend
    <2> QED BY <2>1, <2>2, <2>3, <2>4, <2>5 DEF SessionInv, SessionTypes
  <1>2. SessionInv /\ [Next]_<<under, sessionVars, traceVars>> => SessionInv'
    <2> SUFFICES ASSUME SessionInv, [Next]_<<under, sessionVars, traceVars>>
                 PROVE  SessionInv'
      OBVIOUS
    <2>1. CASE SessionNext
      BY <2>1, ResolveKeeps, AppendKeeps, QueryKeeps, ClearKeeps DEF SessionNext
    <2>2. CASE UNCHANGED sessionVars
      BY <2>2 DEF sessionVars, SessionInv, SessionTypes, StoreCoherent, RememberedExtend,
         ResolvedExtend
    <2> QED BY <2>1, <2>2 DEF Next
  <1>3. SessionInv => SessionsAreSound
    <2> SUFFICES ASSUME SessionInv PROVE InferredIsOneConversation
      BY DEF SessionInv, SessionsAreSound
    <2>1. DOMAIN resolved \subseteq Calls
      BY DEF SessionInv, SessionTypes
    <2> QED BY <2>1 DEF SessionInv, ResolvedExtend, InferredIsOneConversation
  <1> QED BY <1>1, <1>2, <1>3, PTL DEF Spec

-----------------------------------------------------------------------------
(* The trace store *)

Recs == [scope : Scopes, t : 0 .. ClockMax, blocks : Chains \cup {<<>>}]
Traced == [scope : Scopes, t : 0 .. ClockMax, chain : Chains \cup {<<>>},
           at : {"sent", "judged"}] \cup {Done}
HeldIn(s) == {i \in Slots : Held(i) /\ ring[i].record.scope = s}

TraceTypes ==
    /\ ring \in [Slots -> [generation : Nat, record : {None} \cup Recs]]
    /\ next \in Nat /\ clock \in 0 .. ClockMax
    /\ scope_count \in [Scopes -> Nat]
    /\ records \in Seq(Requests)
    /\ by_session \in [Sessions -> Seq(Requests)]
    /\ DOMAIN requests \subseteq Requests /\ requests \in [DOMAIN requests -> Traced]

(* The index leads to every record the ring holds, and nowhere else.       *)
IndexLeads ==
    /\ \A r \in index : r.slot \in Slots
    /\ \A i \in Slots : Held(i) => RefsTo(i, ring[i].record, ring[i].generation) \subseteq index

(* A request that was recorded is done, so it is not recorded again.       *)
RecordedOnce ==
    \A c \in Range(records) \cup orphans : c \in DOMAIN requests /\ requests[c] = Done

TraceInv == TraceTypes /\ IndexLeads /\ RecordedOnce /\ CountsAreLive

LEMMA NoRecordIsNone ==
  \A rec \in Recs : rec # None /\ rec.scope \in Scopes /\ rec.t \in Nat
  BY TraceAssumption DEF Recs, None

LEMMA ChainsAreSequences ==
  ASSUME NEW chain \in Chains \cup {<<>>}
  PROVE  chain \in Seq(Range(chain)) /\ Len(chain) \in Nat
  <1>1. CASE chain = <<>>
    BY <1>1
  <1>2. CASE chain \in Chains
    BY <1>2, TraceAssumption
  <1> QED BY <1>1, <1>2

LEMMA MaxProperty ==
  ASSUME NEW b \in Nat, NEW S \in SUBSET (0 .. b), S # {}
  PROVE  Max(S) \in S /\ \A y \in S : y =< Max(S)
  <1> DEFINE T == {b - x : x \in S}
  <1>0. \A x \in S : b - x \in Nat
    OBVIOUS
  <1>1. T \in SUBSET Nat /\ T # {}
    BY <1>0
  <1>2. PICK m \in T : \A y \in T : m =< y
    BY <1>1, LeastExists
  <1>3. PICK x \in S : m = b - x
    BY <1>2
  <1>4. \A y \in S : x >= y
    <2> TAKE y \in S
    <2>1. b - y \in T
      OBVIOUS
    <2>2. m =< b - y
      BY <1>2, <2>1
    <2> QED BY <1>3, <2>2
  <1>5. Max(S) \in S /\ \A y \in S : Max(S) >= y
    BY <1>4 DEF Max
  <1> QED BY <1>5

LEMMA SharedBlocks ==
  ASSUME NEW a \in Chains \cup {<<>>}, NEW chain \in Chains \cup {<<>>}
  PROVE  CommonPrefixBlocks(a, chain) \in 0 .. Len(chain)
  <1> DEFINE n == Min({Len(a), Len(chain)})
             differs == {i \in 1 .. n : a[i] # chain[i]}
  <1>0. Len(a) \in Nat /\ Len(chain) \in Nat
    BY ChainsAreSequences
  <1>1. n \in {Len(a), Len(chain)} /\ n =< Len(chain)
    <2>1. {Len(a), Len(chain)} \in SUBSET Nat /\ {Len(a), Len(chain)} # {}
      BY <1>0
    <2> QED BY <2>1, MinProperty
  <1>2. n \in 0 .. Len(chain)
    BY <1>0, <1>1
  <1>3. CASE differs = {}
    BY <1>2, <1>3 DEF CommonPrefixBlocks
  <1>4. CASE differs # {}
    <2>1. CommonPrefixBlocks(a, chain) = Min(differs) - 1
      BY <1>4 DEF CommonPrefixBlocks
    <2> HIDE DEF n
    <2>2. differs \in SUBSET Nat
      BY <1>2
    <2>3. Min(differs) \in differs
      BY <1>4, <2>2, MinProperty
    <2>4. Min(differs) \in 1 .. n
      BY <2>3
    <2> HIDE DEF differs
    <2> QED BY <1>0, <1>2, <2>1, <2>4
  <1> QED BY <1>3, <1>4

(* max_by_key finds a record: the longest prefix, then the latest.         *)
LEMMA BestIs ==
  ASSUME NEW found \in SUBSET Recs, found # {}, NEW chain \in Chains
  PROVE  LET shared == {CommonPrefixBlocks(rec.blocks, chain) : rec \in found}
             longest == {rec \in found : CommonPrefixBlocks(rec.blocks, chain) = Max(shared)}
         IN  /\ Best(found, chain) \in found
             /\ CommonPrefixBlocks(Best(found, chain).blocks, chain) = Max(shared)
             /\ Best(found, chain).t = Max({rec.t : rec \in longest})
  <1> DEFINE len(rec) == CommonPrefixBlocks(rec.blocks, chain)
             shared == {len(rec) : rec \in found}
             longest == {rec \in found : len(rec) = Max(shared)}
             times == {rec.t : rec \in longest}
             best == Best(found, chain)
  <1>1. \A rec \in found : len(rec) \in 0 .. Len(chain) /\ rec.t \in 0 .. ClockMax
    BY SharedBlocks DEF Recs
  <1>2. Len(chain) \in Nat /\ ClockMax \in Nat
    BY ChainsAreSequences, TraceAssumption
  <1> HIDE DEF len
  <1>3. Max(shared) \in shared /\ \A rec \in found : len(rec) =< Max(shared)
    <2>1. shared \in SUBSET (0 .. Len(chain)) /\ shared # {}
      BY <1>1
    <2>2. Max(shared) \in shared /\ \A y \in shared : y =< Max(shared)
      BY <2>1, <1>2, MaxProperty
    <2> QED BY <2>2
  <1>4. longest # {}
    BY <1>3
  <1>5. Max(times) \in times /\ \A rec \in longest : rec.t =< Max(times)
    <2>1. times \in SUBSET (0 .. ClockMax) /\ times # {}
      BY <1>1, <1>4
    <2>2. Max(times) \in times /\ \A y \in times : y =< Max(times)
      BY <2>1, <1>2, MaxProperty
    <2> QED BY <2>2
  <1>6. PICK x \in longest : x.t = Max(times)
    BY <1>5
  <1> DEFINE Wins(r) == \A o \in found : len(r) > len(o) \/ (len(r) = len(o) /\ r.t >= o.t)
  <1>7. Wins(x)
    <2> TAKE o \in found
    <2>1. len(x) \in Nat /\ len(o) \in Nat /\ len(x) = Max(shared) /\ len(o) =< len(x)
          /\ x.t \in Nat /\ o.t \in Nat
      BY <1>1, <1>3
    <2>2. CASE len(o) = len(x)
      <3>1. o \in longest
        BY <2>1, <2>2
      <3>2. o.t =< x.t
        BY <1>5, <1>6, <3>1
      <3> QED BY <2>1, <2>2, <3>2
    <2> QED BY <2>1, <2>2
  <1>8. best = CHOOSE r \in found : Wins(r)
    BY DEF Best, len
  <1>9. best \in found /\ Wins(best)
    BY <1>7, <1>8
  <1> HIDE DEF best
  <1>10. len(best) = Max(shared)
    <2>1. x \in found /\ len(x) = Max(shared) /\ len(best) =< Max(shared)
      BY <1>3, <1>9
    <2>2. len(best) > len(x) \/ len(best) = len(x)
      BY <1>9, <2>1
    <2>3. len(best) \in Nat /\ len(x) \in Nat
      BY <1>1, <1>9
    <2> QED BY <2>1, <2>2, <2>3
  <1>11. best.t = Max(times)
    <2>1. best \in longest
      BY <1>9, <1>10
    <2>2. best.t =< Max(times)
      BY <1>5, <2>1
    <2>3. x \in found /\ len(x) = len(best) /\ len(x) \in Nat
      BY <1>1, <1>10
    <2>4. best.t >= x.t
      BY <1>9, <2>3
    <2>5. best.t \in Nat /\ x.t \in Nat
      BY <1>1, <1>9, <2>3
    <2> QED BY <1>6, <2>2, <2>4, <2>5
  <1> QED BY <1>9, <1>10, <1>11 DEF len, best

(* The records that the references of a first block lead to are those of   *)
(* the ring that start with it: a stale reference leads to none, and every *)
(* record has one.                                                         *)
LEMMA CandidatesAre ==
  ASSUME TraceTypes, IndexLeads, NEW scope, NEW first
  PROVE  Candidates(scope, first) =
            {ring[i].record : i \in {j \in Slots : Held(j) /\
                Verified(ring[j].record, scope, first)}}
  <1> DEFINE live == {q \in RefsOf(scope, first) \ Tombstones(scope, first) :
                        Held(q.slot) /\ Verified(ring[q.slot].record, scope, first)}
             held == {j \in Slots : Held(j) /\ Verified(ring[j].record, scope, first)}
  <1>1. ASSUME NEW q \in live
        PROVE  q.slot \in held
    BY <1>1 DEF RefsOf, IndexLeads
  <1>2. ASSUME NEW i \in held
        PROVE  \E q \in live : q.slot = i
    <2> DEFINE rec == ring[i].record
               r == [scope |-> rec.scope, key |-> Low64(rec.blocks[1]), slot |-> i,
                     generation |-> ring[i].generation, block |-> 1 - 1]
    <2>1. /\ i \in Slots /\ Held(i) /\ rec \in Recs
          /\ rec.scope = scope /\ rec.blocks # <<>> /\ rec.blocks[1] = first
      BY <1>2 DEF Held, Verified, TraceTypes
    <2>2. 1 \in 1 .. Len(rec.blocks)
      <3>1. rec.blocks \in Chains
        BY <2>1 DEF Recs
      <3>2. rec.blocks \in Seq(Range(rec.blocks)) /\ rec.blocks # <<>>
        BY <3>1, ChainsAreSequences, <2>1
      <3> QED BY <3>2
    <2>3. r \in RefsTo(i, rec, ring[i].generation)
      BY <2>2 DEF RefsTo
    <2>4. r \in index
      BY <2>1, <2>3 DEF IndexLeads
    <2>5. r.slot = i /\ r.scope = scope /\ r.key = Low64(first) /\ r.block = 0
          /\ r.generation = ring[i].generation
      BY <2>1
    <2> HIDE DEF r
    <2>6. r \in RefsOf(scope, first) \ Tombstones(scope, first)
      BY <2>4, <2>5 DEF RefsOf, Tombstones
    <2>7. r \in live
      BY <1>2, <2>5, <2>6
    <2> QED BY <2>5, <2>7
  <1>3. Candidates(scope, first) = {ring[q.slot].record : q \in live}
    BY DEF Candidates
  <1> HIDE DEF live, held
  <1>4. {ring[q.slot].record : q \in live} = {ring[i].record : i \in held}
    <2>1. ASSUME NEW x \in {ring[q.slot].record : q \in live}
          PROVE  x \in {ring[i].record : i \in held}
      BY <1>1, <2>1
    <2>2. ASSUME NEW x \in {ring[i].record : i \in held}
          PROVE  x \in {ring[q.slot].record : q \in live}
      BY <1>2, <2>2
    <2> QED BY <2>1, <2>2
  <1> QED BY <1>3, <1>4 DEF held

LEMMA LookupsAreExact ==
  ASSUME TraceTypes, IndexLeads
  PROVE  LookupIsExact
  <1> SUFFICES ASSUME NEW scope \in Scopes, NEW chain \in Chains
               PROVE  Lookup(scope, chain) = Reference(scope, chain)
    BY DEF LookupIsExact
  <1> DEFINE all == Candidates(scope, chain[1])
             fresh == {rec \in all : ~Expired(rec, clock)}
             shared == {CommonPrefixBlocks(rec.blocks, chain) : rec \in fresh}
             longest == {rec \in fresh : CommonPrefixBlocks(rec.blocks, chain) = Max(shared)}
  <1>1. chain # <<>>
    BY TraceAssumption
  <1>2. all = {ring[i].record : i \in {j \in Slots : Held(j) /\
                  Verified(ring[j].record, scope, chain[1])}}
    BY CandidatesAre
  <1>3. all \in SUBSET Recs
    BY <1>2 DEF Held, TraceTypes
  <1>4. Reference(scope, chain) =
          IF fresh = {} THEN [blocks |-> 0, t |-> -1, expired |-> all # {}]
          ELSE [blocks |-> Max(shared), t |-> Max({rec.t : rec \in longest}), expired |-> FALSE]
    BY <1>2 DEF Reference
  <1>5. Lookup(scope, chain) =
          IF fresh = {} THEN [blocks |-> 0, t |-> -1, expired |-> all # {}]
          ELSE [blocks |-> CommonPrefixBlocks(Best(fresh, chain).blocks, chain),
                t |-> Best(fresh, chain).t, expired |-> FALSE]
    BY <1>1 DEF Lookup
  <1>6. CASE fresh = {}
    BY <1>4, <1>5, <1>6
  <1>7. CASE fresh # {}
    <2>1. fresh \in SUBSET Recs
      BY <1>3
    <2> HIDE DEF all, fresh
    <2>2. /\ CommonPrefixBlocks(Best(fresh, chain).blocks, chain) = Max(shared)
          /\ Best(fresh, chain).t = Max({rec.t : rec \in longest})
      BY <1>7, <2>1, BestIs
    <2> HIDE DEF shared, longest
    <2> QED BY <1>4, <1>5, <1>7, <2>2
  <1> QED BY <1>6, <1>7

LEMMA OldestIs ==
  ASSUME TraceTypes, NEW s \in Scopes, HeldIn(s) # {}
  PROVE  OldestIn(s) \in HeldIn(s)
  <1> DEFINE time(i) == ring[i].record.t
             times == {time(i) : i \in HeldIn(s)}
  <1>1. \A i \in HeldIn(s) : time(i) \in Nat /\ i \in Nat
    <2> TAKE i \in HeldIn(s)
    <2>1. i \in Slots /\ ring[i].record \in Recs
      BY DEF HeldIn, Held, TraceTypes
    <2> QED BY <2>1, NoRecordIsNone DEF Slots
  <1> HIDE DEF time
  <1>2. times \in SUBSET Nat /\ times # {}
    BY <1>1
  <1>3. PICK m \in times : \A y \in times : m =< y
    BY <1>2, LeastExists
  <1> DEFINE first == {i \in HeldIn(s) : time(i) = m}
  <1>4. first \in SUBSET Nat /\ first # {}
    BY <1>1, <1>3
  <1>5. PICK x \in first : \A y \in first : x =< y
    BY <1>4, LeastExists
  <1>6. \A j \in HeldIn(s) : time(x) < time(j) \/ (time(x) = time(j) /\ x =< j)
    <2> TAKE j \in HeldIn(s)
    <2>1. m =< time(j) /\ time(x) = m /\ m \in Nat /\ time(j) \in Nat
      BY <1>1, <1>2, <1>3
    <2>2. CASE time(j) = m
      <3>1. j \in first
        BY <2>2
      <3> QED BY <1>5, <2>1, <2>2, <3>1
    <2> QED BY <2>1, <2>2
  <1>7. OldestIn(s) = CHOOSE i \in HeldIn(s) : \A j \in HeldIn(s) :
                        time(i) < time(j) \/ (time(i) = time(j) /\ i =< j)
    BY DEF OldestIn, HeldIn, time
  <1> QED BY <1>6, <1>7

LEMMA HeldIsFinite ==
  ASSUME NEW S \in SUBSET Slots
  PROVE  IsFiniteSet(S) /\ Cardinality(S) \in Nat
  <1>1. 0 \in Int /\ Cap - 1 \in Int
    BY TraceAssumption
  <1>2. IsFiniteSet(Slots)
    BY <1>1, FS_Interval DEF Slots
  <1> QED BY <1>2, FS_Subset, FS_CardinalityType

(* insert: what the ring holds after it, in steps: what the scope's cap    *)
(* takes out, what the slot held, and the new record.                      *)
LEMMA InsertKeeps ==
  ASSUME TraceTypes, IndexLeads, NEW rec \in Recs, Insert(rec),
         \A s \in Scopes : scope_count[s] <= PerScopeCap
                           /\ scope_count[s] = Cardinality(HeldIn(s))
  PROVE  /\ ring' \in [Slots -> [generation : Nat, record : {None} \cup Recs]]
         /\ next' \in Nat /\ scope_count' \in [Scopes -> Nat] /\ IndexLeads'
         /\ \A s \in Scopes : scope_count'[s] <= PerScopeCap
                              /\ scope_count'[s] = Cardinality(HeldIn(s)')
  <1> DEFINE full == scope_count[rec.scope] >= PerScopeCap
             oldest == OldestIn(rec.scope)
             freed == IF full
                      THEN [ring EXCEPT ![oldest] =
                               [generation |-> Bump(@.generation), record |-> None]]
                      ELSE ring
             slot == next % Cap
             generation == Bump(freed[slot].generation)
             over == freed[slot].record
             Ring == [Slots -> [generation : Nat, record : {None} \cup Recs]]
  <1>0. /\ Cap \in Nat \ {0} /\ PerScopeCap \in Nat \ {0} /\ Generations \in Nat \ {0}
        /\ next \in Nat /\ rec.scope \in Scopes /\ rec # None
        /\ ring \in Ring /\ scope_count \in [Scopes -> Nat] /\ None \notin Recs
    BY TraceAssumption, NoRecordIsNone DEF TraceTypes
  <1>1. /\ next' = next + 1
        /\ ring' = [freed EXCEPT ![slot] = [generation |-> generation, record |-> rec]]
        /\ index' = index \cup RefsTo(slot, rec, generation)
        /\ scope_count' = [s \in Scopes |-> scope_count[s]
              - (IF full /\ s = rec.scope THEN 1 ELSE 0)
              - (IF over # None /\ s = over.scope THEN 1 ELSE 0)
              + (IF s = rec.scope THEN 1 ELSE 0)]
    BY DEF Insert
  <1>2. slot \in Slots
    BY <1>0 DEF Slots
  <1>3. \A g \in Nat : Bump(g) \in Nat
    BY <1>0 DEF Bump
  <1>4. full => oldest \in HeldIn(rec.scope)
    <2> SUFFICES ASSUME full PROVE HeldIn(rec.scope) # {}
      BY <1>0, OldestIs
    <2>1. Cardinality(HeldIn(rec.scope)) # 0
      BY <1>0
    <2> QED BY <2>1, FS_EmptySet
  <1>5. full => oldest \in Slots
    BY <1>4 DEF HeldIn
  <1> HIDE DEF full, oldest, slot
  <1>6. /\ freed \in Ring
        /\ \A i \in Slots : freed[i] = ring[i] \/ (full /\ i = oldest /\ freed[i].record = None)
        /\ full => freed[oldest].record = None
    <2>1. CASE ~full
      BY <2>1, <1>0
    <2>2. CASE full
      <3>1. Bump(ring[oldest].generation) \in Nat
        BY <1>0, <1>3, <1>5, <2>2
      <3> QED BY <2>2, <3>1, <1>0, <1>5
    <2> QED BY <2>1, <2>2
  <1> HIDE DEF freed
  <1>7. generation \in Nat
    BY <1>2, <1>3, <1>6
  <1> HIDE DEF generation
  <1>8. /\ ring' \in Ring /\ ring'[slot] = [generation |-> generation, record |-> rec]
        /\ \A i \in Slots : i # slot => ring'[i] = freed[i]
    <2>1. [generation |-> generation, record |-> rec] \in [generation : Nat, record : {None} \cup Recs]
      BY <1>7
    <2> QED BY <1>1, <1>2, <1>6, <2>1
  <1>9. IndexLeads'
    <2>1. \A r \in RefsTo(slot, rec, generation) : r.slot \in Slots
      BY <1>2 DEF RefsTo
    <2>2. \A r \in index' : r.slot \in Slots
      BY <1>1, <2>1 DEF IndexLeads
    <2>3. ASSUME NEW i \in Slots, ring'[i].record # None
          PROVE  RefsTo(i, ring'[i].record, ring'[i].generation) \subseteq index'
      <3>1. CASE i = slot
        BY <1>1, <1>8, <3>1
      <3>2. CASE i # slot
        <4>1. ring'[i] = ring[i] /\ Held(i)
          BY <1>6, <1>8, <2>3, <3>2 DEF Held
        <4> QED BY <1>1, <4>1 DEF IndexLeads
      <3> QED BY <3>1, <3>2
    <2> QED BY <2>2, <2>3 DEF IndexLeads, Held
  <1>10. ASSUME NEW s \in Scopes
         PROVE  /\ scope_count'[s] \in Nat /\ scope_count'[s] <= PerScopeCap
                /\ scope_count'[s] = Cardinality(HeldIn(s)')
    <2> DEFINE H0 == HeldIn(s)
               H1 == {i \in Slots : freed[i].record # None /\ freed[i].record.scope = s}
               H2 == H1 \ {slot}
               H3 == HeldIn(s)'
               gone == IF full /\ s = rec.scope THEN 1 ELSE 0
               lost == IF over # None /\ s = over.scope THEN 1 ELSE 0
               new == IF s = rec.scope THEN 1 ELSE 0
    <2>1. H3 = {i \in Slots : ring'[i].record # None /\ ring'[i].record.scope = s}
      BY DEF HeldIn, Held
    <2>2. /\ H0 \in SUBSET Slots /\ H1 \in SUBSET Slots /\ H2 \in SUBSET Slots
      BY DEF HeldIn
    <2>3. /\ IsFiniteSet(H0) /\ IsFiniteSet(H1) /\ IsFiniteSet(H2)
          /\ Cardinality(H0) \in Nat /\ Cardinality(H1) \in Nat /\ Cardinality(H2) \in Nat
      BY <2>2, HeldIsFinite
    <2>4. Cardinality(H1) = Cardinality(H0) - gone
      <3>1. CASE full /\ s = rec.scope
        <4>1. H1 = H0 \ {oldest} /\ oldest \in H0
          BY <3>1, <1>4, <1>6 DEF HeldIn, Held
        <4> HIDE DEF H0, H1
        <4>2. Cardinality(H0 \ {oldest}) = Cardinality(H0) - 1
          BY <4>1, <2>3, FS_RemoveElement
        <4> QED BY <3>1, <4>1, <4>2
      <3>2. CASE ~(full /\ s = rec.scope)
        <4>1. H1 = H0
          <5>1. full => ring[oldest].record.scope # s
            BY <3>2, <1>4 DEF HeldIn
          <5> QED BY <5>1, <1>6 DEF HeldIn, Held
        <4>2. gone = 0
          BY <3>2
        <4> HIDE DEF H0, H1, gone
        <4> QED BY <4>1, <4>2, <2>3
      <3> QED BY <3>1, <3>2
    <2>5. Cardinality(H2) = Cardinality(H1) - lost
      <3>1. slot \in H1 <=> (over # None /\ s = over.scope)
        BY <1>2
      <3> HIDE DEF H1, over
      <3>2. CASE slot \in H1
        <4>1. Cardinality(H1 \ {slot}) = Cardinality(H1) - 1
          BY <3>2, <2>3, FS_RemoveElement
        <4> QED BY <3>1, <3>2, <4>1
      <3>3. CASE slot \notin H1
        <4>1. H2 = H1 /\ lost = 0
          BY <3>1, <3>3
        <4> HIDE DEF H2, lost
        <4> QED BY <4>1, <2>3
      <3> QED BY <3>2, <3>3
    <2>6. Cardinality(H3) = Cardinality(H2) + new
      <3>1. CASE s = rec.scope
        <4>1. H3 = H2 \cup {slot} /\ slot \notin H2
          BY <2>1, <3>1, <1>0, <1>2, <1>8
        <4> HIDE DEF H2, H3
        <4>2. Cardinality(H2 \cup {slot}) = Cardinality(H2) + 1
          BY <4>1, <2>3, FS_AddElement
        <4> QED BY <3>1, <4>1, <4>2
      <3>2. CASE s # rec.scope
        <4>1. H3 = H2
          BY <2>1, <3>2, <1>2, <1>8
        <4> QED BY <3>2, <4>1, <2>3
      <3> QED BY <3>1, <3>2
    <2>7. scope_count'[s] = scope_count[s] - gone - lost + new
      BY <1>1
    <2>8. scope_count[s] = Cardinality(H0) /\ scope_count[s] <= PerScopeCap
      OBVIOUS
    <2>9. gone \in {0, 1} /\ lost \in {0, 1} /\ new \in {0, 1}
      OBVIOUS
    <2>10. new = 1 /\ gone = 0 => scope_count[s] < PerScopeCap
      BY <1>0 DEF full
    <2> HIDE DEF H0, H1, H2, H3, gone, lost, new
    <2>11. scope_count'[s] = Cardinality(H3) /\ scope_count'[s] \in Nat
      BY <2>3, <2>4, <2>5, <2>6, <2>7, <2>8, <2>9
    <2>12. scope_count'[s] <= PerScopeCap
      BY <1>0, <2>3, <2>7, <2>8, <2>9, <2>10
    <2> QED BY <2>11, <2>12 DEF H3
  <1>11. scope_count' \in [Scopes -> Nat]
    BY <1>1, <1>10
  <1> QED BY <1>0, <1>1, <1>8, <1>9, <1>10, <1>11

(* The lists of ids, for any two sequences: ids lists what recs keeps of a *)
(* session, but for the orphans.                                           *)
Lists(ids, recs, lone, s) ==
    /\ Range(ids) = {c \in Range(recs) : SessionsOf[c] = s /\ c \notin lone}
    /\ \A i, j \in DOMAIN ids : i < j =>
          \E k, l \in DOMAIN recs : k < l /\ recs[k] = ids[i] /\ recs[l] = ids[j]

LEMMA TailIs ==
  ASSUME NEW S, NEW q \in Seq(S), q # <<>>
  PROVE  /\ Tail(q) \in Seq(S) /\ Len(Tail(q)) = Len(q) - 1 /\ Len(q) \in Nat \ {0}
         /\ DOMAIN q = 1 .. Len(q) /\ DOMAIN Tail(q) = 1 .. Len(q) - 1
         /\ \A i \in 1 .. Len(q) - 1 : Tail(q)[i] = q[i + 1]
         /\ Head(q) = q[1] /\ Range(q) = Range(Tail(q)) \cup {Head(q)}
  <1>1. /\ Tail(q) \in Seq(S) /\ Len(Tail(q)) = Len(q) - 1 /\ Len(q) \in Nat \ {0}
        /\ \A i \in 1 .. Len(q) - 1 : Tail(q)[i] = q[i + 1]
        /\ Head(q) = q[1]
    OBVIOUS
  <1>2. DOMAIN q = 1 .. Len(q) /\ DOMAIN Tail(q) = 1 .. Len(q) - 1
    BY <1>1
  <1> DEFINE len == Len(q)
  <1>3. len \in Nat \ {0}
    BY <1>1
  <1>4. \A i \in 1 .. len : i = 1 \/ (i - 1 \in 1 .. len - 1 /\ i - 1 + 1 = i)
    BY <1>3
  <1>5. \A i \in 1 .. len - 1 : i + 1 \in 1 .. len
    BY <1>3
  <1>6. 1 \in 1 .. len
    BY <1>3
  <1>7. Range(q) \subseteq Range(Tail(q)) \cup {Head(q)}
    <2> SUFFICES ASSUME NEW i \in 1 .. len
                 PROVE  q[i] \in Range(Tail(q)) \cup {Head(q)}
      BY <1>2 DEF Range
    <2>1. CASE i = 1
      BY <2>1, <1>1
    <2>2. CASE i - 1 \in 1 .. len - 1 /\ i - 1 + 1 = i
      <3>1. Tail(q)[i - 1] = q[i]
        BY <2>2, <1>1
      <3> QED BY <2>2, <3>1, <1>2 DEF Range
    <2> QED BY <1>4, <2>1, <2>2
  <1>8. Range(Tail(q)) \cup {Head(q)} \subseteq Range(q)
    BY <1>1, <1>2, <1>5, <1>6 DEF Range
  <1> QED BY <1>1, <1>2, <1>7, <1>8

LEMMA AppendIs ==
  ASSUME NEW S, NEW q \in Seq(S), NEW c \in S
  PROVE  /\ Append(q, c) \in Seq(S) /\ Len(q) \in Nat
         /\ DOMAIN q = 1 .. Len(q) /\ DOMAIN Append(q, c) = 1 .. Len(q) + 1
         /\ \A i \in 1 .. Len(q) : Append(q, c)[i] = q[i]
         /\ Append(q, c)[Len(q) + 1] = c
         /\ Range(Append(q, c)) = Range(q) \cup {c}
         /\ \A i \in 1 .. Len(q) + 1 : i \in 1 .. Len(q) \/ i = Len(q) + 1
         /\ \A i \in 1 .. Len(q) : i \in 1 .. Len(q) + 1 /\ i < Len(q) + 1
         /\ Len(q) + 1 \in 1 .. Len(q) + 1
  <1>1. /\ Append(q, c) \in Seq(S) /\ Len(q) \in Nat
        /\ DOMAIN q = 1 .. Len(q) /\ DOMAIN Append(q, c) = 1 .. Len(q) + 1
        /\ \A i \in 1 .. Len(q) : Append(q, c)[i] = q[i]
        /\ Append(q, c)[Len(q) + 1] = c
    OBVIOUS
  <1> DEFINE len == Len(q)
  <1>2. \A i \in 1 .. len + 1 : i \in 1 .. len \/ i = len + 1
    BY <1>1
  <1>3. \A i \in 1 .. len : i \in 1 .. len + 1 /\ i < len + 1
    BY <1>1
  <1>4. len + 1 \in 1 .. len + 1
    BY <1>1
  <1>5. Range(Append(q, c)) \subseteq Range(q) \cup {c}
    BY <1>1, <1>2 DEF Range
  <1>6. Range(q) \cup {c} \subseteq Range(Append(q, c))
    BY <1>1, <1>3, <1>4 DEF Range
  <1> QED BY <1>1, <1>2, <1>3, <1>4, <1>5, <1>6

LEMMA FirstNaturals ==
  ASSUME NEW n \in Nat
  PROVE  IsFiniteSet(1 .. n) /\ Cardinality(1 .. n) = n
  <1>1. IsFiniteSet(1 .. n) /\ Cardinality(1 .. n) = IF 1 > n THEN 0 ELSE n - 1 + 1
    BY FS_Interval
  <1>2. 1 > n => n = 0
    OBVIOUS
  <1>3. n - 1 + 1 = n
    OBVIOUS
  <1> QED BY <1>1, <1>2, <1>3

(* retain leaves the ids of other calls, in their order.                   *)
LEMMA RetainIs ==
  ASSUME NEW S, NEW ids \in Seq(S), NEW old
  PROVE  LET left == Retain(ids, old)
         IN  /\ left \in Seq(S)
             /\ Range(left) = {x \in Range(ids) : ~SameCall(x, old)}
             /\ \E f \in [DOMAIN left -> DOMAIN ids] :
                  /\ \A i \in DOMAIN left : left[i] = ids[f[i]]
                  /\ \A i, j \in DOMAIN left : i < j => f[i] < f[j]
  <1> DEFINE n == Len(ids)
             at == {i \in 1 .. n : ~SameCall(ids[i], old)}
             N == Cardinality(at)
             upto(i) == {j \in at : j <= i}
             rank == [i \in at |-> Cardinality(upto(i))]
             Nth(k) == CHOOSE i \in at : Cardinality(upto(i)) = k
             left == Retain(ids, old)
  <1>0. n \in Nat /\ DOMAIN ids = 1 .. n /\ \A i \in 1 .. n : ids[i] \in S
    OBVIOUS
  <1>1. left = [k \in 1 .. N |-> ids[Nth(k)]]
    BY <1>0 DEF Retain
  <1>2. IsFiniteSet(1 .. n)
    BY <1>0, FirstNaturals
  <1>3. IsFiniteSet(at) /\ N \in Nat
    BY <1>2, FS_Subset, FS_CardinalityType
  <1>4. ASSUME NEW i \in at
        PROVE  upto(i) \in SUBSET at /\ i \in upto(i) /\ i \in Nat
    BY <1>0
  <1>5. ASSUME NEW i \in at
        PROVE  /\ IsFiniteSet(upto(i)) /\ Cardinality(upto(i)) \in 1 .. N
               /\ Cardinality(upto(i)) \in Nat
    <2>1. IsFiniteSet(upto(i)) /\ Cardinality(upto(i)) <= N
      BY <1>3, <1>4, FS_Subset
    <2>2. Cardinality(upto(i)) \in Nat /\ Cardinality(upto(i)) # 0
      BY <1>4, <2>1, FS_CardinalityType, FS_EmptySet
    <2> HIDE DEF upto, N
    <2> QED BY <1>3, <2>1, <2>2
  <1>6. ASSUME NEW i \in at, NEW j \in at, i < j
        PROVE  Cardinality(upto(i)) < Cardinality(upto(j))
    <2>1. upto(i) \in SUBSET upto(j) /\ j \notin upto(i) /\ j \in upto(j)
      BY <1>0, <1>6
    <2>2. IsFiniteSet(upto(j)) /\ Cardinality(upto(j)) \in Nat /\ Cardinality(upto(i)) \in Nat
      BY <1>5
    <2>3. /\ Cardinality(upto(i)) <= Cardinality(upto(j))
          /\ Cardinality(upto(i)) = Cardinality(upto(j)) => upto(i) = upto(j)
      BY <2>1, <2>2, FS_Subset
    <2> HIDE DEF upto
    <2> QED BY <2>1, <2>2, <2>3
  <1>7. \A i, j \in at : rank[i] \in Nat /\ rank[j] \in Nat /\ i \in Nat /\ j \in Nat
                         /\ (i < j => rank[i] < rank[j])
    <2> SUFFICES ASSUME NEW i \in at, NEW j \in at
                 PROVE  rank[i] \in Nat /\ rank[j] \in Nat /\ i \in Nat /\ j \in Nat
                        /\ (i < j => rank[i] < rank[j])
      OBVIOUS
    <2>1. rank[i] = Cardinality(upto(i)) /\ rank[j] = Cardinality(upto(j))
      OBVIOUS
    <2>2. i \in Nat /\ j \in Nat /\ Cardinality(upto(i)) \in Nat /\ Cardinality(upto(j)) \in Nat
      BY <1>4, <1>5
    <2>3. i < j => Cardinality(upto(i)) < Cardinality(upto(j))
      BY <1>6
    <2> HIDE DEF upto, rank, at
    <2> QED BY <2>1, <2>2, <2>3
  <1>8. rank \in [at -> 1 .. N]
    BY <1>5
  <1>9. \A i \in at : rank[i] = Cardinality(upto(i))
    OBVIOUS
  <1> HIDE DEF rank, at, upto, N, n, left
  <1>10. \A i, j \in at : rank[i] = rank[j] => i = j
    BY <1>7
  <1>11. rank \in Injection(at, 1 .. N)
    BY <1>8, <1>10 DEF Injection, IsInjective
  <1>12. IsFiniteSet(1 .. N) /\ Cardinality(1 .. N) = N
    BY <1>3, FirstNaturals
  <1>13. rank \in Surjection(at, 1 .. N)
    BY <1>11, <1>12, FS_Injection DEF N
  <1>14. ASSUME NEW k \in 1 .. N PROVE Nth(k) \in at /\ rank[Nth(k)] = k
    <2>1. \E i \in at : Cardinality(upto(i)) = k
      BY <1>9, <1>13 DEF Surjection
    <2> QED BY <1>9, <2>1
  <1> HIDE DEF Nth
  <1>15. \A i \in at : rank[i] \in 1 .. N /\ Nth(rank[i]) = i
    BY <1>8, <1>10, <1>14
  <1>16. at = {i \in 1 .. n : ~SameCall(ids[i], old)}
    BY DEF at
  <1>17. \A k \in 1 .. N : ids[Nth(k)] \in S
    BY <1>0, <1>14, <1>16
  <1>18. left \in Seq(S) /\ DOMAIN left = 1 .. N
    BY <1>1, <1>3, <1>17
  <1>19. Range(left) = {x \in Range(ids) : ~SameCall(x, old)}
    <2>1. ASSUME NEW i \in at PROVE ids[i] \in Range(left)
      <3>1. rank[i] \in 1 .. N /\ left[rank[i]] = ids[i]
        BY <1>1, <1>15
      <3> QED BY <1>18, <3>1 DEF Range
    <2>2. ASSUME NEW k \in 1 .. N
          PROVE  left[k] \in Range(ids) /\ ~SameCall(left[k], old)
      BY <1>0, <1>1, <1>14, <1>16 DEF Range
    <2>3. \A x \in Range(left) : x \in Range(ids) /\ ~SameCall(x, old)
      BY <1>18, <2>2 DEF Range
    <2>4. \A x \in Range(ids) : ~SameCall(x, old) => x \in Range(left)
      BY <1>0, <1>16, <2>1 DEF Range
    <2> QED BY <2>3, <2>4
  <1>20. \E f \in [1 .. N -> 1 .. n] :
            /\ \A i \in 1 .. N : left[i] = ids[f[i]]
            /\ \A i, j \in 1 .. N : i < j => f[i] < f[j]
    <2> DEFINE f == [k \in 1 .. N |-> Nth(k)]
    <2>1. f \in [1 .. N -> 1 .. n] /\ \A i \in 1 .. N : left[i] = ids[f[i]]
      BY <1>1, <1>14, <1>16
    <2>2. ASSUME NEW i \in 1 .. N, NEW j \in 1 .. N, i < j PROVE Nth(i) < Nth(j)
      <3>1. Nth(i) \in at /\ Nth(j) \in at /\ rank[Nth(i)] = i /\ rank[Nth(j)] = j
        BY <1>14
      <3>2. Nth(i) \in Nat /\ Nth(j) \in Nat /\ (Nth(j) < Nth(i) => rank[Nth(j)] < rank[Nth(i)])
        BY <1>7, <3>1
      <3>3. Nth(i) # Nth(j) /\ ~(Nth(j) < Nth(i))
        BY <1>3, <2>2, <3>1, <3>2
      <3> QED BY <3>2, <3>3
    <2>3. \A i, j \in 1 .. N : i < j => f[i] < f[j]
      BY <2>2
    <2> HIDE DEF f
    <2> QED BY <2>1, <2>3
  <1>21. DOMAIN ids = 1 .. n
    BY <1>0
  <1> QED BY <1>18, <1>19, <1>20, <1>21 DEF left

(* pop_front: the list of its session loses the ids of its call, and the   *)
(* records kept of that call there are orphans; the other lists stay.      *)
LEMMA ListsAfterTail ==
  ASSUME NEW S, NEW ids \in Seq(S), NEW recs \in Seq(S), recs # <<>>, IsInjective(recs),
         NEW s, NEW lone, Lists(ids, recs, lone, s)
  PROVE  LET h == Head(recs)
             more == lone \cup {q \in Range(recs) :
                        SameCall(q, h) /\ SessionsOf[q] = SessionsOf[h]}
         IN  /\ IsInjective(Tail(recs)) /\ h \notin Range(Tail(recs))
             /\ SessionsOf[h] = s =>
                   Retain(ids, h) \in Seq(S) /\ Lists(Retain(ids, h), Tail(recs), more, s)
             /\ SessionsOf[h] # s => Lists(ids, Tail(recs), more, s)
  <1> DEFINE n == Len(recs)  h == Head(recs)
             more == lone \cup {q \in Range(recs) :
                        SameCall(q, h) /\ SessionsOf[q] = SessionsOf[h]}
  <1>0. /\ Tail(recs) \in Seq(S) /\ n \in Nat \ {0}
        /\ DOMAIN recs = 1 .. n /\ DOMAIN Tail(recs) = 1 .. n - 1
        /\ \A i \in 1 .. n - 1 : Tail(recs)[i] = recs[i + 1]
        /\ h = recs[1] /\ Range(recs) = Range(Tail(recs)) \cup {h}
    BY TailIs
  <1>m. more = lone \cup {q \in Range(recs) : SameCall(q, h) /\ SessionsOf[q] = SessionsOf[h]}
    OBVIOUS
  <1> HIDE DEF n, h, more
  <1>1. \A i, j \in 1 .. n : recs[i] = recs[j] => i = j
    BY <1>0 DEF IsInjective
  <1>2. /\ \A i \in 1 .. n - 1 : i + 1 \in 1 .. n /\ i + 1 # 1
        /\ \A i \in 1 .. n : i # 1 => i - 1 \in 1 .. n - 1 /\ i - 1 + 1 = i
        /\ 1 \in 1 .. n
    BY <1>0
  <1>3. IsInjective(Tail(recs))
    <2> SUFFICES ASSUME NEW i \in 1 .. n - 1, NEW j \in 1 .. n - 1, Tail(recs)[i] = Tail(recs)[j]
                 PROVE  i = j
      BY <1>0 DEF IsInjective
    <2>1. i + 1 = j + 1
      BY <1>0, <1>1, <1>2
    <2> QED BY <2>1, <1>0
  <1>4. h \notin Range(Tail(recs))
    <2> SUFFICES ASSUME NEW i \in 1 .. n - 1, Tail(recs)[i] = h PROVE FALSE
      BY <1>0 DEF Range
    <2> QED BY <1>0, <1>1, <1>2
  (* Two records in order, the first of them not the oldest, stay in order. *)
  <1>5. ASSUME NEW k \in 1 .. n, NEW l \in 1 .. n, k < l, recs[k] # h
        PROVE  \E x, y \in DOMAIN Tail(recs) : x < y /\ Tail(recs)[x] = recs[k]
                                               /\ Tail(recs)[y] = recs[l]
    <2>1. k # 1 /\ l # 1 /\ k - 1 < l - 1
      BY <1>0, <1>5
    <2>2. /\ k - 1 \in 1 .. n - 1 /\ l - 1 \in 1 .. n - 1
          /\ Tail(recs)[k - 1] = recs[k] /\ Tail(recs)[l - 1] = recs[l]
      BY <1>0, <1>2, <2>1
    <2> QED BY <1>0, <2>1, <2>2
  (* So do two ids of the list, the first of them not the oldest's.         *)
  <1>6. ASSUME NEW i \in DOMAIN ids, NEW j \in DOMAIN ids, i < j, ids[i] # h
        PROVE  \E k, l \in DOMAIN Tail(recs) :
                  k < l /\ Tail(recs)[k] = ids[i] /\ Tail(recs)[l] = ids[j]
    <2>1. PICK k, l \in 1 .. n : k < l /\ recs[k] = ids[i] /\ recs[l] = ids[j]
      BY <1>0, <1>6 DEF Lists
    <2>2. recs[k] # h
      BY <1>6, <2>1
    <2>3. PICK x, y \in DOMAIN Tail(recs) :
             x < y /\ Tail(recs)[x] = recs[k] /\ Tail(recs)[y] = recs[l]
      BY <1>5, <2>1, <2>2
    <2> QED BY <2>1, <2>3
  <1>7. /\ Range(ids) = {c \in Range(recs) : SessionsOf[c] = s /\ c \notin lone}
        /\ \A i \in DOMAIN ids : ids[i] \in Range(ids)
    BY DEF Lists, Range
  <1>8. ASSUME SessionsOf[h] # s
        PROVE  Lists(ids, Tail(recs), more, s)
    <2>1. Range(ids) = {c \in Range(Tail(recs)) : SessionsOf[c] = s /\ c \notin more}
      BY <1>0, <1>7, <1>8, <1>m
    <2>2. \A i \in DOMAIN ids : ids[i] # h
      BY <1>7, <1>8
    <2> QED BY <1>6, <2>1, <2>2 DEF Lists
  <1>9. ASSUME SessionsOf[h] = s
        PROVE  Retain(ids, h) \in Seq(S) /\ Lists(Retain(ids, h), Tail(recs), more, s)
    <2> DEFINE left == Retain(ids, h)
    <2>1. /\ left \in Seq(S) /\ Range(left) = {x \in Range(ids) : ~SameCall(x, h)}
          /\ \E f \in [DOMAIN left -> DOMAIN ids] :
               /\ \A i \in DOMAIN left : left[i] = ids[f[i]]
               /\ \A i, j \in DOMAIN left : i < j => f[i] < f[j]
      BY RetainIs
    <2> HIDE DEF left
    <2>2. SameCall(h, h)
      BY DEF SameCall
    <2>3. Range(left) = {c \in Range(Tail(recs)) : SessionsOf[c] = s /\ c \notin more}
      BY <1>0, <1>4, <1>7, <1>9, <1>m, <2>1, <2>2
    <2>4. PICK f \in [DOMAIN left -> DOMAIN ids] :
             /\ \A i \in DOMAIN left : left[i] = ids[f[i]]
             /\ \A i, j \in DOMAIN left : i < j => f[i] < f[j]
      BY <2>1
    <2>5. ASSUME NEW i \in DOMAIN left, NEW j \in DOMAIN left, i < j
          PROVE  \E k, l \in DOMAIN Tail(recs) :
                    k < l /\ Tail(recs)[k] = left[i] /\ Tail(recs)[l] = left[j]
      <3>1. f[i] \in DOMAIN ids /\ f[j] \in DOMAIN ids /\ f[i] < f[j]
            /\ left[i] = ids[f[i]] /\ left[j] = ids[f[j]]
        BY <2>4, <2>5
      <3>2. left[i] # h
        <4>1. left[i] \in Range(left)
          BY <2>5 DEF Range
        <4> QED BY <2>1, <2>2, <4>1
      <3>3. \E k, l \in DOMAIN Tail(recs) :
               k < l /\ Tail(recs)[k] = ids[f[i]] /\ Tail(recs)[l] = ids[f[j]]
        BY <1>6, <3>1, <3>2
      <3> QED BY <3>1, <3>3
    <2>6. Lists(left, Tail(recs), more, s)
      BY <2>3, <2>5 DEF Lists
    <2> QED BY <2>1, <2>6 DEF left
  <1> QED BY <1>3, <1>4, <1>8, <1>9 DEF h, more

(* push: the new request is the last of its session's list.                *)
LEMMA ListsAfterAppend ==
  ASSUME NEW S, NEW ids \in Seq(S), NEW recs \in Seq(S), IsInjective(recs),
         NEW c \in S, c \notin Range(recs), NEW lone, c \notin lone, NEW s, Lists(ids, recs, lone, s)
  PROVE  /\ IsInjective(Append(recs, c))
         /\ SessionsOf[c] = s => Lists(ids \o <<c>>, Append(recs, c), lone, s)
         /\ SessionsOf[c] # s => Lists(ids \o <<>>, Append(recs, c), lone, s)
  <1> DEFINE n == Len(recs)  more == Append(recs, c)  m == Len(ids)  longer == Append(ids, c)
  <1>0. /\ more \in Seq(S) /\ n \in Nat /\ DOMAIN recs = 1 .. n /\ DOMAIN more = 1 .. n + 1
        /\ \A i \in 1 .. n : more[i] = recs[i]
        /\ more[n + 1] = c /\ Range(more) = Range(recs) \cup {c}
        /\ \A i \in 1 .. n + 1 : i \in 1 .. n \/ i = n + 1
        /\ \A i \in 1 .. n : i \in 1 .. n + 1 /\ i < n + 1
        /\ n + 1 \in 1 .. n + 1
    BY AppendIs
  <1>1. /\ longer \in Seq(S) /\ m \in Nat /\ DOMAIN ids = 1 .. m /\ DOMAIN longer = 1 .. m + 1
        /\ \A i \in 1 .. m : longer[i] = ids[i]
        /\ longer[m + 1] = c /\ Range(longer) = Range(ids) \cup {c}
        /\ \A i \in 1 .. m + 1 : i \in 1 .. m \/ i = m + 1
    BY AppendIs
  <1>2. ids \o <<c>> = longer /\ ids \o <<>> = ids
    BY AppendIsConcat, ConcatEmptySeq
  <1> HIDE DEF n, more, m, longer
  <1>3. IsInjective(more)
    <2>1. \A i, j \in 1 .. n : recs[i] = recs[j] => i = j
      BY <1>0 DEF IsInjective
    <2>2. \A i \in 1 .. n : recs[i] # c
      BY <1>0 DEF Range
    <2> SUFFICES ASSUME NEW i \in 1 .. n + 1, NEW j \in 1 .. n + 1, more[i] = more[j]
                 PROVE  i = j
      BY <1>0 DEF IsInjective
    <2> QED BY <1>0, <2>1, <2>2
  <1>4. \A i, j \in 1 .. m : i < j => \E k, l \in DOMAIN more :
           k < l /\ more[k] = ids[i] /\ more[l] = ids[j]
    <2> SUFFICES ASSUME NEW i \in 1 .. m, NEW j \in 1 .. m, i < j
                 PROVE  \E k, l \in DOMAIN more : k < l /\ more[k] = ids[i] /\ more[l] = ids[j]
      OBVIOUS
    <2>0. i \in DOMAIN ids /\ j \in DOMAIN ids
      BY <1>1
    <2>1. \E k, l \in DOMAIN recs : k < l /\ recs[k] = ids[i] /\ recs[l] = ids[j]
      BY <2>0 DEF Lists
    <2>2. PICK k, l \in 1 .. n : k < l /\ recs[k] = ids[i] /\ recs[l] = ids[j]
      BY <1>0, <2>1
    <2> QED BY <1>0, <2>2
  <1>5. ASSUME SessionsOf[c] # s
        PROVE  Lists(ids, more, lone, s)
    BY <1>0, <1>1, <1>4, <1>5 DEF Lists
  <1>6. ASSUME SessionsOf[c] = s
        PROVE  Lists(longer, more, lone, s)
    <2>1. Range(longer) = {x \in Range(more) : SessionsOf[x] = s /\ x \notin lone}
      BY <1>0, <1>1, <1>6 DEF Lists
    <2>2. ASSUME NEW i \in 1 .. m + 1, NEW j \in 1 .. m + 1, i < j
          PROVE  \E k, l \in DOMAIN more : k < l /\ more[k] = longer[i] /\ more[l] = longer[j]
      <3>1. i \in 1 .. m
        BY <1>1, <2>2
      <3>2. CASE j \in 1 .. m
        BY <1>1, <1>4, <2>2, <3>1, <3>2
      <3>3. CASE j = m + 1
        <4>1. ids[i] \in Range(recs)
          BY <1>1, <3>1 DEF Lists, Range
        <4>2. PICK k \in 1 .. n : recs[k] = ids[i]
          BY <1>0, <4>1 DEF Range
        <4> QED BY <1>0, <1>1, <3>1, <3>3, <4>2
      <3> QED BY <1>1, <3>2, <3>3
    <2> QED BY <1>1, <2>1, <2>2 DEF Lists
  <1> QED BY <1>2, <1>3, <1>5, <1>6 DEF more

(* append: the ring, the counts and the lists after it.                    *)
LEMMA RecordKeeps ==
  ASSUME TraceInv, NEW c \in Requests, Record(c)
  PROVE  TraceInv'
  <1> DEFINE rec == [scope |-> requests[c].scope, t |-> requests[c].t, blocks |-> requests[c].chain]
             full == Len(records) >= Cap
             h == Head(records)
             base == IF full THEN Tail(records) ELSE records
             left(s) == IF full /\ s = SessionsOf[h]
                        THEN Retain(by_session[s], h) ELSE by_session[s]
             last(s) == IF s = SessionsOf[c] THEN <<c>> ELSE <<>>
             more == orphans \cup {q \in Range(records) :
                        SameCall(q, h) /\ SessionsOf[q] = SessionsOf[h]}
             lone == IF ~full THEN orphans ELSE more
  <1>1. /\ c \in DOMAIN requests /\ requests[c].at = "judged" /\ Insert(rec)
        /\ records' = Append(base, c)
        /\ by_session' = [s \in Sessions |-> left(s) \o last(s)]
        /\ orphans' = lone
        /\ requests' = [requests EXCEPT ![c] = Done]
        /\ clock' = clock
    BY DEF Record
  <1>2. TraceTypes /\ IndexLeads /\ RecordedOnce /\ CountsAreLive
    BY DEF TraceInv
  <1>3. rec \in Recs /\ requests[c] # Done
    BY <1>1, <1>2 DEF TraceTypes, Traced, Recs, Done
  <1>4. /\ ring' \in [Slots -> [generation : Nat, record : {None} \cup Recs]]
        /\ next' \in Nat /\ scope_count' \in [Scopes -> Nat] /\ IndexLeads'
        /\ \A s \in Scopes : scope_count'[s] <= PerScopeCap
                             /\ scope_count'[s] = Cardinality(HeldIn(s)')
    <2>1. \A s \in Scopes : scope_count[s] <= PerScopeCap
                            /\ scope_count[s] = Cardinality(HeldIn(s))
      BY <1>2 DEF CountsAreLive, HeldIn
    <2> HIDE DEF rec
    <2> QED BY <1>1, <1>2, <1>3, <2>1, InsertKeeps
  <1>5. requests' \in [DOMAIN requests' -> Traced] /\ DOMAIN requests' = DOMAIN requests
        /\ DOMAIN requests' \subseteq Requests /\ requests'[c] = Done
        /\ \A x \in DOMAIN requests : requests[x] = Done => requests'[x] = Done
    BY <1>1, <1>2 DEF TraceTypes, Traced
  <1>6. c \notin Range(records) /\ c \notin orphans
    BY <1>2, <1>3 DEF RecordedOnce
  <1>7. /\ records \in Seq(Requests) /\ IsInjective(records)
        /\ \A s \in Sessions : by_session[s] \in Seq(Requests)
                               /\ Lists(by_session[s], records, orphans, s)
    BY <1>2 DEF TraceTypes, CountsAreLive, ListsInOrder, Lists
  <1>8. full => records # <<>>
    <2>1. Cap \in Nat \ {0}
      BY TraceAssumption
    <2> QED BY <2>1
  <1> HIDE DEF full, h
  <1>9. /\ base \in Seq(Requests) /\ IsInjective(base) /\ Range(base) \subseteq Range(records)
        /\ lone \subseteq orphans \cup Range(records)
        /\ \A s \in Sessions : left(s) \in Seq(Requests) /\ Lists(left(s), base, lone, s)
    <2>1. CASE ~full
      BY <2>1, <1>7
    <2>2. CASE full
      <3>1. records # <<>>
        BY <2>2, <1>8
      <3>2. Tail(records) \in Seq(Requests) /\ Range(records) = Range(Tail(records)) \cup {h}
            /\ h \in Requests
        <4>1. Head(records) \in Requests
          BY <1>7, <3>1
        <4> QED BY <1>7, <3>1, <4>1, TailIs DEF h
      <3>3. SessionsOf[h] \in Sessions
        BY <3>2, TraceAssumption DEF Sessions
      <3>4. \A s \in Sessions :
              /\ IsInjective(Tail(records))
              /\ SessionsOf[h] = s => Retain(by_session[s], h) \in Seq(Requests)
                                      /\ Lists(Retain(by_session[s], h), Tail(records), more, s)
              /\ SessionsOf[h] # s => Lists(by_session[s], Tail(records), more, s)
        BY <1>7, <3>1, ListsAfterTail DEF h
      <3>5. \A s \in Sessions : left(s) \in Seq(Requests) /\ Lists(left(s), Tail(records), more, s)
        <4> TAKE s \in Sessions
        <4>1. CASE s = SessionsOf[h]
          BY <2>2, <3>4, <4>1
        <4>2. CASE s # SessionsOf[h]
          BY <2>2, <3>4, <4>2, <1>7
        <4> QED BY <4>1, <4>2
      <3>6. lone = more /\ more \subseteq orphans \cup Range(records)
        BY <2>2
      <3> HIDE DEF left, more, lone
      <3> QED BY <2>2, <3>2, <3>3, <3>4, <3>5, <3>6
    <2> QED BY <2>1, <2>2
  <1> HIDE DEF base, left, more, lone
  <1>10. c \notin Range(base) /\ c \notin lone
    BY <1>6, <1>9
  <1>11. \A s \in Sessions :
            /\ left(s) \o last(s) \in Seq(Requests)
            /\ Lists(left(s) \o last(s), Append(base, c), lone, s)
    <2> TAKE s \in Sessions
    <2>1. left(s) \in Seq(Requests) /\ Lists(left(s), base, lone, s)
      BY <1>9
    <2>2. /\ SessionsOf[c] = s => Lists(left(s) \o <<c>>, Append(base, c), lone, s)
          /\ SessionsOf[c] # s => Lists(left(s) \o <<>>, Append(base, c), lone, s)
      BY <1>9, <1>10, <2>1, ListsAfterAppend
    <2>3. left(s) \o <<c>> \in Seq(Requests) /\ left(s) \o <<>> \in Seq(Requests)
      <3>1. <<c>> \in Seq(Requests) /\ <<>> \in Seq(Requests)
        OBVIOUS
      <3> QED BY <2>1, <3>1, ConcatProperties
    <2>4. CASE SessionsOf[c] = s
      BY <2>2, <2>3, <2>4
    <2>5. CASE SessionsOf[c] # s
      BY <2>2, <2>3, <2>5
    <2> QED BY <2>4, <2>5
  <1>12. /\ records' \in Seq(Requests) /\ Range(records') = Range(base) \cup {c}
         /\ IsInjective(records')
    <2>1. Append(base, c) \in Seq(Requests) /\ Range(Append(base, c)) = Range(base) \cup {c}
      BY <1>9, AppendIs
    <2>2. SessionsOf[c] \in Sessions
      BY TraceAssumption DEF Sessions
    <2>3. IsInjective(Append(base, c))
      BY <1>9, <1>10, <2>2, ListsAfterAppend
    <2> QED BY <1>1, <2>1, <2>3
  <1> HIDE DEF last
  <1>13. by_session' \in [Sessions -> Seq(Requests)]
         /\ \A s \in Sessions : Lists(by_session'[s], records', orphans', s)
    BY <1>1, <1>11
  <1>14. RecordedOnce'
    BY <1>2, <1>5, <1>9, <1>12, <1>1 DEF RecordedOnce
  <1>15. TraceTypes'
    BY <1>1, <1>2, <1>4, <1>5, <1>12, <1>13 DEF TraceTypes
  <1>16. CountsAreLive'
    BY <1>4, <1>12, <1>13 DEF CountsAreLive, HeldIn, Lists, ListsInOrder, Held
  <1> QED BY <1>4, <1>14, <1>15, <1>16 DEF TraceInv

(* lookup leaves the records alone; the index it builds again leads to     *)
(* each of them.                                                           *)
LEMMA LookUpKeeps ==
  ASSUME TraceInv, NEW c \in Requests, NEW chain \in Chains \cup {<<>>},
         NEW failed \in BOOLEAN, LookUp(c, chain, failed)
  PROVE  TraceInv'
  <1>1. /\ c \in DOMAIN requests /\ requests[c].at = "sent"
        /\ requests' = [requests EXCEPT ![c].chain = chain, ![c].at = "judged"]
        /\ UNCHANGED <<ring, next, scope_count, records, by_session, orphans, clock>>
    BY DEF LookUp
  <1>2. TraceTypes /\ IndexLeads /\ RecordedOnce /\ CountsAreLive
    BY DEF TraceInv
  <1>3. IndexLeads'
    <2> DEFINE rebuilt == UNION {RefsTo(i, ring[i].record, ring[i].generation) :
                                   i \in {j \in Slots : Held(j)}}
    <2>1. index' = index \/ index' = rebuilt
      BY DEF LookUp, CountTombstones
    <2>2. CASE index' = index
      BY <1>1, <1>2, <2>2 DEF IndexLeads, Held
    <2>3. CASE index' = rebuilt
      <3>1. \A i, rec, g : \A r \in RefsTo(i, rec, g) : r.slot = i
        BY DEF RefsTo
      <3>2. \A r \in rebuilt : r.slot \in Slots
        BY <3>1
      <3>3. \A i \in Slots : Held(i) => RefsTo(i, ring[i].record, ring[i].generation) \subseteq rebuilt
        OBVIOUS
      <3> HIDE DEF rebuilt
      <3> QED BY <1>1, <2>3, <3>2, <3>3 DEF IndexLeads, Held
    <2> QED BY <2>1, <2>2, <2>3
  <1>4. requests[c] # Done
    BY <1>1 DEF Done
  <1>5. requests[c] \in [scope : Scopes, t : 0 .. ClockMax, chain : Chains \cup {<<>>},
                      at : {"sent", "judged"}]
    BY <1>1, <1>2, <1>4 DEF TraceTypes, Traced
  <1>6. [requests[c] EXCEPT !.chain = chain, !.at = "judged"] \in Traced
    BY <1>5 DEF Traced
  <1>7. requests' = [requests EXCEPT ![c] = [requests[c] EXCEPT !.chain = chain, !.at = "judged"]]
    BY <1>1, <1>2 DEF TraceTypes
  <1>8. /\ DOMAIN requests' = DOMAIN requests /\ requests' \in [DOMAIN requests' -> Traced]
        /\ \A x \in DOMAIN requests : x # c => requests'[x] = requests[x]
    BY <1>1, <1>2, <1>6, <1>7 DEF TraceTypes
  <1>9. RecordedOnce'
    BY <1>1, <1>2, <1>4, <1>8 DEF RecordedOnce, Range
  <1>10. TraceTypes'
    BY <1>1, <1>2, <1>8 DEF TraceTypes
  <1>11. CountsAreLive'
    BY <1>1, <1>2 DEF CountsAreLive, Held, ListsInOrder
  <1> QED BY <1>3, <1>9, <1>10, <1>11 DEF TraceInv

LEMMA StartKeeps ==
  ASSUME TraceInv, NEW c \in Requests, NEW scope \in Scopes, Start(c, scope)
  PROVE  TraceInv'
  <1>1. /\ c \notin DOMAIN requests
        /\ requests' = [x \in DOMAIN requests \cup {c} |->
              IF x = c THEN [scope |-> scope, t |-> clock, chain |-> <<>>, at |-> "sent"]
              ELSE requests[x]]
        /\ UNCHANGED <<store, records, by_session, orphans, clock>>
    BY DEF Start
  <1>2. TraceTypes /\ IndexLeads /\ RecordedOnce /\ CountsAreLive
    BY DEF TraceInv
  <1>3. [scope |-> scope, t |-> clock, chain |-> <<>>, at |-> "sent"] \in Traced
    BY <1>2 DEF TraceTypes, Traced
  <1>4. /\ DOMAIN requests' = DOMAIN requests \cup {c} /\ requests' \in [DOMAIN requests' -> Traced]
        /\ \A x \in DOMAIN requests : requests'[x] = requests[x]
    BY <1>1, <1>2, <1>3 DEF TraceTypes
  <1>5. TraceTypes'
    BY <1>1, <1>2, <1>4 DEF TraceTypes, store
  <1>6. RecordedOnce'
    BY <1>1, <1>2, <1>4 DEF RecordedOnce, Range
  <1>7. IndexLeads'
    BY <1>1, <1>2 DEF IndexLeads, Held, store
  <1>8. CountsAreLive'
    BY <1>1, <1>2 DEF CountsAreLive, Held, ListsInOrder, store
  <1> QED BY <1>5, <1>6, <1>7, <1>8 DEF TraceInv

LEMMA TickKeeps ==
  ASSUME TraceInv, Tick
  PROVE  TraceInv'
  <1>1. clock' \in 0 .. ClockMax
    BY TraceAssumption DEF TraceInv, TraceTypes, Tick
  <1>2. TraceTypes'
    BY <1>1 DEF TraceInv, TraceTypes, Tick, store
  <1>3. UNCHANGED <<ring, index, scope_count, records, by_session, orphans, requests>>
    BY DEF Tick, store
  <1>4. IndexLeads' /\ RecordedOnce'
    BY <1>3 DEF TraceInv, IndexLeads, Held, RecordedOnce, Range
  <1>5. CountsAreLive'
    BY <1>3 DEF TraceInv, CountsAreLive, Held, ListsInOrder
  <1> QED BY <1>2, <1>4, <1>5 DEF TraceInv

(* The empty store, as it starts and as clear leaves it.                   *)
LEMMA ClearTraceKeeps ==
  ASSUME TraceInv, Clear
  PROVE  TraceInv'
  <1>1. \A i \in Slots : ring'[i].record = None
    BY DEF Clear
  <1>2. Range(records') = {} /\ IsInjective(records') /\ records' \in Seq(Requests)
        /\ \A s \in Sessions : by_session'[s] = <<>>
    BY DEF Clear, Range, IsInjective
  <1>3. IndexLeads'
    BY <1>1 DEF IndexLeads, Held, Clear
  <1>4. CountsAreLive'
    <2>1. \A s \in Scopes : HeldIn(s)' = {} /\ scope_count'[s] = 0
      BY <1>1 DEF HeldIn, Held, Clear
    <2>2. Cardinality({}) = 0 /\ PerScopeCap \in Nat
      BY FS_EmptySet, TraceAssumption
    <2>3. \A s \in Sessions : ListsInOrder(by_session[s], s)'
      BY <1>2 DEF ListsInOrder, Range
    <2>4. \A s \in Scopes : scope_count'[s] <= PerScopeCap
                            /\ scope_count'[s] = Cardinality(HeldIn(s)')
      BY <2>1, <2>2
    <2> QED BY <1>2, <2>3, <2>4 DEF CountsAreLive, HeldIn
  <1>5. RecordedOnce'
    BY <1>2 DEF TraceInv, RecordedOnce, Clear
  <1>6. TraceTypes'
    BY <1>2 DEF TraceTypes, Clear, TraceInv
  <1> QED BY <1>3, <1>4, <1>5, <1>6 DEF TraceInv

LEMMA TraceStarts ==
  ASSUME TraceInit
  PROVE  TraceInv
  <1>1. \A i \in Slots : ring[i].record = None
    BY DEF TraceInit
  <1>2. Range(records) = {} /\ IsInjective(records) /\ records \in Seq(Requests)
        /\ \A s \in Sessions : by_session[s] = <<>>
    BY DEF TraceInit, Range, IsInjective
  <1>3. IndexLeads /\ RecordedOnce
    BY <1>1, <1>2 DEF IndexLeads, Held, RecordedOnce, TraceInit
  <1>4. CountsAreLive
    <2>1. \A s \in Scopes : HeldIn(s) = {} /\ scope_count[s] = 0
      BY <1>1 DEF HeldIn, Held, TraceInit
    <2>2. Cardinality({}) = 0 /\ PerScopeCap \in Nat
      BY FS_EmptySet, TraceAssumption
    <2>3. \A s \in Sessions : ListsInOrder(by_session[s], s)
      BY <1>2 DEF ListsInOrder, Range
    <2>4. \A s \in Scopes : scope_count[s] <= PerScopeCap
                            /\ scope_count[s] = Cardinality(HeldIn(s))
      BY <2>1, <2>2
    <2> QED BY <1>2, <2>3, <2>4 DEF CountsAreLive, HeldIn
  <1>5. ClockMax \in Nat
    BY TraceAssumption
  <1>6. TraceTypes
    BY <1>2, <1>5 DEF TraceTypes, TraceInit
  <1> QED BY <1>3, <1>4, <1>6 DEF TraceInv

-----------------------------------------------------------------------------
(* trace/store.rs: however keys collide, generations wrap and the index    *)
(* goes stale, a lookup finds the record a search of the whole ring would; *)
(* a scope counts the records it has in the ring, within its cap; and each *)
(* session lists, in order, the records kept of it whose call has lost     *)
(* none meanwhile, whatever requests share a call id.                      *)
THEOREM StoreStaysExact == Spec => []StoreIsExact
  <1>1. Init => TraceInv
    BY TraceStarts DEF Init
  <1>2. TraceInv /\ [Next]_<<under, sessionVars, traceVars>> => TraceInv'
    <2> SUFFICES ASSUME TraceInv, [Next]_<<under, sessionVars, traceVars>>
                 PROVE  TraceInv'
      OBVIOUS
    <2>1. CASE TraceNext
      BY <2>1, TickKeeps, ClearTraceKeeps, StartKeeps, LookUpKeeps, RecordKeeps DEF TraceNext
    <2>2. CASE UNCHANGED traceVars
      <3>1. UNCHANGED <<ring, next, index, scope_count, records, by_session, orphans, clock, requests>>
        BY <2>2 DEF traceVars, store
      <3>2. TraceTypes' /\ RecordedOnce'
        BY <3>1 DEF TraceInv, TraceTypes, RecordedOnce, Range
      <3>3. IndexLeads'
        BY <3>1 DEF TraceInv, IndexLeads, Held
      <3>4. CountsAreLive'
        BY <3>1 DEF TraceInv, CountsAreLive, Held, ListsInOrder
      <3> QED BY <3>2, <3>3, <3>4 DEF TraceInv
    <2> QED BY <2>1, <2>2 DEF Next
  <1>3. TraceInv => StoreIsExact
    BY LookupsAreExact DEF TraceInv, StoreIsExact
  <1> QED BY <1>1, <1>2, <1>3, PTL DEF Spec
=============================================================================
