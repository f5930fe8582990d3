---------------------------- MODULE FiltersProofs ----------------------------
(***************************************************************************)
(* Lemmas about the filter of a sequence, for the proofs about the modules *)
(* that filter: what it keeps, what it does to an appended element, to two *)
(* sequences in a row and to a sequence that was filtered already; and how *)
(* it merges two prefixes of a sequence.                                   *)
(*                                                                         *)
(* They are proved by induction on sequences, stated with sets: a set of   *)
(* sequences that has the empty one, and each of its sequences with        *)
(* another element appended, has them all.  That follows from the least    *)
(* number principle.                                                       *)
(***************************************************************************)
EXTENDS Filters, SequencesExt, SequenceTheorems, WellFoundedInduction, TLAPS

\* A set of natural numbers that is not empty has a least one.
LEMMA LeastNumber ==
  ASSUME NEW T, T \subseteq Nat, T # {}
  PROVE  \E x \in T : \A y \in T : x <= y
<1> DEFINE R == {ss \in Nat \X Nat : ss[1] < ss[2]}
<1>1. IsWellFoundedOn(R, Nat)
  BY NatLessThanWellFounded DEF OpToRel
<1>2. PICK x \in T : \A y \in T : ~(<<y, x>> \in R)
  <2> HIDE DEF R
  <2> QED BY <1>1, WFMin
<1>3. ASSUME NEW y \in T PROVE x <= y
  <2>1. <<y, x>> \notin R /\ <<y, x>> \in Nat \X Nat
    BY <1>2
  <2>2. ~(y < x)
    BY <2>1
  <2> QED BY <2>2
<1> QED BY <1>3

LEMMA SequenceInduction ==
  ASSUME NEW A, NEW T, <<>> \in T,
         \A s \in Seq(A), x \in A : s \in T => Append(s, x) \in T
  PROVE  Seq(A) \subseteq T
<1> SUFFICES ASSUME NEW u \in Seq(A), u \notin T PROVE FALSE
  OBVIOUS
<1> DEFINE N == {n \in Nat : \E s \in Seq(A) : Len(s) = n /\ s \notin T}
<1>1. N \subseteq Nat /\ Len(u) \in N
  OBVIOUS
<1>2. PICK n \in N : \A m \in N : n <= m
  <2> HIDE DEF N
  <2> QED BY <1>1, LeastNumber
<1>3. PICK s \in Seq(A) : Len(s) = n /\ s \notin T
  OBVIOUS
<1>4. n # 0
  <2> SUFFICES ASSUME n = 0 PROVE FALSE
    OBVIOUS
  <2>1. s = <<>>
    BY <1>3
  <2> QED BY <1>3, <2>1
<1> DEFINE r == SubSeq(s, 1, n - 1)
<1>5. n \in Nat \ {0}
  BY <1>4
<1>6. r \in Seq(A) /\ Len(r) = n - 1 /\ s[n] \in A /\ s = Append(r, s[n])
  BY <1>3, <1>5
<1> HIDE DEF r
<1>7. r \in T
  <2> SUFFICES ASSUME r \notin T PROVE FALSE
    OBVIOUS
  <2>1. n - 1 \in N
    BY <1>5, <1>6
  <2>2. n <= n - 1
    BY <1>2, <2>1
  <2> QED BY <1>5, <2>2
<1> QED BY <1>3, <1>6, <1>7

-----------------------------------------------------------------------------
(* The recursive function *)

FilterStep(g, s, S) ==
  [i \in 0 .. Len(s) |-> IF i = 0 THEN <<>>
                         ELSE IF s[i] \in S THEN Append(g[i - 1], s[i]) ELSE g[i - 1]]

\* A function that satisfies the equation is there for every sequence.
LEMMA FilterStepExists ==
  ASSUME NEW A, NEW S
  PROVE  \A s \in Seq(A) : \E g : g = FilterStep(g, s, S)
<1> DEFINE T == {s \in Seq(A) : \E g : g = FilterStep(g, s, S)}
<1>1. <<>> \in T
  <2> DEFINE g == [i \in 0 .. 0 |-> <<>>]
  <2>1. g = FilterStep(g, <<>>, S)
    <3>1. \A i \in 0 .. 0 : i = 0
      OBVIOUS
    <3> QED BY <3>1 DEF FilterStep
  <2> QED BY <2>1
<1>2. ASSUME NEW s \in Seq(A), NEW x \in A, s \in T PROVE Append(s, x) \in T
  <2>1. PICK g : g = FilterStep(g, s, S)
    BY <1>2
  <2> DEFINE n == Len(s)
             t == Append(s, x)
             h == [i \in 0 .. n + 1 |->
                     IF i <= n THEN g[i] ELSE IF x \in S THEN Append(g[n], x) ELSE g[n]]
  <2>2. n \in Nat /\ t \in Seq(A) /\ Len(t) = n + 1 /\ t[n + 1] = x /\ \A i \in 1 .. n : t[i] = s[i]
    OBVIOUS
  <2>3. ASSUME NEW i \in 0 .. n + 1 PROVE h[i] = FilterStep(h, t, S)[i]
    <3>1. CASE i = 0
      <4>1. g[0] = <<>>
        BY <2>1, <2>2 DEF FilterStep
      <4> QED BY <2>2, <3>1, <4>1 DEF FilterStep
    <3>2. CASE i \in 1 .. n
      <4>0. g[i] = FilterStep(g, s, S)[i]
        BY <2>1
      <4>1. g[i] = IF s[i] \in S THEN Append(g[i - 1], s[i]) ELSE g[i - 1]
        BY <4>0, <2>2, <3>2 DEF FilterStep
      <4>2. h[i] = g[i] /\ h[i - 1] = g[i - 1] /\ t[i] = s[i]
        BY <2>2, <3>2
      <4>3. FilterStep(h, t, S)[i] = IF t[i] \in S THEN Append(h[i - 1], t[i]) ELSE h[i - 1]
        BY <2>2, <3>2 DEF FilterStep
      <4> QED BY <4>1, <4>2, <4>3
    <3>3. CASE i = n + 1
      <4>1. h[i] = IF x \in S THEN Append(g[n], x) ELSE g[n]
        BY <2>2, <3>3
      <4>2. h[i - 1] = g[n] /\ t[i] = x
        BY <2>2, <3>3
      <4>3. FilterStep(h, t, S)[i] = IF t[i] \in S THEN Append(h[i - 1], t[i]) ELSE h[i - 1]
        BY <2>2, <3>3 DEF FilterStep
      <4> QED BY <4>1, <4>2, <4>3
    <3> QED BY <2>2, <3>1, <3>2, <3>3
  <2>4. h = FilterStep(h, t, S)
    BY <2>2, <2>3 DEF FilterStep
  <2> QED BY <2>2, <2>4
<1> HIDE DEF T
<1>3. Seq(A) \subseteq T
  BY <1>1, <1>2, SequenceInduction
<1> QED BY <1>3 DEF T

\* ... and is the only one, as far as its values go.
LEMMA FilterStepUnique ==
  ASSUME NEW A, NEW S, NEW s \in Seq(A), NEW g, NEW h,
         g = FilterStep(g, s, S), NEW n \in 0 .. Len(s),
         \A i \in 0 .. n : h[i] = IF i = 0 THEN <<>>
           ELSE IF s[i] \in S THEN Append(h[i - 1], s[i]) ELSE h[i - 1]
  PROVE  g[n] = h[n]
<1> SUFFICES ASSUME g[n] # h[n] PROVE FALSE
  OBVIOUS
<1> DEFINE N == {m \in 0 .. n : g[m] # h[m]}
<1>1. PICK m \in N : \A k \in N : m <= k
  <2>1. N \subseteq Nat /\ N # {}
    OBVIOUS
  <2> HIDE DEF N
  <2> QED BY <2>1, LeastNumber
<1>2. m \in 0 .. n /\ g[m] # h[m]
  OBVIOUS
<1>3. g[m] = IF m = 0 THEN <<>> ELSE IF s[m] \in S THEN Append(g[m - 1], s[m]) ELSE g[m - 1]
  <2>1. g[m] = FilterStep(g, s, S)[m]
    OBVIOUS
  <2>2. m \in 0 .. Len(s)
    BY <1>2
  <2> QED BY <2>1, <2>2 DEF FilterStep
<1>4. m # 0
  BY <1>2, <1>3
<1>5. g[m - 1] = h[m - 1]
  BY <1>1, <1>2, <1>4
<1> QED BY <1>2, <1>3, <1>4, <1>5

LEMMA OnlyIsStep ==
  ASSUME NEW A, NEW S, NEW s \in Seq(A)
  PROVE  \E g : g = FilterStep(g, s, S) /\ Only(s, S) = g[Len(s)]
<1> DEFINE g == CHOOSE g : g = FilterStep(g, s, S)
<1>1. g = FilterStep(g, s, S)
  BY FilterStepExists
<1>2. Only(s, S) = g[Len(s)]
  BY DEF Only, FilterStep
<1> QED BY <1>1, <1>2

-----------------------------------------------------------------------------
(* What a filter gives *)

LEMMA OnlyOfEmpty ==
  ASSUME NEW S
  PROVE  Only(<<>>, S) = <<>>
<1>1. PICK g : g = FilterStep(g, <<>>, S) /\ Only(<<>>, S) = g[Len(<<>>)]
  BY OnlyIsStep, <<>> \in Seq({})
<1> QED BY <1>1 DEF FilterStep

LEMMA OnlyOfAppend ==
  ASSUME NEW A, NEW S, NEW s \in Seq(A), NEW x \in A
  PROVE  Only(Append(s, x), S) = IF x \in S THEN Append(Only(s, S), x) ELSE Only(s, S)
<1> DEFINE n == Len(s)
           t == Append(s, x)
<1>1. n \in Nat /\ t \in Seq(A) /\ Len(t) = n + 1 /\ t[n + 1] = x /\ \A i \in 1 .. n : t[i] = s[i]
  OBVIOUS
<1>2. PICK g : g = FilterStep(g, s, S) /\ Only(s, S) = g[n]
  BY OnlyIsStep
<1> HIDE DEF t
<1>3. PICK h : h = FilterStep(h, t, S) /\ Only(t, S) = h[n + 1]
  BY <1>1, OnlyIsStep
<1>4. \A i \in 0 .. n + 1 :
        h[i] = IF i = 0 THEN <<>> ELSE IF t[i] \in S THEN Append(h[i - 1], t[i]) ELSE h[i - 1]
  BY <1>1, <1>3 DEF FilterStep
<1>5. \A i \in 0 .. n :
        h[i] = IF i = 0 THEN <<>> ELSE IF s[i] \in S THEN Append(h[i - 1], s[i]) ELSE h[i - 1]
  BY <1>1, <1>4
<1>6. g[n] = h[n]
  <2>1. n \in 0 .. Len(s) /\ g = FilterStep(g, s, S)
    BY <1>1, <1>2
  <2> HIDE DEF n
  <2> QED BY <1>5, <2>1, FilterStepUnique
<1>7. h[n + 1] = IF x \in S THEN Append(h[n], x) ELSE h[n]
  BY <1>1, <1>4
<1> QED BY <1>2, <1>3, <1>6, <1>7 DEF t

\* A sequence of those elements, and of no others.
LEMMA OnlyType ==
  ASSUME NEW A, NEW S
  PROVE  \A s \in Seq(A) : Only(s, S) \in Seq(A) /\ Only(s, S) \in Seq(A \intersect S)
<1> DEFINE T == {s \in Seq(A) : Only(s, S) \in Seq(A) /\ Only(s, S) \in Seq(A \intersect S)}
<1>1. <<>> \in T
  <2>1. \A B : <<>> \in Seq(B)
    OBVIOUS
  <2> QED BY <2>1, OnlyOfEmpty
<1>2. ASSUME NEW s \in Seq(A), NEW x \in A, s \in T PROVE Append(s, x) \in T
  <2>1. Only(Append(s, x), S) = IF x \in S THEN Append(Only(s, S), x) ELSE Only(s, S)
    BY OnlyOfAppend
  <2>2. CASE x \in S
    <3>1. x \in A \intersect S
      BY <2>2
    <3>2. Append(Only(s, S), x) \in Seq(A)
      BY <1>2
    <3>3. Append(Only(s, S), x) \in Seq(A \intersect S)
      BY <1>2, <3>1
    <3>4. Append(s, x) \in Seq(A)
      OBVIOUS
    <3> QED BY <2>1, <2>2, <3>2, <3>3, <3>4
  <2>3. CASE x \notin S
    BY <1>2, <2>1, <2>3
  <2> QED BY <2>2, <2>3
<1> HIDE DEF T
<1>3. Seq(A) \subseteq T
  BY <1>1, <1>2, SequenceInduction
<1> QED BY <1>3 DEF T

\* The values of a sequence with another element.
LEMMA RangeOfAppend ==
  ASSUME NEW A, NEW s \in Seq(A), NEW x \in A
  PROVE  Range(Append(s, x)) = Range(s) \union {x}
<1>1. \A i \in 1 .. Len(s) : Append(s, x)[i] = s[i]
  OBVIOUS
<1>2. Len(Append(s, x)) = Len(s) + 1 /\ Append(s, x)[Len(s) + 1] = x /\ Len(s) \in Nat
  OBVIOUS
<1> QED BY <1>1, <1>2 DEF Range

LEMMA OnlyRange ==
  ASSUME NEW A, NEW S
  PROVE  \A s \in Seq(A) : Range(Only(s, S)) = Range(s) \intersect S
<1> DEFINE T == {s \in Seq(A) : Range(Only(s, S)) = Range(s) \intersect S}
<1>1. <<>> \in T
  BY OnlyOfEmpty DEF Range
<1>2. ASSUME NEW s \in Seq(A), NEW x \in A, s \in T PROVE Append(s, x) \in T
  <2>1. Only(Append(s, x), S) = IF x \in S THEN Append(Only(s, S), x) ELSE Only(s, S)
    BY OnlyOfAppend
  <2>2. Only(s, S) \in Seq(A)
    BY OnlyType
  <2>3. Range(Append(s, x)) = Range(s) \union {x}
    BY RangeOfAppend
  <2>4. Range(Append(Only(s, S), x)) = Range(Only(s, S)) \union {x}
    BY <2>2, RangeOfAppend
  <2>5. Append(s, x) \in Seq(A) /\ Range(Only(s, S)) = Range(s) \intersect S
    BY <1>2
  <2>6. CASE x \in S
    BY <2>1, <2>3, <2>4, <2>5, <2>6
  <2>7. CASE x \notin S
    BY <2>1, <2>3, <2>5, <2>7
  <2> QED BY <2>6, <2>7
<1> HIDE DEF T
<1>3. Seq(A) \subseteq T
  BY <1>1, <1>2, SequenceInduction
<1> QED BY <1>3 DEF T

\* Only the elements that are there matter.
LEMMA OnlySame ==
  ASSUME NEW A, NEW S, NEW R
  PROVE  \A s \in Seq(A) : Range(s) \intersect S = Range(s) \intersect R => Only(s, S) = Only(s, R)
<1> DEFINE T == {s \in Seq(A) :
                   Range(s) \intersect S = Range(s) \intersect R => Only(s, S) = Only(s, R)}
<1>1. <<>> \in T
  BY OnlyOfEmpty
<1>2. ASSUME NEW s \in Seq(A), NEW x \in A, s \in T PROVE Append(s, x) \in T
  <2> SUFFICES ASSUME Range(Append(s, x)) \intersect S = Range(Append(s, x)) \intersect R
               PROVE  Only(Append(s, x), S) = Only(Append(s, x), R)
    OBVIOUS
  <2>1. Range(Append(s, x)) = Range(s) \union {x}
    BY RangeOfAppend
  <2>2. (x \in S <=> x \in R) /\ Range(s) \intersect S = Range(s) \intersect R
    BY <2>1
  <2>3. Only(s, S) = Only(s, R)
    BY <1>2, <2>2
  <2>4. /\ Only(Append(s, x), S) = IF x \in S THEN Append(Only(s, S), x) ELSE Only(s, S)
        /\ Only(Append(s, x), R) = IF x \in R THEN Append(Only(s, R), x) ELSE Only(s, R)
    BY OnlyOfAppend
  <2> QED BY <2>2, <2>3, <2>4
<1> HIDE DEF T
<1>3. Seq(A) \subseteq T
  BY <1>1, <1>2, SequenceInduction
<1> QED BY <1>3 DEF T

\* Nothing is left out of a sequence all of whose elements pass.
LEMMA OnlyAll ==
  ASSUME NEW A, NEW S
  PROVE  \A s \in Seq(A) : Range(s) \subseteq S => Only(s, S) = s
<1> DEFINE T == {s \in Seq(A) : Range(s) \subseteq S => Only(s, S) = s}
<1>1. <<>> \in T
  BY OnlyOfEmpty
<1>2. ASSUME NEW s \in Seq(A), NEW x \in A, s \in T PROVE Append(s, x) \in T
  <2>1. Only(Append(s, x), S) = IF x \in S THEN Append(Only(s, S), x) ELSE Only(s, S)
    BY OnlyOfAppend
  <2>2. Range(Append(s, x)) = Range(s) \union {x}
    BY RangeOfAppend
  <2> QED BY <1>2, <2>1, <2>2
<1> HIDE DEF T
<1>3. Seq(A) \subseteq T
  BY <1>1, <1>2, SequenceInduction
<1> QED BY <1>3 DEF T

\* Two filters in a row.
LEMMA OnlyOfOnly ==
  ASSUME NEW A, NEW S, NEW R
  PROVE  \A s \in Seq(A) : Only(Only(s, S), R) = Only(s, S \intersect R)
<1> DEFINE T == {s \in Seq(A) : Only(Only(s, S), R) = Only(s, S \intersect R)}
<1>1. <<>> \in T
  BY OnlyOfEmpty
<1>2. ASSUME NEW s \in Seq(A), NEW x \in A, s \in T PROVE Append(s, x) \in T
  <2>1. Only(s, S) \in Seq(A)
    BY OnlyType
  <2>2. /\ Only(Append(s, x), S) = IF x \in S THEN Append(Only(s, S), x) ELSE Only(s, S)
        /\ Only(Append(s, x), S \intersect R) =
             IF x \in S \intersect R THEN Append(Only(s, S \intersect R), x)
             ELSE Only(s, S \intersect R)
        /\ Only(Append(Only(s, S), x), R) =
             IF x \in R THEN Append(Only(Only(s, S), R), x) ELSE Only(Only(s, S), R)
    BY <2>1, OnlyOfAppend
  <2>3. Append(s, x) \in Seq(A) /\ Only(Only(s, S), R) = Only(s, S \intersect R)
    BY <1>2
  <2>4. CASE x \in S /\ x \in R
    <3>1. Only(Only(Append(s, x), S), R) = Append(Only(Only(s, S), R), x)
      BY <2>2, <2>4
    <3>2. Only(Append(s, x), S \intersect R) = Append(Only(s, S \intersect R), x)
      BY <2>2, <2>4
    <3> QED BY <2>3, <3>1, <3>2
  <2>5. CASE x \in S /\ x \notin R
    BY <2>2, <2>3, <2>5
  <2>6. CASE x \notin S
    BY <2>2, <2>3, <2>6
  <2> QED BY <2>4, <2>5, <2>6
<1> HIDE DEF T
<1>3. Seq(A) \subseteq T
  BY <1>1, <1>2, SequenceInduction
<1> QED BY <1>3 DEF T

\* Two sequences in a row.
LEMMA OnlyOfConcat ==
  ASSUME NEW A, NEW S, NEW s \in Seq(A)
  PROVE  \A t \in Seq(A) : Only(s \o t, S) = Only(s, S) \o Only(t, S)
<1> DEFINE T == {t \in Seq(A) : Only(s \o t, S) = Only(s, S) \o Only(t, S)}
<1>0. Only(s, S) \in Seq(A)
  BY OnlyType
<1>1. <<>> \in T
  BY <1>0, OnlyOfEmpty
<1>2. ASSUME NEW t \in Seq(A), NEW x \in A, t \in T PROVE Append(t, x) \in T
  <2>1. Only(t, S) \in Seq(A)
    BY OnlyType
  <2>2. s \o t \in Seq(A) /\ s \o Append(t, x) = Append(s \o t, x)
    OBVIOUS
  <2>3. Only(s, S) \o Append(Only(t, S), x) = Append(Only(s, S) \o Only(t, S), x)
    BY <1>0, <2>1
  <2>4. Only(Append(t, x), S) = IF x \in S THEN Append(Only(t, S), x) ELSE Only(t, S)
    BY OnlyOfAppend
  <2>5. Only(Append(s \o t, x), S) =
          IF x \in S THEN Append(Only(s \o t, S), x) ELSE Only(s \o t, S)
    <3>1. \A u \in Seq(A) :
            Only(Append(u, x), S) = IF x \in S THEN Append(Only(u, S), x) ELSE Only(u, S)
      BY OnlyOfAppend
    <3>2. s \o t \in Seq(A)
      OBVIOUS
    <3> QED BY <3>1, <3>2
  <2>6. Append(t, x) \in Seq(A) /\ Only(s \o t, S) = Only(s, S) \o Only(t, S)
    BY <1>2
  <2>7. CASE x \in S
    BY <2>2, <2>3, <2>4, <2>5, <2>6, <2>7
  <2>8. CASE x \notin S
    BY <2>2, <2>4, <2>5, <2>6, <2>8
  <2> QED BY <2>7, <2>8
<1> HIDE DEF T
<1>3. Seq(A) \subseteq T
  BY <1>1, <1>2, SequenceInduction
<1> QED BY <1>3 DEF T

\* Nothing passes, and elements that are all different stay so.
LEMMA OnlyNone ==
  ASSUME NEW A, NEW S, NEW s \in Seq(A), Range(s) \intersect S = {}
  PROVE  Only(s, S) = <<>>
<1>1. Only(s, S) \in Seq(A) /\ Range(Only(s, S)) = {}
  BY OnlyType, OnlyRange
<1>2. ASSUME NEW u \in Seq(A), Range(u) = {} PROVE u = <<>>
  <2>1. Len(u) = 0
    <3> SUFFICES ASSUME Len(u) # 0 PROVE FALSE
      OBVIOUS
    <3>1. 1 \in DOMAIN u
      OBVIOUS
    <3> QED BY <1>2, <3>1 DEF Range
  <2> QED BY <2>1
<1> QED BY <1>1, <1>2

LEMMA OnlyInjective ==
  ASSUME NEW A, NEW S
  PROVE  \A s \in Seq(A) : IsInjective(s) => IsInjective(Only(s, S))
<1> DEFINE T == {s \in Seq(A) : IsInjective(s) => IsInjective(Only(s, S))}
<1>1. <<>> \in T
  BY OnlyOfEmpty
<1>2. ASSUME NEW s \in Seq(A), NEW x \in A, s \in T PROVE Append(s, x) \in T
  <2> SUFFICES ASSUME IsInjective(Append(s, x)) PROVE IsInjective(Only(Append(s, x), S))
    OBVIOUS
  <2>1. /\ Only(s, S) \in Seq(A) /\ Range(Only(s, S)) = Range(s) \intersect S
        /\ Only(Append(s, x), S) = IF x \in S THEN Append(Only(s, S), x) ELSE Only(s, S)
    <3>1. Only(s, S) \in Seq(A)
      BY OnlyType
    <3>2. Range(Only(s, S)) = Range(s) \intersect S
      BY OnlyRange
    <3>3. Only(Append(s, x), S) = IF x \in S THEN Append(Only(s, S), x) ELSE Only(s, S)
      BY OnlyOfAppend
    <3> QED BY <3>1, <3>2, <3>3
  <2>2. IsInjective(s) /\ x \notin Range(s)
    <3>1. Len(s) + 1 \in DOMAIN Append(s, x) /\ Append(s, x)[Len(s) + 1] = x
          /\ \A i \in DOMAIN s : i \in DOMAIN Append(s, x) /\ Append(s, x)[i] = s[i] /\ i # Len(s) + 1
      OBVIOUS
    <3> QED BY <3>1 DEF IsInjective, Range
  <2>3. IsInjective(Only(s, S))
    BY <1>2, <2>2
  <2>4. ASSUME NEW u \in Seq(A), IsInjective(u), x \notin Range(u)
        PROVE  IsInjective(Append(u, x))
    BY <2>4 DEF IsInjective, Range
  <2> QED BY <2>1, <2>2, <2>3, <2>4
<1> HIDE DEF T
<1>3. Seq(A) \subseteq T
  BY <1>1, <1>2, SequenceInduction
<1> QED BY <1>3 DEF T

\* One element less.
LEMMA OnlyLess ==
  ASSUME NEW A, NEW S, NEW x \in A, \A y \in A : y \in S <=> y # x
  PROVE  \A s \in Seq(A) :
           IsInjective(s) /\ x \in Range(s) => Len(Only(s, S)) = Len(s) - 1
<1> DEFINE T == {s \in Seq(A) :
                   IsInjective(s) /\ x \in Range(s) => Len(Only(s, S)) = Len(s) - 1}
<1>1. <<>> \in T
  BY DEF Range
<1>2. ASSUME NEW s \in Seq(A), NEW y \in A, s \in T PROVE Append(s, y) \in T
  <2> SUFFICES ASSUME IsInjective(Append(s, y)), x \in Range(Append(s, y))
               PROVE  Len(Only(Append(s, y), S)) = Len(Append(s, y)) - 1
    OBVIOUS
  <2>1. IsInjective(s) /\ y \notin Range(s)
    <3>1. Len(s) + 1 \in DOMAIN Append(s, y) /\ Append(s, y)[Len(s) + 1] = y
          /\ \A i \in DOMAIN s : i \in DOMAIN Append(s, y) /\ Append(s, y)[i] = s[i] /\ i # Len(s) + 1
      OBVIOUS
    <3> QED BY <3>1 DEF IsInjective, Range
  <2>2. Only(Append(s, y), S) = IF y \in S THEN Append(Only(s, S), y) ELSE Only(s, S)
    BY OnlyOfAppend
  <2>3. Len(Append(s, y)) = Len(s) + 1 /\ Len(s) \in Nat
    OBVIOUS
  <2>4. CASE y = x
    <3>1. Range(s) \subseteq S
      BY <2>1, <2>4 DEF Range
    <3>2. Only(s, S) = s
      BY <3>1, OnlyAll
    <3> QED BY <2>2, <2>3, <2>4, <3>2
  <2>5. CASE y # x
    <3>1. x \in Range(s)
      BY <2>5, RangeOfAppend
    <3>2. Only(s, S) \in Seq(A) /\ Len(Only(s, S)) = Len(s) - 1
      BY <1>2, <2>1, <3>1, OnlyType
    <3>3. Len(Append(Only(s, S), y)) = Len(Only(s, S)) + 1
      BY <3>2
    <3> QED BY <2>2, <2>3, <2>5, <3>2, <3>3
  <2> QED BY <2>4, <2>5
<1> HIDE DEF T
<1>3. Seq(A) \subseteq T
  BY <1>1, <1>2, SequenceInduction
<1> QED BY <1>3 DEF T

\* What is left of a sequence without its first element.
LEMMA OnlyTail ==
  ASSUME NEW A, NEW S, NEW s \in Seq(A), s # <<>>, IsInjective(s),
         \A x \in A : x \in S <=> x # Head(s)
  PROVE  Only(s, S) = Tail(s)
<1> DEFINE h == <<Head(s)>>
           t == Tail(s)
<1>1. h \in Seq(A) /\ t \in Seq(A) /\ s = h \o t
  OBVIOUS
<1>2. Head(s) \in A /\ Range(h) \intersect S = {}
  BY DEF Range
<1>3. Range(t) \subseteq S
  <2> SUFFICES ASSUME NEW i \in DOMAIN t PROVE t[i] \in S
    BY DEF Range
  <2>1. i + 1 \in DOMAIN s /\ 1 \in DOMAIN s /\ s[i + 1] = t[i] /\ s[1] = Head(s) /\ i + 1 # 1
    OBVIOUS
  <2>2. t[i] # Head(s) /\ t[i] \in A
    BY <2>1 DEF IsInjective
  <2> QED BY <2>2
<1> HIDE DEF h, t
<1>4. Only(h, S) = <<>> /\ Only(t, S) = t
  BY <1>1, <1>2, <1>3, OnlyNone, OnlyAll
<1>5. Only(h \o t, S) = Only(h, S) \o Only(t, S)
  BY <1>1, OnlyOfConcat
<1>6. <<>> \o t = t
  BY <1>1
<1> QED BY <1>1, <1>4, <1>5, <1>6 DEF t

\* A first element that passes stays the first.
LEMMA OnlyHead ==
  ASSUME NEW A, NEW S, NEW s \in Seq(A), s # <<>>, Head(s) \in S
  PROVE  Only(s, S) # <<>> /\ Head(Only(s, S)) = Head(s)
<1> DEFINE h == <<Head(s)>>
           t == Tail(s)
<1>1. h \in Seq(A) /\ t \in Seq(A) /\ s = h \o t /\ h # <<>> /\ Head(h) = Head(s)
  OBVIOUS
<1>2. Range(h) \subseteq S
  BY DEF Range
<1> HIDE DEF h, t
<1>3. Only(h, S) = h /\ Only(t, S) \in Seq(A)
  BY <1>1, <1>2, OnlyAll, OnlyType
<1>4. Only(h \o t, S) = Only(h, S) \o Only(t, S)
  BY <1>1, OnlyOfConcat
<1> DEFINE u == Only(t, S)
<1> HIDE DEF u
<1>5. h \o u # <<>> /\ Head(h \o u) = Head(h)
  BY <1>1, <1>3 DEF u
<1> QED BY <1>1, <1>3, <1>4, <1>5 DEF u

\* The first element that passes comes after elements that do not.
LEMMA OnlyFirst ==
  ASSUME NEW A, NEW S
  PROVE  \A s \in Seq(A) : Only(s, S) # <<>> =>
           \E i \in DOMAIN s : s[i] = Head(Only(s, S)) /\ \A j \in 1 .. i - 1 : s[j] \notin S
<1> DEFINE First(s) ==
             \E i \in DOMAIN s : s[i] = Head(Only(s, S)) /\ \A j \in 1 .. i - 1 : s[j] \notin S
           T == {s \in Seq(A) : Only(s, S) # <<>> => First(s)}
<1>1. <<>> \in T
  BY OnlyOfEmpty
<1>2. ASSUME NEW s \in Seq(A), NEW x \in A, s \in T PROVE Append(s, x) \in T
  <2> DEFINE t == Append(s, x)
             u == Only(s, S)
  <2>1. Only(t, S) = IF x \in S THEN Append(u, x) ELSE u
    BY OnlyOfAppend
  <2>2. /\ t \in Seq(A) /\ Len(t) = Len(s) + 1 /\ t[Len(s) + 1] = x /\ Len(s) \in Nat
        /\ DOMAIN t = 1 .. Len(s) + 1 /\ DOMAIN s = 1 .. Len(s)
        /\ \A i \in 1 .. Len(s) : t[i] = s[i]
    OBVIOUS
  <2>3. u \in Seq(A) /\ Range(u) = Range(s) \intersect S
    BY OnlyType, OnlyRange
  <2>4. u # <<>> => First(s)
    BY <1>2
  <2> HIDE DEF t, u
  <2>5. CASE u # <<>>
    <3>1. PICK i \in DOMAIN s : s[i] = Head(u) /\ \A j \in 1 .. i - 1 : s[j] \notin S
      BY <2>4, <2>5 DEF u
    <3>2. Head(Only(t, S)) = Head(u)
      BY <2>1, <2>3, <2>5
    <3>3. i \in DOMAIN t /\ t[i] = Head(Only(t, S)) /\ \A j \in 1 .. i - 1 : t[j] \notin S
      BY <2>2, <3>1, <3>2
    <3> QED BY <2>2, <3>3 DEF t
  <2>6. CASE u = <<>> /\ x \in S
    <3>1. \A j \in 1 .. Len(s) : s[j] \notin S
      BY <2>2, <2>3, <2>6 DEF Range
    <3>2. Head(Only(t, S)) = x
      BY <2>1, <2>3, <2>6
    <3>3. Len(s) + 1 \in DOMAIN t /\ t[Len(s) + 1] = Head(Only(t, S))
          /\ \A j \in 1 .. (Len(s) + 1) - 1 : t[j] \notin S
      BY <2>2, <3>1, <3>2
    <3> QED BY <2>2, <3>3 DEF t
  <2>7. CASE u = <<>> /\ x \notin S
    BY <2>1, <2>2, <2>7 DEF t
  <2> QED BY <2>5, <2>6, <2>7
<1> HIDE DEF T
<1>3. Seq(A) \subseteq T
  BY <1>1, <1>2, SequenceInduction
<1> QED BY <1>3 DEF T

-----------------------------------------------------------------------------
(* Prefixes *)

LEMMA PrefixIs ==
  ASSUME NEW A, NEW s \in Seq(A), NEW t \in Seq(A)
  PROVE  IsPrefix(s, t) <=> Len(s) <= Len(t) /\ \A i \in 1 .. Len(s) : s[i] = t[i]
<1>1. ASSUME Len(s) <= Len(t)
      PROVE  SubSeq(s, 1, Len(s)) = SubSeq(t, 1, Len(s)) <=> \A i \in 1 .. Len(s) : s[i] = t[i]
  <2> DEFINE u == SubSeq(s, 1, Len(s))
             v == SubSeq(t, 1, Len(s))
  <2>1. /\ u \in Seq(A) /\ v \in Seq(A) /\ Len(u) = Len(s) /\ Len(v) = Len(s)
        /\ \A i \in 1 .. Len(s) : u[i] = s[i] /\ v[i] = t[i]
    BY <1>1
  <2> HIDE DEF u, v
  <2>2. u = v <=> \A i \in 1 .. Len(s) : u[i] = v[i]
    BY <2>1, SeqEqual
  <2> QED BY <2>1, <2>2 DEF u, v
<1> QED BY <1>1 DEF IsPrefix

\* Two prefixes of a sequence: the first, and what only the second has, are another.
LEMMA PrefixesMerge ==
  ASSUME NEW A, NEW w \in Seq(A), NEW p \in Seq(A), NEW l \in Seq(A), NEW S,
         IsInjective(w), IsPrefix(p, w), IsPrefix(l, w),
         \A x \in Range(l) : x \in S <=> x \notin Range(p)
  PROVE  IsPrefix(p \o Only(l, S), w)
<1>1. /\ Len(p) <= Len(w) /\ \A i \in 1 .. Len(p) : p[i] = w[i]
      /\ Len(l) <= Len(w) /\ \A i \in 1 .. Len(l) : l[i] = w[i]
  BY PrefixIs
<1>2. CASE Len(l) <= Len(p)
  <2>1. Range(l) \subseteq Range(p)
    <3> SUFFICES ASSUME NEW i \in DOMAIN l PROVE l[i] \in Range(p)
      BY DEF Range
    <3>1. i \in DOMAIN p /\ l[i] = p[i]
      BY <1>1, <1>2
    <3> QED BY <3>1 DEF Range
  <2>2. Only(l, S) = <<>>
    BY <2>1, OnlyNone
  <2>3. p \o <<>> = p
    OBVIOUS
  <2> QED BY <2>2, <2>3
<1>3. CASE Len(p) < Len(l)
  <2> DEFINE r == SubSeq(l, Len(p) + 1, Len(l))
  <2>1. /\ r \in Seq(A) /\ Len(r) = Len(l) - Len(p)
        /\ \A i \in 1 .. Len(r) : r[i] = l[Len(p) + i]
    BY <1>3
  <2>2. l = p \o r
    <3>1. p \o r \in Seq(A) /\ Len(p \o r) = Len(l)
      BY <2>1
    <3>2. \A i \in 1 .. Len(l) : l[i] = (p \o r)[i]
      BY <1>1, <1>3, <2>1
    <3> HIDE DEF r
    <3> QED BY <3>1, <3>2, SeqEqual
  <2> HIDE DEF r
  <2>3. Range(p) \intersect S = {}
    <3> SUFFICES ASSUME NEW i \in DOMAIN p PROVE p[i] \notin S
      BY DEF Range
    <3>1. i \in DOMAIN l /\ l[i] = p[i]
      BY <1>1, <1>3, SMTT(30)
    <3> QED BY <3>1 DEF Range
  <2>4. Range(r) \subseteq S
    <3> SUFFICES ASSUME NEW i \in DOMAIN r PROVE r[i] \in S
      BY DEF Range
    <3>1. Len(p) + i \in DOMAIN l /\ r[i] = l[Len(p) + i] /\ Len(p) + i \in DOMAIN w
      BY <1>1, <1>3, <2>1
    <3>2. ASSUME NEW j \in DOMAIN p PROVE j \in DOMAIN w /\ j # Len(p) + i /\ p[j] = w[j]
      <4>1. j \in 1 .. Len(p) /\ i >= 1 /\ Len(p) \in Nat
        BY <2>1
      <4> QED BY <1>1, <4>1, SMTT(30)
    <3>3. r[i] = w[Len(p) + i]
      BY <1>1, <3>1
    <3>4. r[i] \notin Range(p) /\ r[i] \in Range(l)
      BY <3>1, <3>2, <3>3 DEF IsInjective, Range
    <3> QED BY <3>4
  <2>5. Only(p, S) = <<>> /\ Only(r, S) = r
    BY <2>1, <2>3, <2>4, OnlyNone, OnlyAll
  <2>6. Only(p \o r, S) = Only(p, S) \o Only(r, S)
    BY <2>1, OnlyOfConcat
  <2>7. <<>> \o r = r
    BY <2>1
  <2> QED BY <2>2, <2>5, <2>6, <2>7
<1> QED BY <1>2, <1>3

=============================================================================
