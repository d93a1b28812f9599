--------------------------- MODULE SequenceFacts ---------------------------
(***************************************************************************)
(* Facts about finite sequences used as queues: what removing the head and *)
(* appending do to a queue that is split into two parts; and what          *)
(* FlattenSeq does, by induction.                                          *)
(***************************************************************************)
EXTENDS SequencesExt, SequenceTheorems, WellFoundedInduction, TLAPS

\* A sequence that is not empty is its head before its tail.
LEMMA HeadBeforeTail ==
  ASSUME NEW S, NEW s \in Seq(S), s # <<>>
  PROVE  /\ Head(s) \in S
         /\ Tail(s) \in Seq(S)
         /\ s = <<Head(s)>> \o Tail(s)
<1>1. Head(s) \in S /\ Tail(s) \in Seq(S) /\ Len(Tail(s)) = Len(s) - 1
      /\ \A i \in 1 .. Len(Tail(s)) : Tail(s)[i] = s[i+1]
  BY HeadTailProperties
<1>2. <<Head(s)>> \in Seq(S) /\ Len(<<Head(s)>>) = 1 /\ <<Head(s)>>[1] = Head(s)
  BY <1>1
<1> DEFINE t == <<Head(s)>> \o Tail(s)
<1>3. t \in Seq(S) /\ Len(t) = 1 + Len(Tail(s))
      /\ \A i \in 1 .. 1 + Len(Tail(s)) :
           t[i] = IF i <= 1 THEN <<Head(s)>>[i] ELSE Tail(s)[i - 1]
  BY <1>1, <1>2, ConcatProperties
<1>4. \A i \in 1 .. Len(s) : s[i] = t[i]
  <2>1. SUFFICES ASSUME NEW i \in 1 .. Len(s) PROVE s[i] = t[i]
    OBVIOUS
  <2>2. Len(s) \in Nat
    BY LenProperties
  <2>3. CASE i = 1
    BY <2>3, <1>2, <1>3, <1>1, <2>2
  <2>4. CASE i # 1
    <3>1. i - 1 \in 1 .. Len(Tail(s)) /\ i \in 1 .. 1 + Len(Tail(s)) /\ ~(i <= 1)
      BY <2>4, <2>2, <1>1
    <3>2. t[i] = Tail(s)[i - 1]
      BY <3>1, <1>3
    <3>3. Tail(s)[i - 1] = s[(i - 1) + 1]
      BY <3>1, <1>1
    <3> QED BY <3>1, <3>2, <3>3, <2>2
  <2> QED BY <2>3, <2>4
<1>5. Len(s) = Len(t)
  BY <1>1, <1>3, LenProperties
<1>6. s = t
  BY <1>3, <1>4, <1>5, SeqEqual
<1> QED BY <1>1, <1>6

\* Moving the head of q to the end of p leaves p \o q unchanged.
LEMMA MoveHead ==
  ASSUME NEW S, NEW p \in Seq(S), NEW q \in Seq(S), q # <<>>
  PROVE  Append(p, Head(q)) \o Tail(q) = p \o q
<1>1. Head(q) \in S /\ Tail(q) \in Seq(S) /\ q = <<Head(q)>> \o Tail(q)
  BY HeadBeforeTail
<1>2. <<Head(q)>> \in Seq(S)
  BY <1>1
<1>3. Append(p, Head(q)) = p \o <<Head(q)>>
  BY <1>1, AppendIsConcat
<1>4. (p \o <<Head(q)>>) \o Tail(q) = p \o (<<Head(q)>> \o Tail(q))
  BY <1>1, <1>2, ConcatAssociative
<1> QED BY <1>1, <1>3, <1>4

\* Appending to the second sequence appends to the concatenation.
LEMMA AppendToConcat ==
  ASSUME NEW S, NEW p \in Seq(S), NEW q \in Seq(S), NEW e \in S
  PROVE  p \o Append(q, e) = Append(p \o q, e)
<1>1. <<e>> \in Seq(S) /\ p \o q \in Seq(S)
  BY ConcatProperties
<1>2. Append(q, e) = q \o <<e>> /\ Append(p \o q, e) = (p \o q) \o <<e>>
  BY <1>1, AppendIsConcat
<1>3. (p \o q) \o <<e>> = p \o (q \o <<e>>)
  BY <1>1, ConcatAssociative
<1> QED BY <1>2, <1>3

\* A sequence is not longer than one that ends in it.
LEMMA ConcatLonger ==
  ASSUME NEW S, NEW p \in Seq(S), NEW q \in Seq(S)
  PROVE  Len(q) <= Len(p \o q)
BY ConcatProperties, LenProperties

\* The head and the tail of a concatenation come from its first part.
LEMMA HeadTailOfConcat ==
  ASSUME NEW S, NEW p \in Seq(S), NEW q \in Seq(S), p # <<>>
  PROVE  /\ p \o q # <<>>
         /\ Head(p \o q) = Head(p)
         /\ Tail(p \o q) = Tail(p) \o q
<1>1. Head(p) \in S /\ Tail(p) \in Seq(S) /\ p = <<Head(p)>> \o Tail(p)
  BY HeadBeforeTail
<1>2. <<Head(p)>> \in Seq(S) /\ Tail(p) \o q \in Seq(S)
  BY <1>1, ConcatProperties
<1>3. p \o q = <<Head(p)>> \o (Tail(p) \o q)
  BY <1>1, <1>2, ConcatAssociative
<1>4. p \o q \in Seq(S) /\ p \o q # <<>>
  BY ConcatProperties, ConcatEqualIffEmpty
<1>5. Head(p \o q) = Head(p)
  <2>1. Len(p) \in Nat /\ Len(q) \in Nat /\ Len(p) > 0
    BY LenProperties, EmptySeq
  <2>2. (p \o q)[1] = p[1]
    BY <2>1, ConcatProperties
  <2> QED BY <2>2, <1>4
<1>6. p \o q = <<Head(p)>> \o Tail(p \o q)
  BY <1>4, <1>5, HeadBeforeTail
<1>7. Tail(p \o q) \in Seq(S)
  BY <1>4, HeadBeforeTail
<1>8. Tail(p \o q) = Tail(p) \o q
  BY <1>2, <1>3, <1>6, <1>7, ConcatSimplifications
<1> QED BY <1>4, <1>5, <1>8

\* Two parts of a sequence.
LEMMA SplitBehind ==
  ASSUME NEW S, NEW s \in Seq(S), NEW n \in Nat, n <= Len(s)
  PROVE  /\ SubSeq(s, 1, n) \in Seq(S) /\ Len(SubSeq(s, 1, n)) = n
         /\ SubSeq(s, n + 1, Len(s)) \in Seq(S)
         /\ Len(SubSeq(s, n + 1, Len(s))) = Len(s) - n
         /\ \A k \in 1 .. Len(s) - n : SubSeq(s, n + 1, Len(s))[k] = s[n + k]
         /\ SubSeq(s, 1, n) \o SubSeq(s, n + 1, Len(s)) = s
<1> DEFINE a == SubSeq(s, 1, n)
           b == SubSeq(s, n + 1, Len(s))
<1>1. Len(s) \in Nat /\ \A k \in 1 .. Len(s) : s[k] \in S
  BY LenProperties, ElementOfSeq
<1>2. a \in Seq(S) /\ Len(a) = n
  <2>1. a \in Seq(S) /\ Len(a) = (IF 1 <= n THEN n - 1 + 1 ELSE 0)
    BY <1>1, SubSeqProperties
  <2> HIDE DEF a
  <2> QED BY <2>1
<1>3. b \in Seq(S) /\ Len(b) = Len(s) - n
      /\ \A k \in 1 .. Len(s) - n : b[k] = s[n + k]
  <2>1. b \in Seq(S) /\ Len(b) = (IF n + 1 <= Len(s) THEN Len(s) - (n + 1) + 1 ELSE 0)
        /\ \A k \in 1 .. Len(s) - (n + 1) + 1 : b[k] = s[(n + 1) + k - 1]
    BY <1>1, SubSeqProperties
  <2> HIDE DEF b
  <2>2. Len(b) = Len(s) - n
    BY <1>1, <2>1
  <2>3. ASSUME NEW k \in 1 .. Len(s) - n PROVE b[k] = s[n + k]
    <3>1. k \in 1 .. Len(s) - (n + 1) + 1 /\ (n + 1) + k - 1 = n + k
      BY <1>1
    <3> QED BY <2>1, <3>1
  <2> QED BY <2>1, <2>2, <2>3
<1>4. a \o b = s
  <2>1. a \o b = SubSeq(s, 1, Len(s))
    <3>1. 1 \in 1 .. Len(s) + 1 /\ n \in 1 - 1 .. Len(s) /\ Len(s) \in n .. Len(s)
      BY <1>1
    <3> QED BY <3>1, ConcatAdjacentSubSeq
  <2> QED BY <2>1, SubSeqFull
<1> QED BY <1>2, <1>3, <1>4

\* What is left behind an index loses its head when the index advances.
LEMMA AdvanceBehind ==
  ASSUME NEW S, NEW s \in Seq(S), NEW n \in Nat, n < Len(s)
  PROVE  /\ SubSeq(s, n + 1, Len(s)) # <<>>
         /\ Head(SubSeq(s, n + 1, Len(s))) = s[n + 1]
         /\ Tail(SubSeq(s, n + 1, Len(s))) = SubSeq(s, (n + 1) + 1, Len(s))
<1>1. Len(s) \in Nat /\ n + 1 \in 1 .. Len(s) /\ Len(s) \in n + 1 .. Len(s)
  BY LenProperties
<1>2. Head(SubSeq(s, n + 1, Len(s))) = s[n + 1]
      /\ Tail(SubSeq(s, n + 1, Len(s))) = SubSeq(s, (n + 1) + 1, Len(s))
  BY <1>1, HeadTailOfSubSeq
<1>3. Len(SubSeq(s, n + 1, Len(s))) # 0
  BY <1>1, SplitBehind
<1> QED BY <1>2, <1>3, EmptySeq

\* Appending to the whole appends to what is left behind an index.
LEMMA AppendBehind ==
  ASSUME NEW S, NEW s \in Seq(S), NEW n \in Nat, n <= Len(s), NEW e \in S
  PROVE  SubSeq(Append(s, e), n + 1, Len(Append(s, e))) = Append(SubSeq(s, n + 1, Len(s)), e)
<1> DEFINE t == Append(s, e)
           a == SubSeq(s, n + 1, Len(s))
           b == SubSeq(t, n + 1, Len(t))
<1>1. Len(s) \in Nat
  BY LenProperties
<1>2. t \in Seq(S) /\ Len(t) = Len(s) + 1 /\ t[Len(s) + 1] = e
      /\ \A k \in 1 .. Len(s) : t[k] = s[k]
  BY AppendProperties
<1> HIDE DEF t
<1>3. a \in Seq(S) /\ Len(a) = Len(s) - n /\ \A k \in 1 .. Len(s) - n : a[k] = s[n + k]
  BY SplitBehind
<1>4. b \in Seq(S) /\ Len(b) = Len(t) - n /\ \A k \in 1 .. Len(t) - n : b[k] = t[n + k]
  <2>1. n <= Len(t)
    BY <1>1, <1>2
  <2> QED BY <1>2, <2>1, SplitBehind
<1> HIDE DEF a, b
<1>5. Append(a, e) \in Seq(S) /\ Len(Append(a, e)) = (Len(s) - n) + 1
      /\ (\A k \in 1 .. Len(s) - n : Append(a, e)[k] = a[k])
      /\ Append(a, e)[(Len(s) - n) + 1] = e
  BY <1>3, AppendProperties
<1>6. \A k \in 1 .. Len(b) : b[k] = Append(a, e)[k]
  <2>1. SUFFICES ASSUME NEW k \in 1 .. Len(t) - n PROVE b[k] = Append(a, e)[k]
    BY <1>4
  <2>2. b[k] = t[n + k]
    BY <1>4
  <2>3. CASE k = (Len(s) - n) + 1
    <3>1. n + k = Len(s) + 1
      BY <1>1, <2>3
    <3> QED BY <1>2, <1>5, <2>2, <2>3, <3>1
  <2>4. CASE k # (Len(s) - n) + 1
    <3>1. k \in 1 .. Len(s) - n /\ n + k \in 1 .. Len(s)
      BY <1>1, <1>2, <2>4
    <3> QED BY <1>2, <1>3, <1>5, <2>2, <3>1
  <2> QED BY <2>3, <2>4
<1>7. Len(b) = Len(Append(a, e))
  BY <1>1, <1>2, <1>4, <1>5
<1>8. b = Append(a, e)
  BY <1>4, <1>5, <1>6, <1>7, SeqEqual
<1> QED BY <1>8 DEF a, b, t

-----------------------------------------------------------------------------
(* Induction.  The library's induction theorems take the property to be    *)
(* proved as an operator, which the provers cannot instantiate.  Stated    *)
(* for the set of the numbers that have it, induction is first-order; it   *)
(* rests on < being well-founded on Nat.                                   *)

LEMMA NatWellFounded == IsWellFoundedOn({ss \in Nat \X Nat : ss[1] < ss[2]}, Nat)
BY NatLessThanWellFounded, Zenon DEF OpToRel

\* A set of natural numbers that holds 0 and with each number the next one
\* is Nat.
LEMMA NatSetInduction ==
  ASSUME NEW T, T \subseteq Nat, 0 \in T, \A n \in T : n + 1 \in T
  PROVE  T = Nat
<1> DEFINE L == {ss \in Nat \X Nat : ss[1] < ss[2]}
           U == Nat \ T
<1>1. SUFFICES ASSUME U # {} PROVE FALSE
  OBVIOUS
<1>2. IsWellFoundedOn(L, Nat)
  BY NatWellFounded
<1>3. U \subseteq Nat
  OBVIOUS
<1>4. \E n \in U : \A m \in U : ~ (<<m, n>> \in L)
  <2> HIDE DEF L, U
  <2> QED BY <1>1, <1>2, <1>3, WFMin, Zenon
<1>5. PICK n \in U : \A m \in U : ~ (<<m, n>> \in L)
  BY <1>4
<1>6. n # 0
  OBVIOUS
<1>7. n - 1 \in Nat /\ (n - 1) + 1 = n
  BY <1>6
<1>8. <<n - 1, n>> \in L
  BY <1>7
<1>9. n - 1 \in T
  BY <1>5, <1>7, <1>8
<1> QED BY <1>7, <1>9

-----------------------------------------------------------------------------
(* FlattenSeq.  Joins(g, ss, n) says that g is the function whose value at *)
(* the last index is the flattened sequence.                               *)

Joins(g, ss, n) ==
    g = [i \in 1 .. n |-> IF i = 1 THEN ss[i] ELSE g[i-1] \o ss[i]]

LEMMA JoinsExists ==
  ASSUME NEW ss, NEW n \in Nat
  PROVE  \E g : Joins(g, ss, n)
<1> DEFINE T == {k \in Nat : \E g : Joins(g, ss, k)}
<1>1. 0 \in T
  <2>1. Joins([i \in 1 .. 0 |-> ss], ss, 0)
    BY DEF Joins
  <2> QED BY <2>1
<1>2. ASSUME NEW k \in T PROVE k + 1 \in T
  <2>1. PICK g : Joins(g, ss, k)
    OBVIOUS
  <2> DEFINE h == [i \in 1 .. k + 1 |-> IF i = 1 THEN ss[i] ELSE g[i-1] \o ss[i]]
  <2>2. \A i \in 1 .. k : h[i] = g[i]
    <3>1. SUFFICES ASSUME NEW i \in 1 .. k PROVE h[i] = g[i]
      OBVIOUS
    <3>2. g[i] = (IF i = 1 THEN ss[i] ELSE g[i-1] \o ss[i])
      BY <2>1, Zenon DEF Joins
    <3>3. i \in 1 .. k + 1
      OBVIOUS
    <3> QED BY <3>2, <3>3, Zenon
  <2>3. \A i \in 1 .. k + 1 : i # 1 => i - 1 \in 1 .. k
    OBVIOUS
  <2>4. Joins(h, ss, k + 1)
    BY <2>2, <2>3 DEF Joins
  <2> QED BY <2>4
<1>3. T = Nat
  <2> HIDE DEF T
  <2>1. T \subseteq Nat
    BY DEF T
  <2> QED BY <1>1, <1>2, <2>1, NatSetInduction, Zenon
<1> QED BY <1>3

\* It is unique, and at an index it depends only on what comes before.
LEMMA JoinsAgree ==
  ASSUME NEW ss, NEW tt, NEW g, NEW h, NEW m \in Nat, NEW n \in Nat,
         Joins(g, ss, m), Joins(h, tt, n), m <= n,
         \A i \in 1 .. m : ss[i] = tt[i]
  PROVE  \A i \in 1 .. m : g[i] = h[i]
<1> DEFINE T == {k \in Nat : k \in 1 .. m => g[k] = h[k]}
<1>1. 0 \in T
  OBVIOUS
<1>2. ASSUME NEW k \in T PROVE k + 1 \in T
  <2>1. SUFFICES ASSUME k + 1 \in 1 .. m PROVE g[k+1] = h[k+1]
    OBVIOUS
  <2>2. g[k+1] = (IF k + 1 = 1 THEN ss[k+1] ELSE g[(k+1)-1] \o ss[k+1])
    BY <2>1, Zenon DEF Joins
  <2>3. k + 1 \in 1 .. n
    BY <2>1
  <2>4. h[k+1] = (IF k + 1 = 1 THEN tt[k+1] ELSE h[(k+1)-1] \o tt[k+1])
    BY <2>3, Zenon DEF Joins
  <2>5. ss[k+1] = tt[k+1]
    BY <2>1
  <2>6. CASE k = 0
    BY <2>2, <2>4, <2>5, <2>6
  <2>7. CASE k # 0
    <3>1. (k + 1) - 1 = k /\ k + 1 # 1 /\ k \in 1 .. m
      BY <2>1, <2>7
    <3>2. g[k] = h[k]
      BY <3>1
    <3> QED BY <2>2, <2>4, <2>5, <3>1, <3>2, Zenon
  <2> QED BY <2>6, <2>7
<1>3. T = Nat
  <2> HIDE DEF T
  <2>1. T \subseteq Nat
    BY DEF T
  <2> QED BY <1>1, <1>2, <2>1, NatSetInduction, Zenon
<1> QED BY <1>3

LEMMA FlattenJoins ==
  ASSUME NEW ss, Len(ss) \in Nat, Len(ss) # 0
  PROVE  \E g : Joins(g, ss, Len(ss)) /\ FlattenSeq(ss) = g[Len(ss)]
<1>1. \E g : Joins(g, ss, Len(ss))
  BY JoinsExists
<1> DEFINE P(g) == Joins(g, ss, Len(ss))
           c == CHOOSE g : P(g)
<1>2. P(c)
  <2> HIDE DEF P
  <2> QED BY <1>1, Zenon DEF P
<1>3. FlattenSeq(ss) = c[Len(ss)]
  BY Zenon DEF FlattenSeq, Joins
<1> QED BY <1>2, <1>3, Zenon

\* A value of the function is a sequence of the elements of its parts.
LEMMA JoinsType ==
  ASSUME NEW S, NEW ss \in Seq(Seq(S)), NEW g, Joins(g, ss, Len(ss))
  PROVE  \A i \in 1 .. Len(ss) : g[i] \in Seq(S)
<1> DEFINE T == {k \in Nat : k \in 1 .. Len(ss) => g[k] \in Seq(S)}
<1>0. Len(ss) \in Nat /\ \A i \in 1 .. Len(ss) : ss[i] \in Seq(S)
  BY LenProperties, ElementOfSeq
<1>1. 0 \in T
  OBVIOUS
<1>2. ASSUME NEW k \in T PROVE k + 1 \in T
  <2>1. SUFFICES ASSUME k + 1 \in 1 .. Len(ss) PROVE g[k+1] \in Seq(S)
    OBVIOUS
  <2>2. g[k+1] = (IF k + 1 = 1 THEN ss[k+1] ELSE g[(k+1)-1] \o ss[k+1])
    BY <2>1, Zenon DEF Joins
  <2>3. CASE k = 0
    BY <1>0, <2>1, <2>2, <2>3
  <2>4. CASE k # 0
    <3>1. (k + 1) - 1 = k /\ k + 1 # 1 /\ k \in 1 .. Len(ss)
      BY <1>0, <2>1, <2>4
    <3>2. g[k] \in Seq(S) /\ ss[k+1] \in Seq(S)
      BY <1>0, <2>1, <3>1
    <3>3. g[k] \o ss[k+1] \in Seq(S)
      BY <3>2, ConcatProperties
    <3> QED BY <2>2, <3>1, <3>3, Zenon
  <2> QED BY <2>3, <2>4
<1>3. T = Nat
  <2> HIDE DEF T
  <2>1. T \subseteq Nat
    BY DEF T
  <2> QED BY <1>1, <1>2, <2>1, NatSetInduction, Zenon
<1>4. SUFFICES ASSUME NEW i \in 1 .. Len(ss) PROVE g[i] \in Seq(S)
  OBVIOUS
<1>5. i \in T
  <2>1. i \in Nat
    BY <1>0
  <2> HIDE DEF T
  <2> QED BY <1>3, <2>1
<1> QED BY <1>5

LEMMA FlattenEmpty == FlattenSeq(<<>>) = <<>>
BY EmptySeq, Zenon DEF FlattenSeq

LEMMA FlattenType ==
  ASSUME NEW S, NEW ss \in Seq(Seq(S))
  PROVE  FlattenSeq(ss) \in Seq(S)
<1>0. Len(ss) \in Nat
  BY LenProperties
<1>1. CASE ss = <<>>
  BY <1>1, FlattenEmpty, EmptySeq
<1>2. CASE ss # <<>>
  <2>1. Len(ss) # 0 /\ Len(ss) \in 1 .. Len(ss)
    BY <1>0, <1>2, EmptySeq
  <2>2. PICK g : Joins(g, ss, Len(ss)) /\ FlattenSeq(ss) = g[Len(ss)]
    BY <1>0, <2>1, FlattenJoins
  <2> QED BY <2>1, <2>2, JoinsType
<1> QED BY <1>1, <1>2

\* A sequence appended goes to the end.
LEMMA FlattenAppend ==
  ASSUME NEW S, NEW ss \in Seq(Seq(S)), NEW s \in Seq(S)
  PROVE  FlattenSeq(Append(ss, s)) = FlattenSeq(ss) \o s
<1> DEFINE tt == Append(ss, s)
           n == Len(ss)
<1>0. n \in Nat
  BY LenProperties
<1>1. tt \in Seq(Seq(S)) /\ Len(tt) = n + 1 /\ tt[n + 1] = s
      /\ \A i \in 1 .. n : ss[i] = tt[i]
  BY AppendProperties
<1>2. Len(tt) \in Nat /\ Len(tt) # 0 /\ n + 1 \in 1 .. n + 1
  BY <1>0, <1>1
<1>3. PICK h : Joins(h, tt, Len(tt)) /\ FlattenSeq(tt) = h[Len(tt)]
  BY <1>2, FlattenJoins
<1>4. Joins(h, tt, n + 1) /\ FlattenSeq(tt) = h[n + 1]
  BY <1>1, <1>3, Zenon
<1>5. h[n + 1] = (IF n + 1 = 1 THEN tt[n + 1] ELSE h[(n + 1) - 1] \o tt[n + 1])
  BY <1>2, <1>4, Zenon DEF Joins
<1>6. CASE n = 0
  <2>1. ss = <<>>
    BY <1>6, EmptySeq
  <2>2. FlattenSeq(ss) \o s = s
    BY <2>1, FlattenEmpty, ConcatEmptySeq, Zenon
  <2>3. n + 1 = 1
    BY <1>6
  <2> QED BY <1>1, <1>4, <1>5, <2>2, <2>3, Zenon
<1>7. CASE n # 0
  <2>1. PICK g : Joins(g, ss, n) /\ FlattenSeq(ss) = g[n]
    BY <1>0, <1>7, FlattenJoins, Zenon
  <2>2. n + 1 \in Nat /\ n <= n + 1 /\ n \in 1 .. n /\ (n + 1) - 1 = n /\ n + 1 # 1
    BY <1>0, <1>7
  <2>3. g[n] = h[n]
    <3> HIDE DEF n, tt
    <3>1. \A i \in 1 .. n : ss[i] = tt[i]
      BY <1>1
    <3>2. Joins(g, ss, n) /\ Joins(h, tt, n + 1)
      BY <1>4, <2>1
    <3>3. \A i \in 1 .. n : g[i] = h[i]
      BY <1>0, <2>2, <3>1, <3>2, JoinsAgree
    <3> QED BY <2>2, <3>3
  <2> QED BY <1>1, <1>4, <1>5, <2>1, <2>2, <2>3, Zenon
<1> QED BY <1>6, <1>7

\* A set of sequences that holds the empty one and with each sequence all
\* that are one element longer holds all.
LEMMA SeqSetInduction ==
  ASSUME NEW S, NEW T, T \subseteq Seq(S), <<>> \in T,
         \A s \in T : \A e \in S : Append(s, e) \in T
  PROVE  T = Seq(S)
<1> DEFINE L == {n \in Nat : \A s \in Seq(S) : Len(s) = n => s \in T}
<1>1. 0 \in L
  BY EmptySeq
<1>2. ASSUME NEW n \in L PROVE n + 1 \in L
  <2>1. SUFFICES ASSUME NEW s \in Seq(S), Len(s) = n + 1 PROVE s \in T
    OBVIOUS
  <2>2. s # <<>>
    BY <2>1, EmptySeq
  <2>3. PICK t \in Seq(S), e \in S : s = Append(t, e)
    BY <2>2, SequenceEmptyOrAppend
  <2>4. Len(t) \in Nat /\ Len(s) = Len(t) + 1
    BY <2>3, AppendProperties, LenProperties
  <2>5. Len(t) = n
    BY <2>1, <2>4
  <2>6. t \in T
    BY <2>3, <2>5
  <2> QED BY <2>3, <2>6
<1>3. L = Nat
  <2> HIDE DEF L
  <2>1. L \subseteq Nat
    BY DEF L
  <2> QED BY <1>1, <1>2, <2>1, NatSetInduction, Zenon
<1>4. SUFFICES ASSUME NEW s \in Seq(S) PROVE s \in T
  OBVIOUS
<1>5. Len(s) \in L
  <2>1. Len(s) \in Nat
    BY LenProperties
  <2> HIDE DEF L
  <2> QED BY <1>3, <2>1
<1> QED BY <1>5

\* A sequence of one sequence.
LEMMA FlattenOne ==
  ASSUME NEW S, NEW s \in Seq(S)
  PROVE  FlattenSeq(<<s>>) = s
<1>1. <<>> \in Seq(Seq(S)) /\ Append(<<>>, s) = <<s>>
  OBVIOUS
<1>2. FlattenSeq(Append(<<>>, s)) = FlattenSeq(<<>>) \o s
  BY <1>1, FlattenAppend
<1>3. <<>> \o s = s
  BY ConcatEmptySeq
<1> QED BY <1>1, <1>2, <1>3, FlattenEmpty, Zenon

\* The parts can be flattened apart.
LEMMA FlattenConcat ==
  ASSUME NEW S, NEW ss \in Seq(Seq(S)), NEW tt \in Seq(Seq(S))
  PROVE  FlattenSeq(ss \o tt) = FlattenSeq(ss) \o FlattenSeq(tt)
<1>1. \A p, q, r \in Seq(S) : (p \o q) \o r = p \o (q \o r)
  BY ConcatAssociative, SMTT(30)
<1> DEFINE T == {u \in Seq(Seq(S)) :
                   FlattenSeq(ss \o u) = FlattenSeq(ss) \o FlattenSeq(u)}
<1>0. FlattenSeq(ss) \in Seq(S)
  BY FlattenType
<1>2. <<>> \in T
  <2>1. ss \o <<>> = ss /\ FlattenSeq(ss) \o <<>> = FlattenSeq(ss)
    BY <1>0, ConcatEmptySeq
  <2>2. <<>> \in Seq(Seq(S))
    BY EmptySeq
  <2> QED BY <2>1, <2>2, FlattenEmpty
<1>3. ASSUME NEW u \in T, NEW e \in Seq(S) PROVE Append(u, e) \in T
  <2>1. u \in Seq(Seq(S)) /\ FlattenSeq(ss \o u) = FlattenSeq(ss) \o FlattenSeq(u)
    OBVIOUS
  <2> HIDE DEF T
  <2>2. ss \o u \in Seq(Seq(S)) /\ Append(u, e) \in Seq(Seq(S))
    BY <2>1, ConcatProperties, AppendProperties
  <2>3. ss \o Append(u, e) = Append(ss \o u, e)
    BY <1>3, <2>1, AppendToConcat, SMTT(30)
  <2>4. FlattenSeq(Append(ss \o u, e)) = FlattenSeq(ss \o u) \o e
    BY <2>2, FlattenAppend
  <2>5. FlattenSeq(Append(u, e)) = FlattenSeq(u) \o e
    BY <2>1, FlattenAppend
  <2>6. FlattenSeq(u) \in Seq(S)
    BY <2>1, FlattenType
  <2>7. (FlattenSeq(ss) \o FlattenSeq(u)) \o e = FlattenSeq(ss) \o (FlattenSeq(u) \o e)
    BY <1>0, <1>1, <2>6, Zenon
  <2>8. FlattenSeq(ss \o Append(u, e)) = FlattenSeq(ss) \o FlattenSeq(Append(u, e))
    BY <2>1, <2>3, <2>4, <2>5, <2>7, Zenon
  <2> QED BY <2>2, <2>8 DEF T
<1>4. T = Seq(Seq(S))
  <2> HIDE DEF T
  <2>1. T \subseteq Seq(Seq(S))
    BY DEF T
  <2> QED BY <1>2, <1>3, <2>1, SeqSetInduction, Zenon
<1> QED BY <1>4

\* The first part comes first.
LEMMA FlattenHead ==
  ASSUME NEW S, NEW ss \in Seq(Seq(S)), ss # <<>>
  PROVE  FlattenSeq(ss) = Head(ss) \o FlattenSeq(Tail(ss))
<1>1. Head(ss) \in Seq(S) /\ Tail(ss) \in Seq(Seq(S)) /\ ss = <<Head(ss)>> \o Tail(ss)
  BY HeadBeforeTail
<1>2. <<Head(ss)>> \in Seq(Seq(S))
  BY <1>1
<1>3. FlattenSeq(<<Head(ss)>> \o Tail(ss)) = FlattenSeq(<<Head(ss)>>) \o FlattenSeq(Tail(ss))
  BY <1>1, <1>2, FlattenConcat
<1>4. FlattenSeq(<<Head(ss)>>) = Head(ss)
  BY <1>1, FlattenOne
<1> QED BY <1>1, <1>3, <1>4, Zenon

\* Empty parts add nothing.
LEMMA FlattenOfEmpty ==
  ASSUME NEW S, NEW ss \in Seq(Seq(S)), \A i \in 1 .. Len(ss) : ss[i] = <<>>
  PROVE  FlattenSeq(ss) = <<>>
<1> DEFINE T == {u \in Seq(Seq(S)) :
                   (\A i \in 1 .. Len(u) : u[i] = <<>>) => FlattenSeq(u) = <<>>}
<1>1. <<>> \in T
  BY FlattenEmpty, EmptySeq
<1>2. ASSUME NEW u \in T, NEW e \in Seq(S) PROVE Append(u, e) \in T
  <2>1. Append(u, e) \in Seq(Seq(S)) /\ Len(Append(u, e)) = Len(u) + 1
        /\ Append(u, e)[Len(u) + 1] = e
        /\ (\A i \in 1 .. Len(u) : Append(u, e)[i] = u[i])
        /\ Len(u) \in Nat
    BY AppendProperties, LenProperties
  <2>2. SUFFICES ASSUME \A i \in 1 .. Len(u) + 1 : Append(u, e)[i] = <<>>
                 PROVE  FlattenSeq(Append(u, e)) = <<>>
    BY <2>1
  <2>3. e = <<>> /\ \A i \in 1 .. Len(u) : u[i] = <<>>
    BY <2>1, <2>2
  <2>4. FlattenSeq(u) = <<>> /\ FlattenSeq(Append(u, e)) = FlattenSeq(u) \o e
    BY <2>3, FlattenAppend
  <2>5. <<>> \o <<>> = <<>>
    BY EmptySeq, ConcatEmptySeq
  <2> QED BY <2>3, <2>4, <2>5, Zenon
<1>3. T = Seq(Seq(S))
  <2> HIDE DEF T
  <2>1. T \subseteq Seq(Seq(S))
    BY DEF T
  <2> QED BY <1>1, <1>2, <2>1, SeqSetInduction, Zenon
<1> QED BY <1>3

\* A sequence is what comes before an index, the element there, and what
\* comes behind it.
LEMMA SplitAt ==
  ASSUME NEW S, NEW s \in Seq(S), NEW i \in 1 .. Len(s)
  PROVE  s = (SubSeq(s, 1, i - 1) \o <<s[i]>>) \o SubSeq(s, i + 1, Len(s))
<1>1. Len(s) \in Nat /\ i \in Int /\ 1 \in 1 .. Len(s) /\ 1 \in 1 .. Len(s) + 1
      /\ i \in 1 - 1 .. Len(s) /\ Len(s) \in i .. Len(s)
  BY LenProperties
<1>2. SubSeq(s, 1, i) = SubSeq(s, 1, i - 1) \o <<s[i]>>
  BY <1>1, SubSeqRecursiveSecond
<1>3. SubSeq(s, 1, i) \o SubSeq(s, i + 1, Len(s)) = SubSeq(s, 1, Len(s))
  BY <1>1, ConcatAdjacentSubSeq
<1>4. SubSeq(s, 1, Len(s)) = s
  BY SubSeqFull
<1> QED BY <1>2, <1>3, <1>4, Zenon

\* Sequences with the same elements from m to n.
LEMMA SubSeqAgree ==
  ASSUME NEW S, NEW s \in Seq(S), NEW t \in Seq(S), NEW m \in Int, NEW n \in Int,
         1 <= m, n <= Len(s), n <= Len(t), \A j \in m .. n : s[j] = t[j]
  PROVE  SubSeq(s, m, n) = SubSeq(t, m, n)
<1> DEFINE a == SubSeq(s, m, n)
           b == SubSeq(t, m, n)
           k == IF m <= n THEN n - m + 1 ELSE 0
<1>1. \A j \in m .. n : s[j] \in S /\ t[j] \in S
  BY LenProperties, ElementOfSeq
<1>2. a \in Seq(S) /\ Len(a) = k /\ \A j \in 1 .. n - m + 1 : a[j] = s[m+j-1]
  BY <1>1, SubSeqProperties
<1>3. b \in Seq(S) /\ Len(b) = k /\ \A j \in 1 .. n - m + 1 : b[j] = t[m+j-1]
  BY <1>1, SubSeqProperties
<1> HIDE DEF a, b
<1>4. \A j \in 1 .. k : a[j] = b[j]
  <2>1. SUFFICES ASSUME NEW j \in 1 .. k PROVE a[j] = b[j]
    OBVIOUS
  <2>2. j \in 1 .. n - m + 1 /\ m + j - 1 \in m .. n
    OBVIOUS
  <2> QED BY <1>2, <1>3, <2>2
<1> HIDE DEF k
<1>5. a = b
  BY <1>2, <1>3, <1>4, SeqEqual
<1> QED BY <1>5 DEF a, b

\* An element appended to the last part that is not empty, or to an empty
\* one behind it, is appended to the flattened sequence.
LEMMA FlattenAppendToPart ==
  ASSUME NEW S, NEW ss \in Seq(Seq(S)), NEW i \in 1 .. Len(ss), NEW e \in S,
         \A j \in 1 .. Len(ss) : j > i => ss[j] = <<>>
  PROVE  FlattenSeq([ss EXCEPT ![i] = Append(@, e)]) = Append(FlattenSeq(ss), e)
<1> DEFINE n == Len(ss)
           a == SubSeq(ss, 1, i - 1)
           z == SubSeq(ss, i + 1, n)
           tt == [ss EXCEPT ![i] = Append(ss[i], e)]
<1>0. n \in Nat /\ i \in Nat /\ ss[i] \in Seq(S) /\ Append(ss[i], e) \in Seq(S)
  BY LenProperties, ElementOfSeq, AppendProperties
<1>1. tt \in Seq(Seq(S)) /\ Len(tt) = n
      /\ \A j \in 1 .. n : tt[j] = IF j = i THEN Append(ss[i], e) ELSE ss[j]
  BY <1>0, ExceptSeq
<1>2. a \in Seq(Seq(S))
  <2>1. \A j \in 1 .. i - 1 : ss[j] \in Seq(S)
    BY <1>0, ElementOfSeq
  <2> QED BY <1>0, <2>1, SubSeqProperties
<1>3. z \in Seq(Seq(S)) /\ \A j \in 1 .. Len(z) : z[j] = <<>>
  <2>1. \A j \in i + 1 .. n : ss[j] \in Seq(S) /\ ss[j] = <<>>
    BY <1>0, ElementOfSeq
  <2>2. z \in Seq(Seq(S)) /\ Len(z) = (IF i + 1 <= n THEN n - (i + 1) + 1 ELSE 0)
        /\ \A j \in 1 .. n - (i + 1) + 1 : z[j] = ss[(i + 1) + j - 1]
    BY <1>0, <2>1, SubSeqProperties
  <2> HIDE DEF z
  <2>3. SUFFICES ASSUME NEW j \in 1 .. Len(z) PROVE z[j] = <<>>
    BY <2>2
  <2>4. j \in 1 .. n - (i + 1) + 1 /\ (i + 1) + j - 1 \in i + 1 .. n
    BY <1>0, <2>2
  <2> QED BY <2>1, <2>2, <2>4
<1>4. ss = (a \o <<ss[i]>>) \o z
  BY SplitAt
<1>5. tt = (SubSeq(tt, 1, i - 1) \o <<tt[i]>>) \o SubSeq(tt, i + 1, n)
  <2>1. i \in 1 .. Len(tt)
    BY <1>1
  <2> HIDE DEF tt
  <2> QED BY <1>1, <2>1, SplitAt
<1>6. SubSeq(tt, 1, i - 1) = a /\ SubSeq(tt, i + 1, n) = z /\ tt[i] = Append(ss[i], e)
  <2>1. \A j \in 1 .. i - 1 : tt[j] = ss[j]
    BY <1>0, <1>1
  <2>2. \A j \in i + 1 .. n : tt[j] = ss[j]
    BY <1>0, <1>1
  <2> HIDE DEF tt
  <2>3. SubSeq(tt, 1, i - 1) = a
    BY <1>0, <1>1, <2>1, SubSeqAgree
  <2>4. SubSeq(tt, i + 1, n) = z
    BY <1>0, <1>1, <2>2, SubSeqAgree
  <2> QED BY <1>0, <1>1, <2>3, <2>4
<1> HIDE DEF a, z, n, tt
<1>7. FlattenSeq(z) = <<>>
  BY <1>3, FlattenOfEmpty
<1>8. FlattenSeq(a) \in Seq(S)
  BY <1>2, FlattenType
<1>9. ASSUME NEW s \in Seq(S)
      PROVE  FlattenSeq((a \o <<s>>) \o z) = FlattenSeq(a) \o s
  <2> DEFINE o == <<s>>
             b == a \o o
  <2>1. o \in Seq(Seq(S)) /\ FlattenSeq(o) = s
    BY FlattenOne
  <2> HIDE DEF o
  <2>2. b \in Seq(Seq(S)) /\ FlattenSeq(b) = FlattenSeq(a) \o s
    BY <1>2, <2>1, FlattenConcat, ConcatProperties
  <2> HIDE DEF b
  <2>3. FlattenSeq(b \o z) = FlattenSeq(b) \o FlattenSeq(z)
    BY <1>3, <2>2, FlattenConcat
  <2>4. FlattenSeq(b) \in Seq(S)
    BY <2>2, FlattenType
  <2>5. FlattenSeq(b) \o <<>> = FlattenSeq(b)
    BY <2>4, ConcatEmptySeq
  <2> QED BY <1>7, <2>2, <2>3, <2>5, Zenon DEF b, o
<1>10. FlattenSeq(a) \o Append(ss[i], e) = Append(FlattenSeq(a) \o ss[i], e)
  BY <1>0, <1>8, AppendToConcat
<1>11. FlattenSeq(ss) = FlattenSeq(a) \o ss[i]
  BY <1>0, <1>4, <1>9, Zenon
<1>12. FlattenSeq(tt) = FlattenSeq(a) \o Append(ss[i], e)
  BY <1>0, <1>5, <1>6, <1>9, Zenon
<1> QED BY <1>10, <1>11, <1>12, Zenon DEF tt
=============================================================================
