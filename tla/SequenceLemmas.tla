-------------------------- MODULE SequenceLemmas --------------------------
(***************************************************************************)
(* What the queues and lists of the models are built from does to a        *)
(* sequence.                                                               *)
(***************************************************************************)
EXTENDS SequencesExt, SequenceTheorems, WellFoundedInduction, TLAPS

\* What the buffer, or a session, takes of some data ...
LEMMA PrefixType ==
    ASSUME NEW S, NEW s \in Seq(S), NEW n \in 0..Len(s)
    PROVE  SubSeq(s, 1, n) \in Seq(S)
<1>1. \A i \in 1..n : s[i] \in S
  BY ElementOfSeq, LenProperties
<1>2. QED
  BY <1>1, SubSeqProperties, LenProperties

\* ... and what it leaves.
LEMMA RestType ==
    ASSUME NEW S, NEW s \in Seq(S), NEW n \in 0..Len(s)
    PROVE  SubSeq(s, n + 1, Len(s)) \in Seq(S)
<1>1. Len(s) \in Nat /\ n \in Nat /\ \A i \in n + 1 .. Len(s) : s[i] \in S
  BY ElementOfSeq, LenProperties
<1>2. QED
  BY <1>1, SubSeqProperties

LEMMA RestElements ==
    ASSUME NEW S, NEW s \in Seq(S), NEW n \in 0..Len(s)
    PROVE  /\ Len(SubSeq(s, n + 1, Len(s))) = Len(s) - n
           /\ \A i \in 1 .. Len(s) - n : n + i \in 1..Len(s) /\ SubSeq(s, n + 1, Len(s))[i] = s[n + i]
<1>1. Len(s) \in Nat /\ n \in Nat /\ \A i \in n + 1 .. Len(s) : s[i] \in S
  BY ElementOfSeq, LenProperties
<1>2. /\ Len(SubSeq(s, n + 1, Len(s))) = IF n + 1 <= Len(s) THEN Len(s) - (n + 1) + 1 ELSE 0
      /\ \A i \in 1 .. Len(s) - (n + 1) + 1 : SubSeq(s, n + 1, Len(s))[i] = s[n + 1 + i - 1]
  BY <1>1, SubSeqProperties
<1>3. \A i \in 1 .. Len(s) - n : n + 1 + i - 1 = n + i /\ i \in 1 .. Len(s) - (n + 1) + 1 /\ n + i \in 1..Len(s)
  BY <1>1
<1>4. QED
  BY <1>1, <1>2, <1>3

\* A queue whose first element is taken.
LEMMA TakeFirst ==
    ASSUME NEW S, NEW s \in Seq(S), s # <<>>
    PROVE  /\ Len(s) \in Nat \ {0}
           /\ Head(s) \in S /\ Head(s) = s[1]
           /\ Tail(s) \in Seq(S) /\ Len(Tail(s)) = Len(s) - 1
           /\ \A i \in 1..Len(Tail(s)) : Tail(s)[i] = s[i + 1]
<1>1. Len(s) \in Nat \ {0}
  BY EmptySeq, LenProperties
<1>2. QED
  BY <1>1, HeadTailProperties, ElementOfSeq

\* A queue that takes one more element.
LEMMA AddLast ==
    ASSUME NEW S, NEW s \in Seq(S), NEW e \in S
    PROVE  /\ Len(s) \in Nat
           /\ Append(s, e) \in Seq(S) /\ Len(Append(s, e)) = Len(s) + 1
           /\ \A i \in 1..Len(s) : Append(s, e)[i] = s[i]
           /\ Append(s, e)[Len(s) + 1] = e
BY AppendProperties, LenProperties

\* A sequence that has the elements of two others is made of them.
LEMMA MadeOfTwo ==
    ASSUME NEW S, NEW s \in Seq(S), NEW t \in Seq(S), NEW u \in Seq(S),
           Len(u) = Len(s) + Len(t),
           \A i \in 1..Len(s) : u[i] = s[i],
           \A i \in 1..Len(t) : u[Len(s) + i] = t[i]
    PROVE  u = s \o t
<1>1. Len(s) \in Nat /\ Len(t) \in Nat
  BY LenProperties
<1>2. /\ s \o t \in Seq(S) /\ Len(s \o t) = Len(s) + Len(t)
      /\ \A i \in 1 .. Len(s) + Len(t) : (s \o t)[i] = IF i <= Len(s) THEN s[i] ELSE t[i - Len(s)]
  BY ConcatProperties
<1>3. ASSUME NEW i \in 1..Len(u) PROVE u[i] = (s \o t)[i]
  <2>1. CASE i <= Len(s)
    BY <1>1, <1>2, <2>1
  <2>2. CASE ~(i <= Len(s))
    <3>1. i - Len(s) \in 1..Len(t) /\ Len(s) + (i - Len(s)) = i
      BY <1>1, <2>2
    <3>2. QED
      BY <1>2, <2>2, <3>1
  <2>3. QED
    BY <2>1, <2>2
<1>4. QED
  BY <1>2, <1>3, SeqEqual

\* A list without its k-th element.
LEMMA TakeOut ==
    ASSUME NEW S, NEW s \in Seq(S), NEW k \in 1..Len(s)
    PROVE  /\ RemoveAt(s, k) \in Seq(S) /\ Len(RemoveAt(s, k)) = Len(s) - 1
           /\ \A i \in 1 .. k - 1 : RemoveAt(s, k)[i] = s[i]
           /\ \A i \in k .. Len(s) - 1 : RemoveAt(s, k)[i] = s[i + 1]
<1> DEFINE left == SubSeq(s, 1, k - 1)
           right == SubSeq(s, k + 1, Len(s))
<1>1. Len(s) \in Nat /\ k \in Nat /\ \A i \in 1..Len(s) : s[i] \in S
  BY ElementOfSeq, LenProperties
<1>2. left \in Seq(S) /\ Len(left) = k - 1 /\ \A i \in 1 .. k - 1 : left[i] = s[i]
  <2>1. \A i \in 1 .. k - 1 : s[i] \in S
    BY <1>1
  <2>2. QED
    BY <1>1, <2>1, SubSeqProperties
<1>3. right \in Seq(S) /\ Len(right) = Len(s) - k /\ \A i \in 1 .. Len(s) - k : right[i] = s[k + i]
  <2>1. \A i \in k + 1 .. Len(s) : s[i] \in S
    BY <1>1
  <2>2. QED
    BY <1>1, <2>1, SubSeqProperties
<1> HIDE DEF left, right
<1>4. left \o right \in Seq(S) /\ Len(left \o right) = Len(s) - 1
  <2>1. left \o right \in Seq(S) /\ Len(left \o right) = Len(left) + Len(right)
    BY <1>2, <1>3, ConcatProperties
  <2>2. QED
    BY <1>1, <1>2, <1>3, <2>1
<1>5. \A i \in 1 .. k - 1 : (left \o right)[i] = s[i]
  BY <1>1, <1>2, <1>3, ConcatProperties
<1>6. ASSUME NEW i \in k .. Len(s) - 1 PROVE (left \o right)[i] = s[i + 1]
  <2>1. i \in k .. Len(left) + Len(right) /\ i - Len(left) = i - (k - 1) /\ i - (k - 1) \in 1 .. Len(s) - k
    BY <1>1, <1>2, <1>3
  <2>2. (left \o right)[i] = right[i - Len(left)]
    BY <1>1, <1>2, <1>3, <2>1, ConcatProperties
  <2>3. right[i - (k - 1)] = s[k + (i - (k - 1))]
    BY <1>3, <2>1
  <2>4. QED
    BY <1>1, <2>1, <2>2, <2>3
<1>7. RemoveAt(s, k) = left \o right
  BY DEF RemoveAt, left, right
<1>8. QED
  BY <1>4, <1>5, <1>6, <1>7
-----------------------------------------------------------------------------
(* Induction, stated about a set of numbers instead of an operator *)

\* A set that holds 0, and with every number the next, holds them all.
LEMMA NatSetInduction ==
    ASSUME NEW T, 0 \in T, \A n \in Nat : n \in T => n + 1 \in T
    PROVE  \A n \in Nat : n \in T
<1> SUFFICES ASSUME Nat \ T # {} PROVE FALSE
  OBVIOUS
<1> DEFINE rest == Nat \ T
<1>1. rest \in SUBSET Nat /\ rest # {}
  OBVIOUS
<1>2. PICK m \in rest : \A n \in rest : <<n, m>> \notin OpToRel(<, Nat)
  BY <1>1, WFMin, NatLessThanWellFounded
<1>3. \A n \in rest : ~(n < m)
  BY <1>2, Zenon DEF OpToRel
<1>4. m \in Nat /\ m \notin T /\ m # 0
  BY <1>2
<1>5. m - 1 \in Nat /\ m - 1 < m /\ m - 1 + 1 = m
  BY <1>4
<1>6. m - 1 \in T
  BY <1>3, <1>5
<1>7. QED
  BY <1>4, <1>5, <1>6

-----------------------------------------------------------------------------
(* Min and Max of sets of numbers *)

LEMMA MinOfSet ==
    ASSUME NEW S, S \in SUBSET Nat, S # {}
    PROVE  Min(S) \in S /\ \A n \in S : Min(S) <= n
<1>1. PICK m \in S : \A n \in S : <<n, m>> \notin OpToRel(<, Nat)
  BY WFMin, NatLessThanWellFounded
<1>2. \A n \in S : ~(n < m)
  BY <1>1, Zenon DEF OpToRel
<1>3. \A n \in S : m <= n
  BY <1>2
<1>4. QED
  BY <1>1, <1>3, Zenon DEF Min

LEMMA MaxOfSet ==
    ASSUME NEW S, S \in SUBSET Nat, NEW m \in S, \A n \in S : n <= m
    PROVE  Max(S) = m
<1>1. \A n \in S : (\A k \in S : k <= n) => n = m
  OBVIOUS
<1>2. QED
  BY <1>1, Zenon DEF Max

-----------------------------------------------------------------------------
(* FlattenSeq *)

\* Two sequences, or functions, begin alike.
Same(s, t, n) == \A i \in 1..n : s[i] = t[i]

\* f is the function that FlattenSeq defines by recursion, for the first n sequences.
Flattens(f, ss, n) == f = [i \in 1..n |-> IF i = 1 THEN ss[i] ELSE f[i - 1] \o ss[i]]

Joined(s, t) == s \o t

FlatAt(f, ss, i) ==
    /\ i = 1 => f[i] = ss[i]
    /\ i # 1 => f[i] = Joined(f[i - 1], ss[i])

LEMMA FlattensAt ==
    ASSUME NEW ss, NEW n \in Nat, NEW f, Flattens(f, ss, n)
    PROVE  \A i \in 1..n : FlatAt(f, ss, i)
BY DEF Flattens, FlatAt, Joined

LEMMA FlattensExists ==
    ASSUME NEW ss, NEW n \in Nat
    PROVE  \E f : Flattens(f, ss, n)
<1> DEFINE T == {m \in Nat : \E f : Flattens(f, ss, m)}
<1>1. 0 \in T
  <2>1. Flattens([i \in 1..0 |-> <<>>], ss, 0)
    BY DEF Flattens
  <2>2. QED
    BY <2>1
<1>2. ASSUME NEW m \in Nat, m \in T PROVE m + 1 \in T
  <2>1. PICK f : Flattens(f, ss, m)
    BY <1>2
  <2> DEFINE g == [i \in 1 .. m + 1 |-> IF i <= m THEN f[i] ELSE IF i = 1 THEN ss[i] ELSE f[i - 1] \o ss[i]]
  <2>2. ASSUME NEW i \in 1 .. m + 1 PROVE g[i] = IF i = 1 THEN ss[i] ELSE g[i - 1] \o ss[i]
    <3>1. CASE i <= m
      <4>1. i \in 1..m /\ (i # 1 => i - 1 \in 1..m /\ i - 1 <= m /\ i - 1 \in 1 .. m + 1)
        BY <3>1
      <4>2. f[i] = IF i = 1 THEN ss[i] ELSE f[i - 1] \o ss[i]
        BY <2>1, <4>1 DEF Flattens
      <4>3. g[i] = f[i] /\ (i # 1 => g[i - 1] = f[i - 1])
        BY <4>1
      <4>4. QED
        BY <4>2, <4>3
    <3>2. CASE i = m + 1 /\ i # 1
      <4>1. ~(i <= m) /\ i - 1 \in 1 .. m + 1 /\ i - 1 <= m
        BY <3>2
      <4>2. QED
        BY <3>2, <4>1
    <3>3. CASE i = m + 1 /\ i = 1
      BY <3>3
    <3>4. QED
      BY <3>1, <3>2, <3>3
  <2>3. Flattens(g, ss, m + 1)
    <3> DEFINE h == [i \in 1 .. m + 1 |-> IF i = 1 THEN ss[i] ELSE g[i - 1] \o ss[i]]
    <3>1. \A i \in 1 .. m + 1 : g[i] = h[i]
      BY <2>2
    <3>2. g = h
      BY <3>1
    <3>3. QED
      BY <3>2 DEF Flattens
  <2>4. QED
    BY <2>3
<1> HIDE DEF T
<1>3. n \in T
  BY <1>1, <1>2, NatSetInduction
<1>4. QED
  BY <1>3 DEF T

\* FlattenSeq is that function's last value.
LEMMA FlattenSeqIsLast ==
    ASSUME NEW ss, Len(ss) \in Nat \ {0}
    PROVE  \E f : Flattens(f, ss, Len(ss)) /\ FlattenSeq(ss) = f[Len(ss)]
<1> DEFINE f == CHOOSE f : f = [i \in 1..Len(ss) |-> IF i = 1 THEN ss[i] ELSE f[i - 1] \o ss[i]]
<1>1. Flattens(f, ss, Len(ss))
  BY FlattensExists DEF Flattens
<1>2. FlattenSeq(ss) = f[Len(ss)]
  BY DEF FlattenSeq
<1>3. QED
  BY <1>1, <1>2

\* Two such functions agree as far as the sequences do.
LEMMA FlattensAgree ==
    ASSUME NEW ss, NEW tt, NEW m \in Nat, NEW n \in Nat, m <= n, NEW f, NEW g,
           Flattens(f, ss, m), Flattens(g, tt, n), Same(ss, tt, m)
    PROVE  Same(f, g, m)
<1> DEFINE T == {k \in Nat : k \in 1..m => f[k] = g[k]}
<1>1. 0 \in T
  OBVIOUS
<1>2. ASSUME NEW k \in Nat, k \in T PROVE k + 1 \in T
  <2> SUFFICES ASSUME k + 1 \in 1..m PROVE f[k + 1] = g[k + 1]
    OBVIOUS
  <2>1. k + 1 \in 1..n /\ k + 1 - 1 = k
    OBVIOUS
  <2>2. k + 1 # 1 => f[k] = g[k]
    BY <1>2
  <2>3. FlatAt(f, ss, k + 1) /\ FlatAt(g, tt, k + 1)
    BY <2>1, FlattensAt, Zenon
  <2>4. QED
    BY <2>1, <2>2, <2>3 DEF FlatAt, Same
<1> HIDE DEF T
<1>3. \A k \in Nat : k \in T
  BY <1>1, <1>2, NatSetInduction
<1>4. QED
  BY <1>3 DEF T, Same

\* What a sequence of sequences flattens to is a sequence of their elements.
LEMMA FlattenType ==
    ASSUME NEW S, NEW ss \in Seq(Seq(S))
    PROVE  FlattenSeq(ss) \in Seq(S)
<1>1. Len(ss) \in Nat /\ \A i \in 1..Len(ss) : ss[i] \in Seq(S)
  BY ElementOfSeq, LenProperties
<1>2. CASE Len(ss) = 0
  <2>1. ss = <<>>
    BY <1>2, EmptySeq
  <2>2. FlattenSeq(ss) = <<>>
    BY <1>2, <2>1 DEF FlattenSeq
  <2>3. QED
    BY <2>2, EmptySeq
<1>3. CASE Len(ss) # 0
  <2>1. PICK f : Flattens(f, ss, Len(ss)) /\ FlattenSeq(ss) = f[Len(ss)]
    BY <1>1, <1>3, FlattenSeqIsLast
  <2> DEFINE T == {k \in Nat : k \in 1..Len(ss) => f[k] \in Seq(S)}
  <2>2. 0 \in T
    OBVIOUS
  <2>3. ASSUME NEW k \in Nat, k \in T PROVE k + 1 \in T
    <3> SUFFICES ASSUME k + 1 \in 1..Len(ss) PROVE f[k + 1] \in Seq(S)
      OBVIOUS
    <3>1. /\ k + 1 - 1 = k
          /\ k + 1 = 1 => f[k + 1] = ss[k + 1]
          /\ k + 1 # 1 => f[k + 1] = Joined(f[k], ss[k + 1])
      <4>1. FlatAt(f, ss, k + 1)
        BY <1>1, <2>1, FlattensAt, Zenon
      <4>2. QED
        BY <4>1 DEF FlatAt
    <3>2. k + 1 # 1 => f[k] \in Seq(S)
      BY <1>1, <2>3
    <3>3. ss[k + 1] \in Seq(S)
      BY <1>1
    <3>4. CASE k + 1 = 1
      BY <3>1, <3>3, <3>4
    <3>5. CASE k + 1 # 1
      <4>1. f[k + 1] = f[k] \o ss[k + 1]
        BY <3>1, <3>5 DEF Joined
      <4>2. QED
        BY <3>2, <3>3, <3>5, <4>1, ConcatProperties
    <3>6. QED
      BY <3>4, <3>5
  <2> HIDE DEF T
  <2>4. Len(ss) \in T
    BY <1>1, <2>2, <2>3, NatSetInduction
  <2>5. QED
    BY <1>1, <1>3, <2>1, <2>4 DEF T
<1>4. QED
  BY <1>2, <1>3

\* One more sequence adds its elements at the end.
LEMMA FlattenAppend ==
    ASSUME NEW S, NEW ss \in Seq(Seq(S)), NEW s \in Seq(S)
    PROVE  FlattenSeq(Append(ss, s)) = FlattenSeq(ss) \o s
<1> DEFINE tt == Append(ss, s)
<1>1. /\ Len(ss) \in Nat /\ tt \in Seq(Seq(S)) /\ Len(tt) = Len(ss) + 1
      /\ \A i \in 1..Len(ss) : tt[i] = ss[i]
      /\ tt[Len(ss) + 1] = s
  BY AddLast
<1> HIDE DEF tt
<1>2. PICK g : Flattens(g, tt, Len(tt)) /\ FlattenSeq(tt) = g[Len(tt)]
  BY <1>1, FlattenSeqIsLast
<1>3. CASE Len(ss) = 0
  <2>1. ss = <<>>
    BY <1>3, EmptySeq
  <2>2. FlattenSeq(ss) = <<>>
    BY <1>3, <2>1 DEF FlattenSeq
  <2>3. g[1] = s
    BY <1>1, <1>2, <1>3 DEF Flattens
  <2>4. QED
    BY <1>1, <1>2, <1>3, <2>2, <2>3, ConcatEmptySeq DEF tt
<1>4. CASE Len(ss) # 0
  <2>1. PICK f : Flattens(f, ss, Len(ss)) /\ FlattenSeq(ss) = f[Len(ss)]
    BY <1>1, <1>4, FlattenSeqIsLast
  <2>2. Len(ss) \in 1..Len(ss) /\ Len(ss) <= Len(tt)
    BY <1>1, <1>4
  <2>3. f[Len(ss)] = g[Len(ss)]
    <3>1. Same(ss, tt, Len(ss))
      BY <1>1 DEF Same
    <3>2. Len(tt) \in Nat
      BY <1>1
    <3>3. Same(f, g, Len(ss))
      <4>1. Flattens(g, tt, Len(tt)) /\ Flattens(f, ss, Len(ss)) /\ Len(ss) \in Nat
        BY <1>1, <1>2, <2>1
      <4>2. QED
        BY <2>2, <3>1, <3>2, <4>1, FlattensAgree, Zenon
    <3>4. QED
      BY <2>2, <3>3 DEF Same
  <2>4. /\ Len(ss) + 1 \in 1..Len(tt) /\ Len(ss) + 1 # 1 /\ Len(ss) + 1 - 1 = Len(ss)
    BY <1>1, <1>4
  <2>5. g[Len(ss) + 1] = g[Len(ss)] \o s
    <3>1. Len(tt) \in Nat
      BY <1>1
    <3>2. FlatAt(g, tt, Len(ss) + 1)
      BY <1>2, <2>4, <3>1, FlattensAt, Zenon
    <3>3. QED
      BY <1>1, <2>4, <3>2 DEF FlatAt, Joined
  <2>6. QED
    BY <1>1, <1>2, <2>1, <2>3, <2>5 DEF tt
<1>5. QED
  BY <1>3, <1>4

\* Induction over sequences, stated about a set of them: it has the empty one, and with
\* every one those that are longer by an element.
LEMMA SeqSetInduction ==
    ASSUME NEW S, NEW T, <<>> \in T, \A s \in Seq(S), e \in S : s \in T => Append(s, e) \in T
    PROVE  \A s \in Seq(S) : s \in T
<1> DEFINE U == {n \in Nat : \A s \in Seq(S) : Len(s) = n => s \in T}
<1>1. 0 \in U
  BY EmptySeq
<1>2. ASSUME NEW n \in Nat, n \in U PROVE n + 1 \in U
  <2> SUFFICES ASSUME NEW s \in Seq(S), Len(s) = n + 1 PROVE s \in T
    OBVIOUS
  <2>1. s # <<>>
    BY EmptySeq
  <2>2. PICK t \in Seq(S), e \in S : s = Append(t, e)
    BY <2>1, SequenceEmptyOrAppend
  <2>3. Len(t) = n
    BY <2>2, AppendProperties, LenProperties
  <2>4. QED
    BY <1>2, <2>2, <2>3
<1> HIDE DEF U
<1>3. \A n \in Nat : n \in U
  BY <1>1, <1>2, NatSetInduction
<1>4. QED
  BY <1>3, LenProperties DEF U

\* Flattening goes through a concatenation.
LEMMA FlattenConcat ==
    ASSUME NEW S, NEW ss \in Seq(Seq(S)), NEW tt \in Seq(Seq(S))
    PROVE  FlattenSeq(ss \o tt) = FlattenSeq(ss) \o FlattenSeq(tt)
<1> DEFINE T == {uu \in Seq(Seq(S)) : FlattenSeq(ss \o uu) = FlattenSeq(ss) \o FlattenSeq(uu)}
<1>0. FlattenSeq(<<>>) = <<>> /\ <<>> \in Seq(Seq(S))
  BY EmptySeq DEF FlattenSeq
<1>1. <<>> \in T
  <2>1. ss \o <<>> = ss
    BY ConcatEmptySeq
  <2>2. FlattenSeq(ss) \o <<>> = FlattenSeq(ss)
    BY FlattenType, ConcatEmptySeq
  <2>3. QED
    BY <1>0, <2>1, <2>2
<1>2. ASSUME NEW uu \in Seq(Seq(S)), NEW s \in Seq(S), uu \in T PROVE Append(uu, s) \in T
  <2>1. Append(uu, s) \in Seq(Seq(S)) /\ ss \o uu \in Seq(Seq(S))
    BY AppendProperties, ConcatProperties
  <2>2. ss \o Append(uu, s) = Append(ss \o uu, s)
    <3>1. <<s>> \in Seq(Seq(S)) /\ Append(uu, s) = uu \o <<s>> /\ Append(ss \o uu, s) = (ss \o uu) \o <<s>>
      BY <2>1, AppendIsConcat
    <3>2. QED
      BY <3>1, ConcatAssociative
  <2>3. FlattenSeq(ss \o Append(uu, s)) = FlattenSeq(ss \o uu) \o s
    BY <2>1, <2>2, FlattenAppend
  <2>4. FlattenSeq(Append(uu, s)) = FlattenSeq(uu) \o s
    BY FlattenAppend
  <2>5. (FlattenSeq(ss) \o FlattenSeq(uu)) \o s = FlattenSeq(ss) \o (FlattenSeq(uu) \o s)
    <3>1. FlattenSeq(ss) \in Seq(S) /\ FlattenSeq(uu) \in Seq(S)
      BY FlattenType
    <3>2. QED
      BY <3>1, ConcatAssociative
  <2>6. QED
    BY <1>2, <2>1, <2>3, <2>4, <2>5
<1> HIDE DEF T
<1>3. tt \in T
  BY <1>1, <1>2, SeqSetInduction
<1>4. QED
  BY <1>3 DEF T

LEMMA FlattenOne ==
    ASSUME NEW S, NEW s \in Seq(S)
    PROVE  FlattenSeq(<<s>>) = s
<1>1. FlattenSeq(<<>>) = <<>> /\ <<>> \in Seq(Seq(S)) /\ <<>> \in Seq(S)
  BY EmptySeq DEF FlattenSeq
<1>2. Append(<<>>, s) = <<s>>
  BY <1>1, AppendIsConcat, ConcatEmptySeq
<1>3. FlattenSeq(<<s>>) = <<>> \o s
  BY <1>1, <1>2, FlattenAppend
<1>4. QED
  BY <1>3, ConcatEmptySeq

\* The first sequence of a queue comes first.
LEMMA FlattenFirst ==
    ASSUME NEW S, NEW ss \in Seq(Seq(S)), ss # <<>>
    PROVE  FlattenSeq(ss) = Head(ss) \o FlattenSeq(Tail(ss))
<1>1. Len(ss) \in Nat \ {0} /\ Head(ss) \in Seq(S) /\ Head(ss) = ss[1] /\ Tail(ss) \in Seq(Seq(S))
  BY TakeFirst
<1>2. ss = <<Head(ss)>> \o Tail(ss)
  <2>1. SubSeq(ss, 1, Len(ss)) = <<ss[1]>> \o SubSeq(ss, 2, Len(ss))
    BY <1>1, SubSeqRecursiveFirst
  <2>2. QED
    BY <1>1, <2>1, SubSeqFull, TailIsSubSeq
<1>3. <<Head(ss)>> \in Seq(Seq(S))
  BY <1>1
<1>4. QED
  <2>1. FlattenSeq(<<Head(ss)>> \o Tail(ss)) = FlattenSeq(<<Head(ss)>>) \o FlattenSeq(Tail(ss))
    BY <1>1, <1>3, FlattenConcat
  <2>2. FlattenSeq(<<Head(ss)>>) = Head(ss)
    BY <1>1, FlattenOne
  <2>3. QED
    BY <1>2, <2>1, <2>2, Zenon
=============================================================================
