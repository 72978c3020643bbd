-------------------------- MODULE ProxyChainProofs --------------------------
(***************************************************************************)
(* Proofs about ProxyChain with one client, on a network that may lose     *)
(* datagrams: what the client is sent is in the order in which it wrote,   *)
(* and if nothing has been lost it is a row of whole frames that hold all  *)
(* it wrote, from the first unit on.                                       *)
(***************************************************************************)
EXTENDS ProxyChain, ServerProxyProofs

-----------------------------------------------------------------------------
(* A piece of the stream *)

\* The units of s are the client's, with rising numbers behind a and up to b; all of them,
\* if nothing is missing.
Carries(s, a, b, exact) ==
    /\ a <= b
    /\ \A i \in 1..Len(s) : s[i] = <<Client, s[i][2]>> /\ s[i][2] \in a + 1 .. b
    /\ \A i, j \in 1..Len(s) : i < j => s[i][2] < s[j][2]
    /\ exact => Len(s) = b - a /\ \A i \in 1..Len(s) : s[i][2] = a + i

\* Where a unit leaves the reader of a row of frames.
KindOf(u) == IF u = Opening THEN "begun" ELSE IF u = Closing THEN "between" ELSE "within"
Kinds == {"between", "begun", "within"}

\* Where he is before the unit behind place i, if he was at k before the first.
KindAt(s, k, i) == IF i = 0 THEN k ELSE KindOf(s[i])

Follows(k, u) == (u = Opening <=> k = "between") /\ (u = Closing => k = "within")

\* s leads from k to l in a row of frames.
Framed(s, k, l) ==
    /\ \A i \in 1..Len(s) : Follows(KindAt(s, k, i - 1), s[i])
    /\ l = KindAt(s, k, Len(s))

\* A piece of the stream of echoes.
Echo(s, a, k, b, l, exact) == Carries(Content(s), a, b, exact) /\ (exact => Framed(s, k, l))

\* The first and the second part of a concatenation.
LEMMA ConcatParts ==
    ASSUME NEW S, NEW s \in Seq(S), NEW t \in Seq(S)
    PROVE  /\ s \o t \in Seq(S) /\ Len(s) \in Nat /\ Len(t) \in Nat /\ Len(s \o t) = Len(s) + Len(t)
           /\ \A i \in 1..Len(s) : i \in 1..Len(s \o t) /\ (s \o t)[i] = s[i]
           /\ \A i \in 1..Len(t) : Len(s) + i \in 1..Len(s \o t) /\ (s \o t)[Len(s) + i] = t[i]
           /\ \A i \in 1..Len(s \o t) : i \in 1..Len(s) \/ (i - Len(s) \in 1..Len(t) /\ i = Len(s) + (i - Len(s)))
<1>1. Len(s) \in Nat /\ Len(t) \in Nat
  BY LenProperties
<1>2. /\ s \o t \in Seq(S) /\ Len(s \o t) = Len(s) + Len(t)
      /\ \A i \in 1 .. Len(s) + Len(t) : (s \o t)[i] = IF i <= Len(s) THEN s[i] ELSE t[i - Len(s)]
  BY ConcatProperties
<1>3. \A i \in 1..Len(t) : Len(s) + i \in 1 .. Len(s) + Len(t) /\ ~(Len(s) + i <= Len(s)) /\ Len(s) + i - Len(s) = i
  BY <1>1
<1>4. QED
  BY <1>1, <1>2, <1>3

LEMMA CarriesConcat ==
    ASSUME NEW S, NEW s \in Seq(S), NEW t \in Seq(S), NEW a \in Nat, NEW m \in Nat, NEW b \in Nat,
           NEW e \in BOOLEAN, Carries(s, a, m, e), Carries(t, m, b, e)
    PROVE  Carries(s \o t, a, b, e)
<1> DEFINE u == s \o t
<1>1. /\ Len(s) \in Nat /\ Len(t) \in Nat /\ Len(u) = Len(s) + Len(t)
      /\ \A i \in 1..Len(s) : u[i] = s[i]
      /\ \A i \in 1..Len(t) : u[Len(s) + i] = t[i]
      /\ \A i \in 1..Len(u) : i \in 1..Len(s) \/ (i - Len(s) \in 1..Len(t) /\ i = Len(s) + (i - Len(s)))
  BY ConcatParts
<1> HIDE DEF u
<1>2. /\ a <= m /\ m <= b
      /\ \A i \in 1..Len(s) : s[i] = <<Client, s[i][2]>> /\ s[i][2] \in Int /\ a < s[i][2] /\ s[i][2] <= m
      /\ \A i \in 1..Len(t) : t[i] = <<Client, t[i][2]>> /\ t[i][2] \in Int /\ m < t[i][2] /\ t[i][2] <= b
      /\ \A i, j \in 1..Len(s) : i < j => s[i][2] < s[j][2]
      /\ \A i, j \in 1..Len(t) : i < j => t[i][2] < t[j][2]
  BY DEF Carries
<1>3. ASSUME NEW i \in 1..Len(u) PROVE u[i] = <<Client, u[i][2]>> /\ u[i][2] \in a + 1 .. b
  <2>1. CASE i \in 1..Len(s)
    BY <1>1, <1>2, <2>1
  <2>2. CASE i - Len(s) \in 1..Len(t) /\ i = Len(s) + (i - Len(s))
    <3>1. u[i] = t[i - Len(s)]
      BY <1>1, <2>2
    <3>2. QED
      BY <1>2, <2>2, <3>1
  <2>3. QED
    BY <1>1, <2>1, <2>2
<1>4. ASSUME NEW i \in 1..Len(u), NEW j \in 1..Len(u), i < j PROVE u[i][2] < u[j][2]
  <2>1. CASE i \in 1..Len(s) /\ j \in 1..Len(s)
    BY <1>1, <1>2, <1>4, <2>1
  <2>2. CASE i \in 1..Len(s) /\ j - Len(s) \in 1..Len(t) /\ j = Len(s) + (j - Len(s))
    <3>1. u[i] = s[i] /\ u[j] = t[j - Len(s)]
      BY <1>1, <2>2
    <3>2. QED
      BY <1>2, <2>2, <3>1
  <2>3. CASE i - Len(s) \in 1..Len(t) /\ i = Len(s) + (i - Len(s)) /\ j - Len(s) \in 1..Len(t) /\ j = Len(s) + (j - Len(s))
    <3>1. u[i] = t[i - Len(s)] /\ u[j] = t[j - Len(s)]
      BY <1>1, <2>3
    <3>2. i - Len(s) < j - Len(s)
      BY <1>1, <1>4, <2>3
    <3>3. QED
      BY <1>2, <2>3, <3>1, <3>2
  <2>4. ~(i - Len(s) \in 1..Len(t) /\ j \in 1..Len(s))
    BY <1>1, <1>4
  <2>5. QED
    BY <1>1, <2>1, <2>2, <2>3, <2>4
<1>5. ASSUME e PROVE Len(u) = b - a /\ \A i \in 1..Len(u) : u[i][2] = a + i
  <2>1. /\ Len(s) = m - a /\ \A i \in 1..Len(s) : s[i][2] = a + i
        /\ Len(t) = b - m /\ \A i \in 1..Len(t) : t[i][2] = m + i
    BY <1>5 DEF Carries
  <2>2. ASSUME NEW i \in 1..Len(u) PROVE u[i][2] = a + i
    <3>1. CASE i \in 1..Len(s)
      BY <1>1, <2>1, <3>1
    <3>2. CASE i - Len(s) \in 1..Len(t) /\ i = Len(s) + (i - Len(s))
      <4>1. u[i] = t[i - Len(s)]
        BY <1>1, <3>2
      <4>2. t[i - Len(s)][2] = m + (i - Len(s))
        BY <2>1, <3>2
      <4>3. QED
        BY <1>1, <2>1, <4>1, <4>2
    <3>3. QED
      BY <1>1, <3>1, <3>2
  <2>3. QED
    BY <1>1, <2>1, <2>2
<1>6. Carries(u, a, b, e)
  BY <1>2, <1>3, <1>4, <1>5 DEF Carries
<1>7. QED
  BY <1>6 DEF u

LEMMA CarriesSplit ==
    ASSUME NEW S, NEW s \in Seq(S), NEW t \in Seq(S), NEW a \in Nat, NEW b \in Nat,
           NEW e \in BOOLEAN, Carries(s \o t, a, b, e)
    PROVE  \E m \in a..b : Carries(s, a, m, e) /\ Carries(t, m, b, e)
<1> DEFINE u == s \o t
           m == IF Len(s) = 0 THEN a ELSE s[Len(s)][2]
<1>1. /\ Len(s) \in Nat /\ Len(t) \in Nat /\ Len(u) = Len(s) + Len(t)
      /\ \A i \in 1..Len(s) : i \in 1..Len(u) /\ u[i] = s[i]
      /\ \A i \in 1..Len(t) : Len(s) + i \in 1..Len(u) /\ u[Len(s) + i] = t[i]
  BY ConcatParts
<1> HIDE DEF u
<1>2. /\ a <= b
      /\ \A i \in 1..Len(u) : u[i] = <<Client, u[i][2]>> /\ u[i][2] \in Int /\ a < u[i][2] /\ u[i][2] <= b
      /\ \A i, j \in 1..Len(u) : i < j => u[i][2] < u[j][2]
      /\ e => Len(u) = b - a /\ \A i \in 1..Len(u) : u[i][2] = a + i
  <2>1. Carries(u, a, b, e)
    BY DEF u
  <2>2. QED
    BY <2>1 DEF Carries
<1>3. /\ \A i \in 1..Len(s) : s[i] = <<Client, s[i][2]>> /\ s[i][2] \in Int /\ a < s[i][2] /\ s[i][2] <= b
      /\ \A i \in 1..Len(t) : t[i] = <<Client, t[i][2]>> /\ t[i][2] \in Int /\ a < t[i][2] /\ t[i][2] <= b
  <2>1. ASSUME NEW i \in 1..Len(t) PROVE t[i] = <<Client, t[i][2]>> /\ t[i][2] \in Int /\ a < t[i][2] /\ t[i][2] <= b
    <3>1. Len(s) + i \in 1..Len(u) /\ u[Len(s) + i] = t[i]
      BY <1>1
    <3>2. QED
      BY <1>2, <3>1
  <2>2. QED
    BY <1>1, <1>2, <2>1
<1>4. /\ \A i, j \in 1..Len(s) : i < j => s[i][2] < s[j][2]
      /\ \A i, j \in 1..Len(t) : i < j => t[i][2] < t[j][2]
      /\ \A i \in 1..Len(s), j \in 1..Len(t) : s[i][2] < t[j][2]
  <2>1. ASSUME NEW i \in 1..Len(t), NEW j \in 1..Len(t), i < j PROVE t[i][2] < t[j][2]
    <3>1. u[Len(s) + i][2] < u[Len(s) + j][2]
      <4>1. Len(s) + i \in 1..Len(u) /\ Len(s) + j \in 1..Len(u) /\ Len(s) + i < Len(s) + j
        BY <1>1, <2>1
      <4>2. QED
        BY <1>2, <4>1
    <3>2. QED
      BY <1>1, <3>1
  <2>2. ASSUME NEW i \in 1..Len(s), NEW j \in 1..Len(t) PROVE s[i][2] < t[j][2]
    <3>1. u[i][2] < u[Len(s) + j][2]
      <4>1. i \in 1..Len(u) /\ Len(s) + j \in 1..Len(u) /\ i < Len(s) + j
        BY <1>1
      <4>2. QED
        BY <1>2, <4>1
    <3>2. QED
      BY <1>1, <3>1
  <2>3. QED
    BY <1>1, <1>2, <2>1, <2>2
<1>5. m \in a..b /\ (\A i \in 1..Len(s) : s[i][2] <= m) /\ (\A j \in 1..Len(t) : m < t[j][2])
  <2>1. CASE Len(s) = 0
    BY <1>2, <1>3, <2>1
  <2>2. CASE Len(s) # 0
    <3>1. Len(s) \in 1..Len(s)
      BY <1>1, <2>2
    <3>2. s[Len(s)][2] \in Int /\ a < s[Len(s)][2] /\ s[Len(s)][2] <= b
      BY <1>3, <3>1
    <3>3. \A i \in 1..Len(s) : i = Len(s) \/ i < Len(s)
      BY <1>1
    <3>4. \A i \in 1..Len(s) : s[i][2] <= s[Len(s)][2]
      BY <1>3, <1>4, <3>1, <3>3
    <3>5. QED
      BY <1>4, <2>2, <3>1, <3>2, <3>4
  <2>3. QED
    BY <2>1, <2>2
<1>6. ASSUME e PROVE /\ Len(s) = m - a /\ \A i \in 1..Len(s) : s[i][2] = a + i
                     /\ Len(t) = b - m /\ \A i \in 1..Len(t) : t[i][2] = m + i
  <2>1. Len(u) = b - a /\ \A i \in 1..Len(u) : u[i][2] = a + i
    BY <1>2, <1>6
  <2>2. \A i \in 1..Len(s) : s[i][2] = a + i
    BY <1>1, <2>1
  <2>3. m = a + Len(s)
    <3>1. CASE Len(s) # 0
      <4>1. Len(s) \in 1..Len(s)
        BY <1>1, <3>1
      <4>2. QED
        BY <2>2, <3>1, <4>1
    <3>2. QED
      BY <3>1
  <2>4. \A i \in 1..Len(t) : t[i][2] = a + (Len(s) + i)
    BY <1>1, <2>1
  <2> HIDE DEF m
  <2>5. Len(s) = m - a /\ Len(t) = b - m
    BY <1>1, <2>1, <2>3
  <2>6. \A i \in 1..Len(t) : t[i][2] = m + i
    BY <1>1, <2>3, <2>4
  <2>7. QED
    BY <2>2, <2>5, <2>6
<1> HIDE DEF m
<1>7. Carries(s, a, m, e)
  BY <1>3, <1>4, <1>5, <1>6 DEF Carries
<1>8. Carries(t, m, b, e)
  BY <1>3, <1>4, <1>5, <1>6 DEF Carries
<1>9. QED
  BY <1>5, <1>7, <1>8

LEMMA CarriesWiden ==
    ASSUME NEW s, NEW a \in Nat, NEW m \in Nat, NEW n \in Nat, NEW b \in Nat, NEW e,
           Carries(s, m, n, e), a <= m, n <= b
    PROVE  Carries(s, a, b, FALSE)
<1>1. m <= n /\ a <= b /\ \A x \in m + 1 .. n : x \in a + 1 .. b
  BY DEF Carries
<1>2. QED
  BY <1>1 DEF Carries

LEMMA CarriesWeaken ==
    ASSUME NEW s, NEW a, NEW b, NEW e, NEW f, Carries(s, a, b, e), f => e
    PROVE  Carries(s, a, b, f)
BY DEF Carries

\* What is lost in the middle leaves the rest in order.
LEMMA CarriesDrop ==
    ASSUME NEW S, NEW s \in Seq(S), NEW t \in Seq(S), NEW u \in Seq(S), NEW a \in Nat, NEW b \in Nat,
           NEW e \in BOOLEAN, Carries((s \o t) \o u, a, b, e)
    PROVE  Carries(s \o u, a, b, e /\ t = <<>>)
<1>1. PICK v \in Seq(S) : v = s \o t
  BY ConcatProperties
<1>2. PICK n \in a..b : Carries(v, a, n, e) /\ Carries(u, n, b, e)
  <2>1. Carries(v \o u, a, b, e)
    BY <1>1
  <2>2. QED
    BY <2>1, CarriesSplit
<1>3. n \in Nat
  OBVIOUS
<1>4. PICK m \in a..n : Carries(s, a, m, e) /\ Carries(t, m, n, e)
  <2>1. Carries(s \o t, a, n, e)
    BY <1>1, <1>2
  <2>2. QED
    BY <1>3, <2>1, CarriesSplit
<1>5. CASE t = <<>>
  <2>1. s \o t = s
    BY <1>5, ConcatEmptySeq
  <2>2. (e /\ t = <<>>) => e
    OBVIOUS
  <2>3. Carries(s \o u, a, b, e)
    BY <2>1
  <2>4. QED
    BY <2>2, <2>3, CarriesWeaken, Zenon
<1>6. CASE t # <<>>
  <2>1. m \in Nat /\ m <= n /\ b <= b
    OBVIOUS
  <2>2. Carries(u, m, b, FALSE)
    BY <1>2, <1>3, <2>1, CarriesWiden
  <2>3. Carries(s, a, m, FALSE)
    BY <1>4, CarriesWeaken
  <2>4. FALSE \in BOOLEAN
    OBVIOUS
  <2>5. Carries(s \o u, a, b, FALSE)
    BY <2>1, <2>2, <2>3, <2>4, CarriesConcat
  <2>6. (e /\ t = <<>>) => FALSE
    BY <1>6
  <2>7. QED
    BY <2>5, <2>6, CarriesWeaken, Zenon
<1>7. QED
  BY <1>5, <1>6

\* What is passed on comes behind what has been.
LEMMA CarriesPass ==
    ASSUME NEW S, NEW s \in Seq(S), NEW d \in Seq(S), NEW y \in Seq(S),
           NEW a \in Nat, NEW m \in Nat, NEW b \in Nat, NEW e \in BOOLEAN, NEW f \in BOOLEAN,
           Carries(s, a, m, e), Carries(d \o y, m, b, f)
    PROVE  \E n \in m..b : Carries(s \o d, a, n, e /\ f) /\ Carries(y, n, b, f)
<1>1. PICK n \in m..b : Carries(d, m, n, f) /\ Carries(y, n, b, f)
  BY CarriesSplit
<1>2. n \in Nat /\ (e /\ f) \in BOOLEAN
  OBVIOUS
<1>3. Carries(s, a, m, e /\ f) /\ Carries(d, m, n, e /\ f)
  BY <1>1, CarriesWeaken
<1>4. Carries(s \o d, a, n, e /\ f)
  BY <1>2, <1>3, CarriesConcat
<1>5. QED
  BY <1>1, <1>4

-----------------------------------------------------------------------------
(* Marks and frames *)

Masked(s) == [i \in 1..Len(s) |-> IF IsMark(s[i]) THEN <<>> ELSE <<s[i]>>]

LEMMA MaskedType ==
    ASSUME NEW s \in Seq(ChainUnits)
    PROVE  Masked(s) \in Seq(Seq(ChainUnits)) /\ Len(Masked(s)) = Len(s) /\ Content(s) = FlattenSeq(Masked(s))
<1>1. Len(s) \in Nat /\ \A i \in 1..Len(s) : s[i] \in ChainUnits
  BY LenProperties, ElementOfSeq
<1>2. \A i \in 1..Len(s) : Masked(s)[i] \in Seq(ChainUnits)
  BY <1>1, EmptySeq DEF Masked
<1>3. Masked(s) \in [1..Len(s) -> Seq(ChainUnits)]
  BY <1>2 DEF Masked
<1>4. QED
  BY <1>1, <1>3, SeqDef DEF Content, Masked

LEMMA ContentConcat ==
    ASSUME NEW s \in Seq(ChainUnits), NEW t \in Seq(ChainUnits)
    PROVE  /\ Content(s) \in Seq(ChainUnits)
           /\ Content(s \o t) = Content(s) \o Content(t)
<1> DEFINE u == s \o t
<1>1. /\ u \in Seq(ChainUnits) /\ Len(s) \in Nat /\ Len(t) \in Nat /\ Len(u) = Len(s) + Len(t)
      /\ \A i \in 1..Len(s) : i \in 1..Len(u) /\ u[i] = s[i]
      /\ \A i \in 1..Len(t) : Len(s) + i \in 1..Len(u) /\ u[Len(s) + i] = t[i]
  BY ConcatParts
<1> HIDE DEF u
<1>2. /\ Masked(s) \in Seq(Seq(ChainUnits)) /\ Len(Masked(s)) = Len(s) /\ Content(s) = FlattenSeq(Masked(s))
      /\ Masked(t) \in Seq(Seq(ChainUnits)) /\ Len(Masked(t)) = Len(t) /\ Content(t) = FlattenSeq(Masked(t))
      /\ Masked(u) \in Seq(Seq(ChainUnits)) /\ Len(Masked(u)) = Len(u) /\ Content(u) = FlattenSeq(Masked(u))
  BY <1>1, MaskedType
<1>3. \A i \in 1..Len(s) : Masked(u)[i] = Masked(s)[i]
  BY <1>1 DEF Masked
<1>4. \A i \in 1..Len(t) : Masked(u)[Len(s) + i] = Masked(t)[i]
  BY <1>1 DEF Masked
<1>5. Masked(u) = Masked(s) \o Masked(t)
  <2>1. Len(Masked(u)) = Len(Masked(s)) + Len(Masked(t))
    BY <1>1, <1>2
  <2>2. /\ \A i \in 1..Len(Masked(s)) : Masked(u)[i] = Masked(s)[i]
        /\ \A i \in 1..Len(Masked(t)) : Masked(u)[Len(Masked(s)) + i] = Masked(t)[i]
    BY <1>2, <1>3, <1>4
  <2>3. Masked(s) \in Seq(Seq(ChainUnits)) /\ Masked(t) \in Seq(Seq(ChainUnits)) /\ Masked(u) \in Seq(Seq(ChainUnits))
    BY <1>2
  <2>4. QED
    BY <2>1, <2>2, <2>3, MadeOfTwo
<1>6. FlattenSeq(Masked(s) \o Masked(t)) = FlattenSeq(Masked(s)) \o FlattenSeq(Masked(t))
  BY <1>2, FlattenConcat
<1>7. FlattenSeq(Masked(s)) \in Seq(ChainUnits)
  BY <1>2, FlattenType
<1>8. Content(u) = Content(s) \o Content(t)
  BY <1>2, <1>5, <1>6, Zenon
<1>9. QED
  BY <1>2, <1>7, <1>8 DEF u

LEMMA ContentEmpty == Content(<<>>) = <<>>
BY EmptySeq DEF Content, FlattenSeq

LEMMA ContentOfOne ==
    ASSUME NEW u \in ChainUnits
    PROVE  Content(<<u>>) = IF IsMark(u) THEN <<>> ELSE <<u>>
<1>1. <<u>> \in Seq(ChainUnits) /\ Len(<<u>>) = 1 /\ <<u>>[1] = u
  OBVIOUS
<1>2. Masked(<<u>>) = <<IF IsMark(u) THEN <<>> ELSE <<u>>>>
  BY <1>1 DEF Masked
<1>3. (IF IsMark(u) THEN <<>> ELSE <<u>>) \in Seq(ChainUnits)
  BY EmptySeq
<1>4. QED
  BY <1>1, <1>2, <1>3, MaskedType, FlattenOne

\* Data without marks are their own content.
Plain(s) == \A i \in 1..Len(s) : ~IsMark(s[i])

LEMMA ContentOfPlain ==
    ASSUME NEW s \in Seq(ChainUnits), Plain(s)
    PROVE  Content(s) = s
<1> DEFINE T == {t \in Seq(ChainUnits) : Plain(t) => Content(t) = t}
<1>1. <<>> \in T
  BY ContentEmpty, EmptySeq
<1>2. ASSUME NEW t \in Seq(ChainUnits), NEW u \in ChainUnits, t \in T PROVE Append(t, u) \in T
  <2> SUFFICES ASSUME Plain(Append(t, u)) PROVE Content(Append(t, u)) = Append(t, u)
    BY AppendProperties
  <2>1. /\ Append(t, u) = t \o <<u>> /\ <<u>> \in Seq(ChainUnits) /\ Len(t) \in Nat
        /\ Len(Append(t, u)) = Len(t) + 1
        /\ \A i \in 1..Len(t) : Append(t, u)[i] = t[i]
        /\ Append(t, u)[Len(t) + 1] = u
    BY AppendIsConcat, AppendProperties, LenProperties
  <2>2. Plain(t) /\ ~IsMark(u)
    BY <2>1 DEF Plain
  <2>3. Content(t) = t /\ Content(<<u>>) = <<u>>
    BY <1>2, <2>2, ContentOfOne
  <2>4. QED
    BY <2>1, <2>3, ContentConcat
<1> HIDE DEF T
<1>3. s \in T
  BY <1>1, <1>2, SeqSetInduction
<1>4. QED
  BY <1>3 DEF T

\* The client's units are not marks.
LEMMA CarriesPlain ==
    ASSUME NEW s \in Seq(ChainUnits), NEW a \in Nat, NEW b \in Nat, NEW e, Carries(s, a, b, e)
    PROVE  Plain(s) /\ Content(s) = s
<1>1. Plain(s)
  <2>1. \A i \in 1..Len(s) : s[i] = <<Client, s[i][2]>> /\ s[i][2] \in a + 1 .. b
    BY DEF Carries
  <2>2. \A i \in 1..Len(s) : s[i][2] # 0
    BY <2>1
  <2>3. Opening[2] = 0 /\ Closing[2] = 0
    BY DEF Opening, Closing
  <2>4. QED
    BY <2>2, <2>3 DEF Plain, IsMark
<1>2. QED
  BY <1>1, ContentOfPlain

LEMMA FramedConcat ==
    ASSUME NEW S, NEW s \in Seq(S), NEW t \in Seq(S), NEW k, NEW m, NEW l, Framed(s, k, m), Framed(t, m, l)
    PROVE  Framed(s \o t, k, l)
<1> DEFINE u == s \o t
<1>1. /\ Len(s) \in Nat /\ Len(t) \in Nat /\ Len(u) = Len(s) + Len(t)
      /\ \A i \in 1..Len(s) : u[i] = s[i]
      /\ \A i \in 1..Len(t) : u[Len(s) + i] = t[i]
      /\ \A i \in 1..Len(u) : i \in 1..Len(s) \/ (i - Len(s) \in 1..Len(t) /\ i = Len(s) + (i - Len(s)))
  BY ConcatParts
<1> HIDE DEF u
<1>2. \A i \in 0..Len(s) : KindAt(u, k, i) = KindAt(s, k, i)
  BY <1>1 DEF KindAt
<1>3. KindAt(u, k, Len(s)) = m
  BY <1>1, <1>2 DEF Framed
<1>4. ASSUME NEW i \in 0..Len(t) PROVE KindAt(u, k, Len(s) + i) = KindAt(t, m, i)
  <2>1. CASE i = 0
    BY <1>1, <1>3, <2>1 DEF KindAt
  <2>2. CASE i # 0
    <3>1. i \in 1..Len(t) /\ Len(s) + i # 0
      BY <1>1, <2>2
    <3>2. QED
      BY <1>1, <2>2, <3>1 DEF KindAt
  <2>3. QED
    BY <2>1, <2>2
<1>5. ASSUME NEW i \in 1..Len(u) PROVE Follows(KindAt(u, k, i - 1), u[i])
  <2>1. CASE i \in 1..Len(s)
    <3>1. i - 1 \in 0..Len(s) /\ Follows(KindAt(s, k, i - 1), s[i])
      BY <1>1, <2>1 DEF Framed
    <3>2. QED
      BY <1>1, <1>2, <2>1, <3>1
  <2>2. CASE i - Len(s) \in 1..Len(t) /\ i = Len(s) + (i - Len(s))
    <3>1. i - Len(s) - 1 \in 0..Len(t) /\ i - 1 = Len(s) + (i - Len(s) - 1)
      BY <1>1, <2>2
    <3>2. KindAt(u, k, i - 1) = KindAt(t, m, i - Len(s) - 1) /\ u[i] = t[i - Len(s)]
      BY <1>1, <1>4, <2>2, <3>1
    <3>3. Follows(KindAt(t, m, i - Len(s) - 1), t[i - Len(s)])
      BY <2>2 DEF Framed
    <3>4. QED
      BY <3>2, <3>3
  <2>3. QED
    BY <1>1, <2>1, <2>2
<1>6. l = KindAt(u, k, Len(u))
  <2>1. l = KindAt(t, m, Len(t))
    BY DEF Framed
  <2>2. KindAt(u, k, Len(s) + Len(t)) = KindAt(t, m, Len(t))
    BY <1>1, <1>4
  <2>3. QED
    BY <1>1, <2>1, <2>2
<1>7. QED
  BY <1>5, <1>6 DEF Framed, u

LEMMA KindIsKind == \A u : KindOf(u) \in Kinds
BY DEF KindOf, Kinds

LEMMA FramedSplit ==
    ASSUME NEW S, NEW s \in Seq(S), NEW t \in Seq(S), NEW k \in Kinds, NEW l, Framed(s \o t, k, l)
    PROVE  \E m \in Kinds : Framed(s, k, m) /\ Framed(t, m, l)
<1> DEFINE u == s \o t
           m == KindAt(s, k, Len(s))
<1>1. /\ Len(s) \in Nat /\ Len(t) \in Nat /\ Len(u) = Len(s) + Len(t)
      /\ \A i \in 1..Len(s) : i \in 1..Len(u) /\ u[i] = s[i]
      /\ \A i \in 1..Len(t) : Len(s) + i \in 1..Len(u) /\ u[Len(s) + i] = t[i]
  BY ConcatParts
<1>2. (\A i \in 1..Len(u) : Follows(KindAt(u, k, i - 1), u[i])) /\ l = KindAt(u, k, Len(u))
  BY DEF Framed
<1> HIDE DEF u
<1>3. m \in Kinds
  BY KindIsKind DEF KindAt
<1>4. \A i \in 0..Len(s) : KindAt(u, k, i) = KindAt(s, k, i)
  BY <1>1 DEF KindAt
<1>5. KindAt(u, k, Len(s)) = m
  BY <1>1, <1>4
<1> HIDE DEF m
<1>6. ASSUME NEW i \in 0..Len(t) PROVE KindAt(u, k, Len(s) + i) = KindAt(t, m, i)
  <2>1. CASE i = 0
    BY <1>1, <1>5, <2>1 DEF KindAt
  <2>2. CASE i # 0
    <3>1. i \in 1..Len(t) /\ Len(s) + i # 0
      BY <1>1, <2>2
    <3>2. QED
      BY <1>1, <2>2, <3>1 DEF KindAt
  <2>3. QED
    BY <2>1, <2>2
<1>7. Framed(s, k, m)
  <2>1. ASSUME NEW i \in 1..Len(s) PROVE Follows(KindAt(s, k, i - 1), s[i])
    <3>1. i - 1 \in 0..Len(s) /\ i \in 1..Len(u) /\ u[i] = s[i]
      BY <1>1
    <3>2. QED
      BY <1>2, <1>4, <3>1
  <2>2. QED
    BY <2>1 DEF Framed, m
<1>8. Framed(t, m, l)
  <2>1. ASSUME NEW i \in 1..Len(t) PROVE Follows(KindAt(t, m, i - 1), t[i])
    <3>0. Len(s) + i \in 1..Len(u) /\ u[Len(s) + i] = t[i]
      BY <1>1
    <3>a. i \in 1..Len(t) /\ Len(t) \in Nat /\ Len(s) \in Nat
      BY <1>1
    <3>1. i - 1 \in 0..Len(t) /\ Len(s) + (i - 1) = Len(s) + i - 1
      BY <3>a
    <3>2. KindAt(u, k, Len(s) + i - 1) = KindAt(t, m, i - 1)
      BY <1>6, <3>1
    <3>3. Follows(KindAt(u, k, Len(s) + i - 1), u[Len(s) + i])
      BY <1>2, <3>0
    <3>4. QED
      BY <3>0, <3>2, <3>3
  <2>2. l = KindAt(t, m, Len(t))
    BY <1>1, <1>2, <1>6
  <2>3. QED
    BY <2>1, <2>2 DEF Framed
<1>9. QED
  BY <1>3, <1>7, <1>8

-----------------------------------------------------------------------------
(* Pieces of the stream of echoes *)

LEMMA EchoWeaken ==
    ASSUME NEW s, NEW a, NEW k, NEW b, NEW l, NEW e, NEW f, Echo(s, a, k, b, l, e), f => e
    PROVE  Echo(s, a, k, b, l, f)
BY CarriesWeaken DEF Echo

LEMMA EchoConcat ==
    ASSUME NEW s \in Seq(ChainUnits), NEW t \in Seq(ChainUnits), NEW a \in Nat, NEW m \in Nat, NEW b \in Nat,
           NEW k, NEW i, NEW l, NEW e \in BOOLEAN, Echo(s, a, k, m, i, e), Echo(t, m, i, b, l, e)
    PROVE  Echo(s \o t, a, k, b, l, e)
<1>1. /\ Content(s) \in Seq(ChainUnits) /\ Content(t) \in Seq(ChainUnits)
      /\ Content(s \o t) = Content(s) \o Content(t)
  BY ContentConcat
<1>2. Carries(Content(s), a, m, e) /\ Carries(Content(t), m, b, e)
  BY DEF Echo
<1>3. Carries(Content(s) \o Content(t), a, b, e)
  BY <1>1, <1>2, CarriesConcat
<1>4. e => Framed(s \o t, k, l)
  BY FramedConcat DEF Echo
<1>5. QED
  BY <1>1, <1>3, <1>4 DEF Echo

LEMMA EchoSplit ==
    ASSUME NEW s \in Seq(ChainUnits), NEW t \in Seq(ChainUnits), NEW a \in Nat, NEW b \in Nat,
           NEW k \in Kinds, NEW l, NEW e \in BOOLEAN, Echo(s \o t, a, k, b, l, e)
    PROVE  \E m \in a..b, i \in Kinds : Echo(s, a, k, m, i, e) /\ Echo(t, m, i, b, l, e)
<1>1. /\ Content(s) \in Seq(ChainUnits) /\ Content(t) \in Seq(ChainUnits)
      /\ Content(s \o t) = Content(s) \o Content(t)
  BY ContentConcat
<1>2. Carries(Content(s) \o Content(t), a, b, e)
  BY <1>1 DEF Echo
<1>3. PICK m \in a..b : Carries(Content(s), a, m, e) /\ Carries(Content(t), m, b, e)
  BY <1>1, <1>2, CarriesSplit
<1>4. CASE e
  <2>1. PICK i \in Kinds : Framed(s, k, i) /\ Framed(t, i, l)
    BY <1>4, FramedSplit DEF Echo
  <2>2. QED
    BY <1>3, <2>1 DEF Echo
<1>5. CASE ~e
  <2>1. Echo(s, a, k, m, "between", e) /\ Echo(t, m, "between", b, l, e)
    BY <1>3, <1>5 DEF Echo
  <2>2. QED
    BY <2>1 DEF Kinds
<1>6. QED
  BY <1>4, <1>5

LEMMA EchoDrop ==
    ASSUME NEW s \in Seq(ChainUnits), NEW t \in Seq(ChainUnits), NEW u \in Seq(ChainUnits), NEW a \in Nat, NEW b \in Nat,
           NEW k, NEW l, NEW e \in BOOLEAN, Echo((s \o t) \o u, a, k, b, l, e)
    PROVE  Echo(s \o u, a, k, b, l, e /\ t = <<>>)
<1>1. CASE t = <<>>
  <2>1. s \o t = s
    BY <1>1, ConcatEmptySeq
  <2>2. Echo(s \o u, a, k, b, l, e)
    BY <2>1
  <2>3. (e /\ t = <<>>) => e
    OBVIOUS
  <2>4. QED
    BY <2>2, <2>3, EchoWeaken, Zenon
<1>2. CASE t # <<>>
  <2>1. PICK v \in Seq(ChainUnits) : v = s \o t
    BY ConcatProperties
  <2>2. /\ Content(s) \in Seq(ChainUnits) /\ Content(t) \in Seq(ChainUnits) /\ Content(u) \in Seq(ChainUnits)
        /\ Content(v) = Content(s) \o Content(t)
        /\ Content(v \o u) = Content(v) \o Content(u)
        /\ Content(s \o u) = Content(s) \o Content(u)
    BY <2>1, ContentConcat
  <2>3. Carries((Content(s) \o Content(t)) \o Content(u), a, b, e)
    BY <2>1, <2>2 DEF Echo
  <2>4. Carries(Content(s) \o Content(u), a, b, e /\ Content(t) = <<>>)
    <3>1. \A cs, ct, cu \in Seq(ChainUnits) :
             Carries((cs \o ct) \o cu, a, b, e) => Carries(cs \o cu, a, b, e /\ ct = <<>>)
      BY CarriesDrop
    <3>2. QED
      BY <2>2, <2>3, <3>1, Zenon
  <2>5. Carries(Content(s \o u), a, b, FALSE)
    BY <2>2, <2>4, CarriesWeaken
  <2>6. Echo(s \o u, a, k, b, l, FALSE)
    BY <2>5 DEF Echo
  <2>7. (e /\ t = <<>>) => FALSE
    BY <1>2
  <2>8. QED
    BY <2>6, <2>7, EchoWeaken, Zenon
<1>3. QED
  BY <1>1, <1>2

\* The piece d goes from one place to the next.
LEMMA EchoPass ==
    ASSUME NEW s \in Seq(ChainUnits), NEW d \in Seq(ChainUnits), NEW y \in Seq(ChainUnits),
           NEW a \in Nat, NEW m \in Nat, NEW b \in Nat, NEW k, NEW i \in Kinds, NEW l, NEW e \in BOOLEAN,
           Echo(s, a, k, m, i, e), Echo(d \o y, m, i, b, l, e)
    PROVE  \E n \in m..b, j \in Kinds : Echo(s \o d, a, k, n, j, e) /\ Echo(y, n, j, b, l, e)
<1>1. PICK n \in m..b, j \in Kinds : Echo(d, m, i, n, j, e) /\ Echo(y, n, j, b, l, e)
  BY EchoSplit
<1>2. n \in Nat
  OBVIOUS
<1>3. Echo(s \o d, a, k, n, j, e)
  BY <1>1, <1>2, EchoConcat
<1>4. QED
  BY <1>1, <1>3

-----------------------------------------------------------------------------
(* The way back: out to the client, on the way, with the server's answers not read yet *)

Down(o, r, f, b, k, e0, e1) ==
    \E m, n \in Nat, i, j \in Kinds :
        Echo(o, 0, "between", m, i, e0) /\ Echo(r, m, i, n, j, e1) /\ Echo(f, n, j, b, k, e1)

LEMMA DownWeaken ==
    ASSUME NEW o, NEW r, NEW f, NEW b, NEW k, NEW e0, NEW e1, NEW d0, NEW d1,
           Down(o, r, f, b, k, e0, e1), d0 => e0, d1 => e1
    PROVE  Down(o, r, f, b, k, d0, d1)
BY EchoWeaken DEF Down

\* The client is sent d.
LEMMA DownOut ==
    ASSUME NEW o \in Seq(ChainUnits), NEW d \in Seq(ChainUnits), NEW r \in Seq(ChainUnits), NEW f,
           NEW b \in Nat, NEW k, NEW e \in BOOLEAN, Down(o, d \o r, f, b, k, e, e)
    PROVE  Down(o \o d, r, f, b, k, e, e)
<1>1. PICK m \in Nat, n \in Nat, i \in Kinds, j \in Kinds :
          Echo(o, 0, "between", m, i, e) /\ Echo(d \o r, m, i, n, j, e) /\ Echo(f, n, j, b, k, e)
  BY DEF Down
<1>2. 0 \in Nat
  OBVIOUS
<1>3. PICK p \in m..n, q \in Kinds : Echo(o \o d, 0, "between", p, q, e) /\ Echo(r, p, q, n, j, e)
  BY <1>1, <1>2, EchoPass
<1>4. p \in Nat
  OBVIOUS
<1>5. QED
  BY <1>1, <1>3, <1>4 DEF Down

\* The client proxy sends d.
LEMMA DownBack ==
    ASSUME NEW o, NEW r \in Seq(ChainUnits), NEW d \in Seq(ChainUnits), NEW f \in Seq(ChainUnits),
           NEW b \in Nat, NEW k, NEW e0, NEW e1 \in BOOLEAN, Down(o, r, d \o f, b, k, e0, e1)
    PROVE  Down(o, r \o d, f, b, k, e0, e1)
<1>1. PICK m \in Nat, n \in Nat, i \in Kinds, j \in Kinds :
          Echo(o, 0, "between", m, i, e0) /\ Echo(r, m, i, n, j, e1) /\ Echo(d \o f, n, j, b, k, e1)
  BY DEF Down
<1>2. PICK p \in n..b, q \in Kinds : Echo(r \o d, m, i, p, q, e1) /\ Echo(f, p, q, b, k, e1)
  BY <1>1, EchoPass
<1>3. p \in Nat
  OBVIOUS
<1>4. QED
  BY <1>1, <1>2, <1>3 DEF Down

\* y is lost on the way.
LEMMA DownLose ==
    ASSUME NEW o, NEW x \in Seq(ChainUnits), NEW y \in Seq(ChainUnits), NEW z \in Seq(ChainUnits), NEW f,
           NEW b, NEW k, NEW e0, NEW e1 \in BOOLEAN, Down(o, (x \o y) \o z, f, b, k, e0, e1)
    PROVE  Down(o, x \o z, f, b, k, e0, e1 /\ y = <<>>)
<1>1. PICK m \in Nat, n \in Nat, i \in Kinds, j \in Kinds :
          Echo(o, 0, "between", m, i, e0) /\ Echo((x \o y) \o z, m, i, n, j, e1) /\ Echo(f, n, j, b, k, e1)
  BY DEF Down
<1>2. Echo(x \o z, m, i, n, j, e1 /\ y = <<>>)
  BY <1>1, EchoDrop
<1>3. (e1 /\ y = <<>>) => e1
  OBVIOUS
<1>4. Echo(f, n, j, b, k, e1 /\ y = <<>>)
  BY <1>1, <1>3, EchoWeaken, Zenon
<1>5. QED
  BY <1>1, <1>2, <1>4 DEF Down

\* The end of what the server has written is lost.
LEMMA DownCut ==
    ASSUME NEW o, NEW r, NEW x \in Seq(ChainUnits), NEW y \in Seq(ChainUnits), NEW b \in Nat, NEW k, NEW e0,
           NEW e1 \in BOOLEAN, Down(o, r, x \o y, b, k, e0, e1)
    PROVE  \E a \in 0..b, l \in Kinds : Down(o, r, x, a, l, e0, e1)
<1>1. PICK m \in Nat, n \in Nat, i \in Kinds, j \in Kinds :
          Echo(o, 0, "between", m, i, e0) /\ Echo(r, m, i, n, j, e1) /\ Echo(x \o y, n, j, b, k, e1)
  BY DEF Down
<1>2. PICK a \in n..b, l \in Kinds : Echo(x, n, j, a, l, e1) /\ Echo(y, a, l, b, k, e1)
  BY <1>1, EchoSplit
<1>3. a \in 0..b
  OBVIOUS
<1>4. QED
  BY <1>1, <1>2, <1>3 DEF Down

\* The server answers d.
LEMMA DownAnswer ==
    ASSUME NEW o, NEW r, NEW f \in Seq(ChainUnits), NEW d \in Seq(ChainUnits), NEW a \in Nat, NEW b \in Nat,
           NEW k, NEW l, NEW e0, NEW e1 \in BOOLEAN, Down(o, r, f, a, k, e0, e1), Echo(d, a, k, b, l, e1)
    PROVE  Down(o, r, f \o d, b, l, e0, e1)
<1>1. PICK m \in Nat, n \in Nat, i \in Kinds, j \in Kinds :
          Echo(o, 0, "between", m, i, e0) /\ Echo(r, m, i, n, j, e1) /\ Echo(f, n, j, a, k, e1)
  BY DEF Down
<1>2. Echo(f \o d, n, j, b, l, e1)
  BY <1>1, EchoConcat
<1>3. QED
  BY <1>1, <1>2 DEF Down

-----------------------------------------------------------------------------
(* The way there: with the server and not answered yet, on the way, with the client's   *)
(* thread and not read yet                                                               *)

Up(w, g, h, a, b, e2, e3) ==
    \E m, n \in Nat : Carries(w, a, m, e2) /\ Carries(g, m, n, e3) /\ Carries(h, n, b, e3)

LEMMA UpWeaken ==
    ASSUME NEW w, NEW g, NEW h, NEW a, NEW b, NEW e2, NEW e3, NEW d2, NEW d3,
           Up(w, g, h, a, b, e2, e3), d2 => e2, d3 => e3
    PROVE  Up(w, g, h, a, b, d2, d3)
BY CarriesWeaken DEF Up

\* The server is given d.
LEMMA UpServed ==
    ASSUME NEW w \in Seq(ChainUnits), NEW d \in Seq(ChainUnits), NEW g \in Seq(ChainUnits), NEW h,
           NEW a \in Nat, NEW b, NEW e \in BOOLEAN, Up(w, d \o g, h, a, b, e, e)
    PROVE  Up(w \o d, g, h, a, b, e, e)
<1>1. PICK m \in Nat, n \in Nat : Carries(w, a, m, e) /\ Carries(d \o g, m, n, e) /\ Carries(h, n, b, e)
  BY DEF Up
<1>2. PICK p \in m..n : Carries(w \o d, a, p, e /\ e) /\ Carries(g, p, n, e)
  BY <1>1, CarriesPass
<1>3. p \in Nat
  OBVIOUS
<1>4. Carries(w \o d, a, p, e)
  BY <1>2, CarriesWeaken
<1>5. QED
  BY <1>1, <1>2, <1>3, <1>4 DEF Up

\* The client's thread sends d.
LEMMA UpSent ==
    ASSUME NEW w, NEW g \in Seq(ChainUnits), NEW d \in Seq(ChainUnits), NEW h \in Seq(ChainUnits),
           NEW a, NEW b \in Nat, NEW e2, NEW e3 \in BOOLEAN, Up(w, g, d \o h, a, b, e2, e3)
    PROVE  Up(w, g \o d, h, a, b, e2, e3)
<1>1. PICK m \in Nat, n \in Nat : Carries(w, a, m, e2) /\ Carries(g, m, n, e3) /\ Carries(d \o h, n, b, e3)
  BY DEF Up
<1>2. PICK p \in n..b : Carries(g \o d, m, p, e3 /\ e3) /\ Carries(h, p, b, e3)
  BY <1>1, CarriesPass
<1>3. p \in Nat
  OBVIOUS
<1>4. Carries(g \o d, m, p, e3)
  BY <1>2, CarriesWeaken
<1>5. QED
  BY <1>1, <1>2, <1>3, <1>4 DEF Up

\* y is lost on the way.
LEMMA UpLose ==
    ASSUME NEW w, NEW x \in Seq(ChainUnits), NEW y \in Seq(ChainUnits), NEW z \in Seq(ChainUnits), NEW h,
           NEW a, NEW b, NEW e2, NEW e3 \in BOOLEAN, Up(w, (x \o y) \o z, h, a, b, e2, e3)
    PROVE  Up(w, x \o z, h, a, b, e2, e3 /\ y = <<>>)
<1>1. PICK m \in Nat, n \in Nat :
          Carries(w, a, m, e2) /\ Carries((x \o y) \o z, m, n, e3) /\ Carries(h, n, b, e3)
  BY DEF Up
<1>2. Carries(x \o z, m, n, e3 /\ y = <<>>)
  BY <1>1, CarriesDrop
<1>3. (e3 /\ y = <<>>) => e3
  OBVIOUS
<1>4. Carries(h, n, b, e3 /\ y = <<>>)
  BY <1>1, <1>3, CarriesWeaken, Zenon
<1>5. QED
  BY <1>1, <1>2, <1>4 DEF Up

\* y, which the client had written, is lost.
LEMMA UpForget ==
    ASSUME NEW w, NEW g, NEW x \in Seq(ChainUnits), NEW y \in Seq(ChainUnits), NEW z \in Seq(ChainUnits),
           NEW a, NEW b \in Nat, NEW e2, NEW e3 \in BOOLEAN, Up(w, g, (x \o y) \o z, a, b, e2, e3)
    PROVE  Up(w, g, x \o z, a, b, e2, e3 /\ y = <<>>)
<1>1. PICK m \in Nat, n \in Nat :
          Carries(w, a, m, e2) /\ Carries(g, m, n, e3) /\ Carries((x \o y) \o z, n, b, e3)
  BY DEF Up
<1>2. Carries(x \o z, n, b, e3 /\ y = <<>>)
  BY <1>1, CarriesDrop
<1>3. (e3 /\ y = <<>>) => e3
  OBVIOUS
<1>4. Carries(g, m, n, e3 /\ y = <<>>)
  BY <1>1, <1>3, CarriesWeaken, Zenon
<1>5. QED
  BY <1>1, <1>2, <1>4 DEF Up

\* The client writes its next unit.
LEMMA UpGrow ==
    ASSUME NEW w, NEW g, NEW h \in Seq(ChainUnits), NEW a, NEW b \in Nat, <<Client, b + 1>> \in ChainUnits,
           NEW e2, NEW e3 \in BOOLEAN, Up(w, g, h, a, b, e2, e3)
    PROVE  Up(w, g, h \o <<<<Client, b + 1>>>>, a, b + 1, e2, e3)
<1>1. PICK m \in Nat, n \in Nat : Carries(w, a, m, e2) /\ Carries(g, m, n, e3) /\ Carries(h, n, b, e3)
  BY DEF Up
<1> DEFINE u == <<<<Client, b + 1>>>>
<1>2. u \in Seq(ChainUnits) /\ Len(u) = 1 /\ u[1] = <<Client, b + 1>> /\ u[1][2] = b + 1
  OBVIOUS
<1> HIDE DEF u
<1>3. /\ b + 1 \in Nat /\ b + 1 - b = 1 /\ b + 1 \in b + 1 .. b + 1 /\ b <= b + 1
      /\ \A i \in 1..1 : i = 1
  OBVIOUS
<1>4. Carries(u, b, b + 1, e3)
  BY <1>2, <1>3 DEF Carries
<1>5. Carries(h \o u, n, b + 1, e3)
  BY <1>1, <1>2, <1>3, <1>4, CarriesConcat
<1>6. QED
  BY <1>1, <1>5 DEF Up, u

\* The server answers x.
LEMMA UpTaken ==
    ASSUME NEW x \in Seq(ChainUnits), NEW w \in Seq(ChainUnits), NEW g, NEW h, NEW a \in Nat, NEW b,
           NEW e2 \in BOOLEAN, NEW e3, Up(x \o w, g, h, a, b, e2, e3)
    PROVE  \E n \in Nat : Carries(x, a, n, e2) /\ Up(w, g, h, n, b, e2, e3)
<1>1. PICK m \in Nat, n \in Nat : Carries(x \o w, a, m, e2) /\ Carries(g, m, n, e3) /\ Carries(h, n, b, e3)
  BY DEF Up
<1>2. PICK p \in a..m : Carries(x, a, p, e2) /\ Carries(w, p, m, e2)
  BY <1>1, CarriesSplit
<1>3. p \in Nat
  OBVIOUS
<1>4. QED
  BY <1>1, <1>2, <1>3 DEF Up

\* Answers are missing.
LEMMA UpWiden ==
    ASSUME NEW w, NEW g, NEW h, NEW a \in Nat, NEW m \in 0..a, NEW b, NEW e2, NEW e3, Up(w, g, h, a, b, e2, e3)
    PROVE  Up(w, g, h, m, b, FALSE, e3)
<1>1. PICK p \in Nat, n \in Nat : Carries(w, a, p, e2) /\ Carries(g, p, n, e3) /\ Carries(h, n, b, e3)
  BY DEF Up
<1>2. m \in Nat /\ m <= a /\ p <= p
  OBVIOUS
<1>3. Carries(w, m, p, FALSE)
  BY <1>1, <1>2, CarriesWiden
<1>4. QED
  BY <1>1, <1>3 DEF Up

\* What the server makes of a piece of the stream.
LEMMA EchoOfMessage ==
    ASSUME NEW d \in Seq(ChainUnits), d # <<>>, NEW a \in Nat, NEW b \in Nat, NEW e \in BOOLEAN, Carries(d, a, b, e),
           NEW k \in Kinds, e => k = "between"
    PROVE  ES!EchoMessage(d) \in Seq(ChainUnits) /\ Echo(ES!EchoMessage(d), a, k, b, "between", e)
<1> DEFINE o == <<Opening>>
           c == <<Closing>>
<1>1. /\ Opening \in ChainUnits /\ Closing \in ChainUnits /\ Opening # Closing
      /\ IsMark(Opening) /\ IsMark(Closing)
  BY DEF ChainUnits, IsMark, Opening, Closing
<1>2. o \in Seq(ChainUnits) /\ c \in Seq(ChainUnits) /\ Len(o) = 1 /\ o[1] = Opening /\ Len(c) = 1 /\ c[1] = Closing
  BY <1>1
<1>3. Content(o) = <<>> /\ Content(c) = <<>> /\ Content(d) = d /\ Plain(d)
  BY <1>1, CarriesPlain, ContentOfOne
<1>4. ES!EchoMessage(d) = (o \o d) \o c
  BY DEF ES!EchoMessage
<1> HIDE DEF o, c
<1>5. PICK s \in Seq(ChainUnits) : s = o \o d /\ Content(s) = Content(o) \o Content(d)
  BY <1>2, ConcatProperties, ContentConcat
<1>6. Content(s) = d
  BY <1>3, <1>5, ConcatEmptySeq
<1>7. s \o c \in Seq(ChainUnits) /\ Content(s \o c) = d
  <2>1. s \o c \in Seq(ChainUnits) /\ Content(s \o c) = Content(s) \o Content(c)
    BY <1>2, ConcatProperties, ContentConcat
  <2>2. QED
    BY <1>3, <1>6, <2>1, ConcatEmptySeq
<1>8. ASSUME e PROVE Framed(s \o c, k, "between")
  <2>1. Len(d) \in Nat \ {0} /\ \A i \in 1..Len(d) : d[i] # Opening /\ d[i] # Closing /\ KindOf(d[i]) = "within"
    BY <1>3, EmptySeq, LenProperties DEF Plain, IsMark, KindOf
  <2>2. Framed(o, k, "begun")
    BY <1>1, <1>2, <1>8 DEF Framed, KindAt, KindOf, Follows
  <2>3. Framed(d, "begun", "within")
    <3>1. ASSUME NEW i \in 1..Len(d) PROVE KindAt(d, "begun", i - 1) \in {"begun", "within"}
      <4>1. i - 1 = 0 \/ i - 1 \in 1..Len(d)
        BY <2>1
      <4>2. QED
        BY <2>1, <4>1 DEF KindAt
    <3>2. \A i \in 1..Len(d) : Follows(KindAt(d, "begun", i - 1), d[i])
      BY <2>1, <3>1 DEF Follows
    <3>3. KindAt(d, "begun", Len(d)) = "within"
      BY <2>1 DEF KindAt
    <3>4. QED
      BY <3>2, <3>3 DEF Framed
  <2>4. Framed(c, "within", "between")
    BY <1>1, <1>2 DEF Framed, KindAt, KindOf, Follows
  <2>5. Framed(s, k, "within")
    BY <1>2, <1>5, <2>2, <2>3, FramedConcat
  <2>6. QED
    BY <1>2, <2>4, <2>5, FramedConcat
<1>9. Echo(s \o c, a, k, b, "between", e)
  BY <1>7, <1>8 DEF Echo
<1>10. QED
  BY <1>4, <1>5, <1>7, <1>9

-----------------------------------------------------------------------------
(* The network *)

\* A sequence in two parts.
LEMMA CutAt ==
    ASSUME NEW S, NEW s \in Seq(S), NEW p \in 0..Len(s)
    PROVE  /\ SubSeq(s, 1, p) \in Seq(S) /\ SubSeq(s, p + 1, Len(s)) \in Seq(S)
           /\ s = SubSeq(s, 1, p) \o SubSeq(s, p + 1, Len(s))
<1>1. Len(s) \in Nat /\ p \in Nat /\ p <= Len(s)
  BY LenProperties
<1>2. 1 \in 1 .. Len(s) + 1 /\ p \in 1 - 1 .. Len(s) /\ Len(s) \in p..Len(s)
  BY <1>1
<1>3. SubSeq(s, 1, p) \o SubSeq(s, p + 1, Len(s)) = SubSeq(s, 1, Len(s))
  BY <1>2, ConcatAdjacentSubSeq
<1>4. QED
  BY <1>3, SubSeqFull, PrefixType, RestType

\* The datagram p is the last that has arrived.
UpTo(arrivals, p) == (p = 0 \/ arrivals[p] > 0) /\ \A i \in p + 1 .. Len(arrivals) : arrivals[i] = 0
HasLast(arrivals) == \E p \in 0..Len(arrivals) : UpTo(arrivals, p)
LastOf(arrivals) == CHOOSE p \in 0..Len(arrivals) : UpTo(arrivals, p)

\* The datagrams of s that may still arrive.
Coming(arrivals, s) == SubSeq(s, LastOf(arrivals) + 1, Len(s))

LEMMA LastOfIs ==
    ASSUME NEW arrivals \in Seq(Nat), NEW p \in 0..Len(arrivals), UpTo(arrivals, p)
    PROVE  LastOf(arrivals) = p
<1>1. Len(arrivals) \in Nat
  BY LenProperties
<1>2. LastOf(arrivals) \in 0..Len(arrivals) /\ UpTo(arrivals, LastOf(arrivals))
  BY DEF LastOf
<1>3. ASSUME NEW q \in 0..Len(arrivals), UpTo(arrivals, q) PROVE q = p
  <2>1. q < p => q + 1 <= p /\ p \in q + 1 .. Len(arrivals) /\ p # 0
    BY <1>1
  <2>2. p < q => p + 1 <= q /\ q \in p + 1 .. Len(arrivals) /\ q # 0
    BY <1>1
  <2>3. ~(q < p) /\ ~(p < q)
    BY <1>3, <2>1, <2>2 DEF UpTo
  <2>4. QED
    BY <1>1, <2>3
<1>4. QED
  BY <1>2, <1>3

\* A datagram enters the network.
LEMMA NetSends ==
    ASSUME NEW arrivals \in Seq(Nat), HasLast(arrivals), NEW S, NEW s \in Seq(S), Len(s) = Len(arrivals), NEW x \in S
    PROVE  /\ Append(arrivals, 0) \in Seq(Nat) /\ HasLast(Append(arrivals, 0))
           /\ Len(Append(s, x)) = Len(Append(arrivals, 0))
           /\ Coming(arrivals, s) \in Seq(S)
           /\ Coming(Append(arrivals, 0), Append(s, x)) = Coming(arrivals, s) \o <<x>>
           /\ Skipped(arrivals) => Skipped(Append(arrivals, 0))
<1> DEFINE more == Append(arrivals, 0)
           t == Append(s, x)
<1>1. /\ more \in Seq(Nat) /\ Len(arrivals) \in Nat /\ Len(more) = Len(arrivals) + 1
      /\ \A i \in 1..Len(arrivals) : more[i] = arrivals[i]
      /\ more[Len(arrivals) + 1] = 0
  BY AddLast
<1>2. t \in Seq(S) /\ Len(t) = Len(s) + 1 /\ (\A i \in 1..Len(s) : t[i] = s[i]) /\ t[Len(s) + 1] = x
  BY AddLast
<1> HIDE DEF more, t
<1>3. PICK p \in 0..Len(arrivals) : UpTo(arrivals, p)
  BY DEF HasLast
<1>4. p \in 0..Len(more) /\ UpTo(more, p)
  <2>1. p \in 0..Len(more) /\ (p # 0 => p \in 1..Len(arrivals))
    BY <1>1
  <2>2. ASSUME NEW i \in p + 1 .. Len(more) PROVE more[i] = 0
    <3>1. i \in p + 1 .. Len(arrivals) \/ i = Len(arrivals) + 1
      BY <1>1, <2>2
    <3>2. i \in p + 1 .. Len(arrivals) => i \in 1..Len(arrivals)
      BY <1>1
    <3>3. QED
      BY <1>1, <1>3, <3>1, <3>2 DEF UpTo
  <2>3. QED
    BY <1>1, <1>3, <2>1, <2>2 DEF UpTo
<1>5. LastOf(arrivals) = p /\ LastOf(more) = p
  BY <1>1, <1>3, <1>4, LastOfIs
<1>6. Coming(arrivals, s) = SubSeq(s, p + 1, Len(s)) /\ Coming(more, t) = SubSeq(t, p + 1, Len(t))
  BY <1>5 DEF Coming
<1>7. p \in 0..Len(s) /\ p \in 0..Len(t) /\ Len(s) \in Nat /\ p \in Nat /\ p <= Len(s)
  BY <1>1, <1>2
<1> DEFINE rest == SubSeq(s, p + 1, Len(s))
           rest2 == SubSeq(t, p + 1, Len(t))
<1>8. rest \in Seq(S) /\ Len(rest) = Len(s) - p /\ \A i \in 1 .. Len(s) - p : p + i \in 1..Len(s) /\ rest[i] = s[p + i]
  BY <1>7, RestType, RestElements
<1>9. rest2 \in Seq(S) /\ Len(rest2) = Len(t) - p /\ \A i \in 1 .. Len(t) - p : rest2[i] = t[p + i]
  BY <1>2, <1>7, RestType, RestElements
<1>10. <<x>> \in Seq(S) /\ Len(<<x>>) = 1 /\ <<x>>[1] = x
  OBVIOUS
<1> HIDE DEF rest, rest2
<1>11. rest2 = rest \o <<x>>
  <2>1. Len(rest2) = Len(rest) + Len(<<x>>)
    BY <1>2, <1>7, <1>8, <1>9, <1>10
  <2>2. \A i \in 1..Len(rest) : rest2[i] = rest[i]
    <3>1. \A i \in 1 .. Len(s) - p : i \in 1 .. Len(t) - p
      BY <1>2, <1>7
    <3>2. QED
      BY <1>2, <1>8, <1>9, <3>1
  <2>3. rest2[Len(rest) + 1] = x
    <3>1. Len(rest) + 1 \in 1 .. Len(t) - p /\ p + (Len(rest) + 1) = Len(s) + 1
      BY <1>2, <1>7, <1>8
    <3>2. QED
      BY <1>2, <1>9, <3>1
  <2>4. \A i \in 1..Len(<<x>>) : rest2[Len(rest) + i] = <<x>>[i]
    <3>1. \A i \in 1..1 : i = 1
      OBVIOUS
    <3>2. QED
      BY <1>10, <2>3, <3>1
  <2>5. QED
    BY <1>8, <1>9, <1>10, <2>1, <2>2, <2>4, MadeOfTwo
<1>12. Skipped(arrivals) => Skipped(more)
  <2>1. \A i \in 1..Len(arrivals) : i \in 1..Len(more)
    BY <1>1
  <2>2. QED
    BY <1>1, <2>1 DEF Skipped
<1>13. Len(t) = Len(more)
  BY <1>1, <1>2
<1>14. QED
  BY <1>1, <1>4, <1>6, <1>8, <1>11, <1>12, <1>13 DEF HasLast, more, t, rest, rest2

LEMMA ArrivalsGrow ==
    ASSUME NEW arrivals \in Seq(Nat), HasLast(arrivals)
    PROVE  /\ Append(arrivals, 0) \in Seq(Nat) /\ HasLast(Append(arrivals, 0))
           /\ Len(Append(arrivals, 0)) = Len(arrivals) + 1
<1>1. 0 \in Nat
  OBVIOUS
<1>2. Len(Append(arrivals, 0)) = Len(arrivals) + 1
  BY <1>1, AddLast
<1>3. Append(arrivals, 0) \in Seq(Nat) /\ HasLast(Append(arrivals, 0))
  BY <1>1, NetSends, Zenon
<1>4. QED
  BY <1>2, <1>3

\* Datagram i arrives: those before it that have not will not any more.
Delivers(arrivals, next, s, i, S) ==
    /\ next \in Seq(Nat) /\ HasLast(next) /\ Len(next) = Len(s)
    /\ s[i] \in S /\ Coming(next, s) \in Seq(S)
    /\ Skipped(arrivals) => Skipped(next)
    /\ \E lost \in Seq(S) : /\ Coming(arrivals, s) = (lost \o <<s[i]>>) \o Coming(next, s)
                            /\ ~Skipped(next) => lost = <<>>

LEMMA NetDelivers ==
    ASSUME NEW arrivals \in Seq(Nat), HasLast(arrivals), NEW S, NEW s \in Seq(S), Len(s) = Len(arrivals),
           NEW i \in 1..Len(arrivals), arrivals[i] = 0, \A j \in i + 1 .. Len(arrivals) : arrivals[j] = 0
    PROVE  Delivers(arrivals, [arrivals EXCEPT ![i] = @ + 1], s, i, S)
<1> DEFINE next == [arrivals EXCEPT ![i] = @ + 1]
<1>1. Len(arrivals) \in Nat /\ i \in Nat /\ 1 <= i /\ i <= Len(arrivals) /\ s[i] \in S
  BY LenProperties, ElementOfSeq
<1>2. arrivals \in [1..Len(arrivals) -> Nat]
  BY LenProperties
<1>3. next \in [1..Len(arrivals) -> Nat] /\ next[i] = 1 /\ \A j \in 1..Len(arrivals) : j # i => next[j] = arrivals[j]
  BY <1>2
<1>4. next \in Seq(Nat) /\ Len(next) = Len(arrivals)
  BY <1>1, <1>3, IsASeq
<1> HIDE DEF next
<1>5. PICK p \in 0..Len(arrivals) : UpTo(arrivals, p)
  BY DEF HasLast
<1>6. p \in Nat /\ p < i
  <2>1. i < p => p \in i + 1 .. Len(arrivals) /\ p # 0
    BY <1>1
  <2>2. i = p => p # 0 /\ arrivals[p] = 0
    BY <1>1
  <2>3. ~(i < p) /\ i # p
    BY <1>5, <2>1, <2>2 DEF UpTo
  <2>4. QED
    BY <1>1, <2>3
<1>7. i \in 0..Len(next) /\ UpTo(next, i)
  <2>1. \A j \in i + 1 .. Len(arrivals) : j \in 1..Len(arrivals) /\ j # i
    BY <1>1
  <2>2. QED
    BY <1>1, <1>3, <1>4, <2>1 DEF UpTo
<1>8. LastOf(arrivals) = p /\ LastOf(next) = i
  BY <1>4, <1>5, <1>7, LastOfIs
<1>9. Coming(arrivals, s) = SubSeq(s, p + 1, Len(s)) /\ Coming(next, s) = SubSeq(s, i + 1, Len(s))
  BY <1>8 DEF Coming
<1>10. SubSeq(s, i + 1, Len(s)) \in Seq(S)
  BY <1>1, RestType
<1> DEFINE lost == SubSeq(s, p + 1, i - 1)
<1>11. lost \in Seq(S)
  <2>1. \A j \in p + 1 .. i - 1 : j \in 1..Len(s)
    BY <1>1, <1>6
  <2>2. \A j \in p + 1 .. i - 1 : s[j] \in S
    BY <2>1, ElementOfSeq
  <2>3. p + 1 \in Int /\ i - 1 \in Int
    BY <1>1, <1>6
  <2>4. QED
    BY <2>2, <2>3, SubSeqProperties
<1>12. SubSeq(s, p + 1, Len(s)) = (lost \o <<s[i]>>) \o SubSeq(s, i + 1, Len(s))
  <2>1. /\ p + 1 \in 1 .. Len(s) + 1 /\ i \in p + 1 - 1 .. Len(s) /\ Len(s) \in i..Len(s)
        /\ p + 1 \in 1..Len(s) /\ i \in p + 1 .. Len(s)
    BY <1>1, <1>6
  <2>2. SubSeq(s, p + 1, i) \o SubSeq(s, i + 1, Len(s)) = SubSeq(s, p + 1, Len(s))
    BY <2>1, ConcatAdjacentSubSeq
  <2>3. SubSeq(s, p + 1, i) = lost \o <<s[i]>>
    BY <2>1, SubSeqRecursiveSecond
  <2>4. QED
    BY <2>2, <2>3
<1>13. ASSUME ~Skipped(next) PROVE lost = <<>>
  <2>1. CASE p + 1 = i
    <3>1. i - 1 < p + 1 /\ p + 1 \in Int /\ i - 1 \in Int
      BY <1>6, <2>1
    <3>2. QED
      BY <3>1, SubSeqEmpty
  <2>2. CASE p + 1 # i
    <3>1. p + 1 \in 1..Len(arrivals) /\ p + 1 < i /\ p + 1 \in p + 1 .. Len(arrivals) /\ p + 1 # i
      BY <1>1, <1>6, <2>2
    <3>2. next[p + 1] = 0 /\ next[i] > 0
      BY <1>3, <1>5, <3>1 DEF UpTo
    <3>3. QED
      BY <1>4, <1>13, <3>1, <3>2 DEF Skipped
  <2>3. QED
    BY <2>1, <2>2
<1>14. Skipped(arrivals) => Skipped(next)
  <2>1. ASSUME NEW j \in 1..Len(arrivals), NEW k \in 1..Len(arrivals), j < k, arrivals[j] = 0, arrivals[k] > 0
        PROVE  Skipped(next)
    <3>1. k # i
      BY <2>1
    <3>2. j # i
      <4>1. j = i => k \in i + 1 .. Len(arrivals)
        BY <1>1, <2>1
      <4>2. QED
        BY <2>1, <4>1
    <3>3. next[j] = 0 /\ next[k] > 0
      BY <1>3, <2>1, <3>1, <3>2
    <3>4. QED
      BY <1>4, <2>1, <3>3 DEF Skipped
  <2>2. QED
    BY <2>1 DEF Skipped
<1> HIDE DEF lost
<1>15. QED
  BY <1>1, <1>4, <1>7, <1>9, <1>10, <1>11, <1>12, <1>13, <1>14 DEF HasLast, next, Delivers

-----------------------------------------------------------------------------
(* Where the client's data are *)

Setting == Conns = {Client} /\ Net \subseteq {"loss"}

Gone == Left(Client)
Bound == cpBindings[Proxy]

\* The datagrams of a history.
Data(q) == [i \in 1..Len(q) |-> q[i].data]

\* What handle_udp_input is about to write to the client, and what is on its way to it.
Replying == IF reactor = "iterate" /\ todo # {} THEN reply ELSE <<>>
Returning == (Replying \o FlattenSeq(fromUdp)) \o FlattenSeq(Coming(back, Data(cpOut)))

\* What the server has written and the client proxy has not read.
Answers == IF Bound = None THEN <<>> ELSE cpFromServer[Bound]

\* What the client proxy has written and the server has not answered.
Unread(l) == SubSeq(cpToServer[l], esTaken[l] + 1, Len(cpToServer[l]))
Unanswered == IF Bound = None THEN <<>> ELSE esChunk[Bound] \o Unread(Bound)

\* What is on its way to the client proxy.
Going == FlattenSeq(Data(cpIn)) \o FlattenSeq(Coming(there, toUdp))

\* What the client's thread has read and not sent, and what it has not read.
Buffered == IF task[Client] = "send" THEN Prefix(tcpBuffer, count[Client]) ELSE <<>>
Held == Buffered \o inbox[Client]

\* Up to where nothing is missing: only the network, the faults of the system calls, a client
\* that leaves, and a server that closes or is not there make data disappear.
Clean == Faults \cap {"send", "partial", "checksum"} = {} /\ "partial" \notin EchoFaults
E0 == Clean /\ Lossless
E1 == E0 /\ ~Gone
E2 == E1 /\ ~(Bound # None /\ cpLink[Bound] = "closed")
E3 == E2 /\ (esListening \/ Bound # None)

DownTo(b, k) == Down(outbox[Client], Returning, Answers, b, k, E0, E1)
UpFrom(b) == Up(Unanswered, Going, Held, b, sentUnits[Client], E2, E3)

\* The client's data are at these places, in order and, as far as the flags say, complete.
Piped == \E b \in Nat, k \in Kinds : DownTo(b, k) /\ UpFrom(b) /\ (E2 => k = "between")

-----------------------------------------------------------------------------
(* The inductive invariant *)

\* The server proxy, with one client: only this one is registered, its thread ends because
\* it has left or stop() has cancelled it, and a datagram to be sent is its data.
OwnKey ==
    /\ todo \subseteq {peer[Client]}
    /\ \A k \in Keys : sessions[k] # None => k = peer[Client]
    /\ task[Client] = "done" => Client \in cancelled \/ Gone
ToSend == task[Client] = "send" => count[Client] # 0 /\ Buffered \in Seq(Units) /\ Len(Buffered) = count[Client]
NearEnd == IInv /\ KeysInv /\ OwnKey /\ ToSend

\* The network.
Packet == {d \in Seq(ChainUnits) : Len(d) \in 1..BufSize}
Network ==
    /\ there \in Seq(Nat) /\ HasLast(there) /\ Len(there) = Len(toUdp)
    /\ back \in Seq(Nat) /\ HasLast(back) /\ Len(back) = Len(cpOut)
    /\ toUdp \in Seq(Packet)
    /\ cpIn \in Seq([from : {Proxy}, data : Packet])
    /\ cpOut \in Seq([to : {Proxy}, data : Packet])

\* What comes back to the server proxy, and what the client is sent.
ReplyTypes ==
    /\ fromUdp \in Seq(Packet)
    /\ reply \in Packet \cup {<<>>}
    /\ outbox[Client] \in Seq(ChainUnits)

\* The client proxy and the server: there is one connection at most, and a thread of the
\* server has data to answer only while it writes, or when it has given up.
FarTypes ==
    /\ cpBindings \in [{Proxy, AnyZero} -> Links \cup {None}]
    /\ cpSender \in [Links -> {Proxy, AnyZero, None}]
    /\ cpLink \in [Links -> {"unused", "open", "closed"}]
    /\ cpToServer \in [Links -> Seq(ChainUnits)]
    /\ cpFromServer \in [Links -> Seq(ChainUnits)]
    /\ esListening \in BOOLEAN
    /\ esTask \in [Links -> {"none", "check", "read", "write", "close", "done"}]
    /\ esChunk \in [Links -> Seq(ChainUnits)]
    /\ esTaken \in [Links -> Nat]
OneLink ==
    /\ cpBindings[AnyZero] = None
    /\ Bound # None => cpLink[Bound] # "unused" /\ cpSender[Bound] = Proxy
    /\ \A l \in Links : l # Bound => /\ cpLink[l] = "unused" /\ esTask[l] = "none" /\ esTaken[l] = 0
                                     /\ cpToServer[l] = <<>> /\ cpFromServer[l] = <<>> /\ esChunk[l] = <<>>
EchoThreads ==
    \A l \in Links : /\ esTaken[l] <= Len(cpToServer[l])
                     /\ esTask[l] \in {"none", "check", "read"} => esChunk[l] = <<>>
                     /\ esTask[l] = "write" => esChunk[l] # <<>>
FarEnd == FarTypes /\ OneLink /\ EchoThreads

\* Nothing is under way before the client's thread has started.
Nothing ==
    task[Client] = "none" =>
        toUdp = <<>> /\ cpIn = <<>> /\ Bound = None /\ cpOut = <<>> /\ fromUdp = <<>> /\ reactor # "iterate"

Placed == NearEnd /\ Network /\ ReplyTypes /\ FarEnd /\ Nothing
Chained == Placed /\ Piped

-----------------------------------------------------------------------------
(* The server proxy *)

LEMMA TheOne ==
    ASSUME Setting
    PROVE  OneClient /\ Client \in Conns /\ \A c \in Conns : c = Client
BY DEF Setting, OneClient

\* The loop over tcp_sessions_ only ever has fewer keys to visit.
LEMMA TodoShrinks ==
    ASSUME Aside
    PROVE  todo' \subseteq todo
<1> USE DEF clientVars, udpVars, reactorVars, threadVars
<1>1. ASSUME NEW c \in Conns, ClientSend(c) PROVE todo' = todo
  BY <1>1 DEF ClientSend
<1>2. ASSUME NEW d \in Replies, ReplyArrives(d) PROVE todo' = todo
  BY <1>2 DEF ReplyArrives
<1>3. CASE AcceptFails \/ Sigint \/ ReactorExits
  BY <1>3 DEF AcceptFails, Sigint, ReactorExits
<1>4. CASE UdpInputEmpty \/ UdpInputFails \/ UdpInputBlocks
  BY <1>4 DEF UdpInputEmpty, UdpInputFails, UdpInputBlocks
<1>5. ASSUME NEW k \in Keys, Broadcast(k) PROVE todo' \subseteq todo
  BY <1>5 DEF Broadcast
<1>6. CASE BroadcastEnds
  BY <1>6 DEF BroadcastEnds
<1>7. CASE StopBegins \/ RemoveUdpHandler
  BY <1>7 DEF StopBegins, RemoveUdpHandler, StopperStep
<1>8. CASE Terminated \/ UNCHANGED vars
  BY <1>8 DEF Terminated, vars
<1>9. QED
  BY <1>1, <1>2, <1>3, <1>4, <1>5, <1>6, <1>7, <1>8 DEF Aside

LEMMA OwnKeyKept ==
    ASSUME Setting, IInv, OwnKey, [Next]_vars
    PROVE  OwnKey'
<1> USE DEF clientVars, udpVars, reactorVars, threadVars
<1>0. /\ TypeOK /\ OnePlace /\ OneIsCancelled
      /\ Client \in Conns /\ \A c \in Conns : c = Client
  BY TheOne DEF IInv
<1>a. /\ todo \subseteq Keys /\ \A k \in Keys : k # None
      /\ sessions \in [Keys -> Conns \cup {None}]
      /\ task \in [Conns -> {"none", "check", "read", "send", "erase", "erasing", "done", "crashed"}]
  BY <1>0, ServerProxyAssumption DEF TypeOK, ReactorTypes, ThreadTypes
<1>b. Gone => Gone'
  BY <1>0, LeftForGood DEF Gone
<1>1. ASSUME NEW c \in Conns, NEW k \in Keys, Connect(c, k) PROVE OwnKey'
  <2>1. peer[Client] = None
    BY <1>0, <1>1 DEF Connect, OnePlace
  <2>2. todo = {} /\ \A q \in Keys : sessions[q] = None
    BY <1>a, <2>1 DEF OwnKey
  <2>3. UNCHANGED <<todo, sessions, task, cancelled>>
    BY <1>1 DEF Connect
  <2>4. QED
    BY <1>b, <2>2, <2>3 DEF OwnKey
<1>2. ASSUME NEW c \in Conns, ClientClose(c) PROVE OwnKey'
  BY <1>b, <1>2 DEF ClientClose, OwnKey
<1>3. CASE Accept \/ UdpInput
  BY <1>b, <1>3 DEF Accept, UdpInput, OwnKey
<1>4. CASE Register
  <2>1. current = Client
    BY <1>0, <1>4 DEF Register, OnePlace
  <2>2. QED
    BY <1>a, <1>b, <1>4, <2>1 DEF Register, OwnKey
<1>5. CASE Spawn
  <2>1. current = Client
    BY <1>0, <1>5 DEF Spawn, OnePlace
  <2>2. QED
    BY <1>0, <1>a, <1>b, <1>5, <2>1 DEF Spawn, OwnKey
<1>6. ASSUME NEW c \in Conns, SessionThread(c) PROVE OwnKey'
  <2>1. c = Client /\ UNCHANGED <<peer, todo, cancelled>>
    BY <1>0, <1>6 DEF SessionThread, CheckCancelled, Read, ReadTimeout, ReadClosed, Forward, EraseBegins, EraseEnds, SessionStep
  <2>2. CASE sessions' = sessions /\ task[c] \in {"check", "read", "send", "erase"} /\ task'[c] # "done"
    BY <2>1, <2>2 DEF OwnKey
  <2>3. CASE EraseEnds(c)
    <3>1. task[c] = "erasing" /\ \A k \in Keys : sessions'[k] # None => sessions[k] # None
      BY <1>a, <2>3 DEF EraseEnds, SessionStep
    <3>2. c \in cancelled \/ Gone
      BY <1>0, <2>1, <3>1 DEF OneIsCancelled, Gone
    <3>3. QED
      BY <1>b, <2>1, <3>1, <3>2 DEF OwnKey
  <2>4. QED
    BY <1>0, <1>6, <2>2, <2>3, ThreadUnregisters
<1>7. CASE CloseAcceptor \/ CancelTask \/ JoinTask \/ EndLoop
  BY <1>b, <1>7 DEF CloseAcceptor, CancelTask, JoinTask, EndLoop, StopperStep, OwnKey
<1>8. CASE Crash
  BY <1>0, <1>b, <1>8 DEF Crash, OwnKey
<1>9. CASE Aside
  BY <1>0, <1>b, <1>9, AsideMoves, TodoShrinks DEF OwnKey
<1>10. QED
  BY <1>1, <1>2, <1>3, <1>4, <1>5, <1>6, <1>7, <1>8, <1>9, NextIsSteps DEF Steps

\* What a read takes.
LEMMA ReadTakes ==
    ASSUME TypeOK, NEW c \in Conns, Read(c)
    PROVE  /\ task[c] = "read" /\ task'[c] = "send"
           /\ UNCHANGED <<clientVars, outbox, toUdp, fromUdp, reactorVars>>
           /\ count'[c] \in Nat \ {0} /\ count'[c] <= BufSize
           /\ Prefix(tcpBuffer, count[c])' \in Seq(Units) /\ Len(Prefix(tcpBuffer, count[c])') = count'[c]
           /\ inbox[c] = Prefix(tcpBuffer, count[c])' \o inbox'[c]
<1>1. /\ inbox \in [Conns -> Seq(Units)] /\ task \in [Conns -> {"none", "check", "read", "send", "erase", "erasing", "done", "crashed"}]
      /\ count \in [Conns -> 0..BufSize] /\ BufSize \in Nat \ {0}
  BY ServerProxyAssumption DEF TypeOK, ClientTypes, ThreadTypes
<1>2. inbox[c] \in Seq(Units) /\ inbox[c] # <<>> /\ Len(inbox[c]) \in Nat \ {0}
  BY <1>1, EmptySeq, LenProperties DEF Read
<1>3. PICK n \in Nat : n = Smaller(BufSize, Len(inbox[c])) /\ n # 0 /\ n <= Len(inbox[c]) /\ n <= BufSize
  BY <1>1, <1>2 DEF Smaller
<1>4. /\ inbox'[c] = SubSeq(inbox[c], n + 1, Len(inbox[c]))
      /\ tcpBuffer' = [i \in 1..BufSize |-> IF i <= n THEN inbox[c][i] ELSE tcpBuffer[i]]
      /\ count'[c] = n
      /\ task[c] = "read" /\ task'[c] = "send"
      /\ UNCHANGED <<clientVars, outbox, toUdp, fromUdp, reactorVars>>
  BY <1>1, <1>3 DEF Read, SessionStep
<1>5. n \in 0..Len(inbox[c])
  BY <1>2, <1>3
<1>6. /\ SubSeq(inbox[c], 1, n) \in Seq(Units)
      /\ inbox[c] = SubSeq(inbox[c], 1, n) \o SubSeq(inbox[c], n + 1, Len(inbox[c]))
  BY <1>2, <1>5, CutAt
<1>7. \A i \in 1..n : i \in 1..BufSize /\ i <= n /\ i \in 1..Len(inbox[c])
  BY <1>1, <1>2, <1>3
<1>8. \A i \in 1..n : tcpBuffer'[i] = inbox[c][i]
  BY <1>4, <1>7
<1>9. \A i \in 1..n : inbox[c][i] \in Units
  BY <1>2, <1>7, ElementOfSeq
<1> DEFINE s == SubSeq(inbox[c], 1, n)
           t == SubSeq(tcpBuffer', 1, n)
<1>10. 1 \in Int /\ n \in Int /\ n - 1 + 1 = n /\ (\A i \in 1..n : 1 + i - 1 = i) /\ 1 <= n
  BY <1>3
<1>11. s \in Seq(Units) /\ Len(s) = n /\ \A i \in 1..n : s[i] = inbox[c][i]
  <2>1. /\ s \in Seq(Units) /\ Len(s) = IF 1 <= n THEN n - 1 + 1 ELSE 0
        /\ \A i \in 1 .. n - 1 + 1 : s[i] = inbox[c][1 + i - 1]
    BY <1>9, <1>10, SubSeqProperties
  <2> HIDE DEF s
  <2>2. QED
    BY <1>10, <2>1
<1>12. t \in Seq(Units) /\ Len(t) = n /\ \A i \in 1..n : t[i] = tcpBuffer'[i]
  <2>0. \A i \in 1..n : tcpBuffer'[i] \in Units
    BY <1>8, <1>9
  <2>1. /\ t \in Seq(Units) /\ Len(t) = IF 1 <= n THEN n - 1 + 1 ELSE 0
        /\ \A i \in 1 .. n - 1 + 1 : t[i] = tcpBuffer'[1 + i - 1]
    BY <1>10, <2>0, SubSeqProperties
  <2> HIDE DEF t
  <2>2. QED
    BY <1>10, <2>1
<1> HIDE DEF s, t
<1>13. s = t
  BY <1>8, <1>11, <1>12, SeqEqual
<1>14. Prefix(tcpBuffer, count[c])' = t
  BY <1>4 DEF Prefix, t
<1>15. QED
  BY <1>3, <1>4, <1>6, <1>12, <1>13, <1>14 DEF s

LEMMA ToSendKept ==
    ASSUME Setting, IInv, ToSend, [Next]_vars
    PROVE  ToSend'
<1>0. /\ TypeOK /\ OnePlace
      /\ Client \in Conns /\ \A c \in Conns : c = Client
  BY TheOne DEF IInv
<1>1. ASSUME UNCHANGED <<tcpBuffer, count>>, task'[Client] = "send" => task[Client] = "send" PROVE ToSend'
  BY <1>1 DEF ToSend, Buffered, Prefix
<1>2. ASSUME NEW c \in Conns, ClientSend(c) \/ ClientClose(c) PROVE ToSend'
  BY <1>1, <1>2 DEF ClientSend, ClientClose, threadVars
<1>3. ASSUME NEW c \in Conns, SessionThread(c) PROVE ToSend'
  <2>1. c = Client
    BY <1>0
  <2>2. CASE Read(c)
    <3>1. /\ task'[c] = "send" /\ count'[c] # 0
          /\ Prefix(tcpBuffer, count[c])' \in Seq(Units) /\ Len(Prefix(tcpBuffer, count[c])') = count'[c]
      BY <1>0, <2>2, ReadTakes
    <3>2. QED
      BY <2>1, <3>1 DEF ToSend, Buffered
  <2>3. CASE ~Read(c)
    <3>1. UNCHANGED <<tcpBuffer, count>> /\ task'[c] # "send"
      BY <1>0, <1>3, <2>3 DEF SessionThread, CheckCancelled, ReadTimeout, ReadClosed, Forward, EraseBegins, EraseEnds, SessionStep,
                              TypeOK, ThreadTypes
    <3>2. QED
      BY <1>1, <2>1, <3>1
  <2>4. QED
    BY <2>2, <2>3
<1>4. CASE ~\E c \in Conns : ClientSend(c) \/ ClientClose(c) \/ SessionThread(c)
  <2>1. Rests(Client)
    BY <1>0, <1>4, OtherStepsRest
  <2>2. QED
    BY <1>1, <2>1 DEF Rests
<1>5. QED
  BY <1>2, <1>3, <1>4

LEMMA NearEndKept ==
    ASSUME Setting, NearEnd, [Next]_vars
    PROVE  NearEnd'
BY TheOne, InvariantKept, KeysKept, OwnKeyKept, ToSendKept DEF NearEnd

-----------------------------------------------------------------------------
(* The steps of the chain *)

Near ==
    \/ \E c \in Conns, k \in Keys : Connect(c, k)
    \/ \E c \in Conns : ClientSend(c) \/ ClientClose(c)
    \/ ReactorThread \/ ReactorExits
    \/ \E c \in Conns : SessionThread(c)
    \/ StopBegins \/ StopperRuns \/ Crash

Far == CP!ReactorThread \/ CP!StopBegins \/ CP!RemoveUdpHandler

Server ==
    \/ \E l \in Links : ES!Accept(l) \/ ES!TaskThread(l)
    \/ ES!CloseAcceptor \/ ES!StopperRuns

LEMMA ChainSteps ==
    ASSUME [ChainNext]_chainVars
    PROVE  \/ AtServerProxy(Near)
           \/ AtClientProxy(Far)
           \/ AtServer(Server)
           \/ \E i \in 1..Len(there) : ArriveThere(i)
           \/ \E i \in 1..Len(back) : ArriveBack(i)
           \/ UNCHANGED chainVars
<1>1. CASE UNCHANGED chainVars
  BY <1>1
<1>2. CASE ChainNext
  <2>1. CASE Clients
    BY <2>1 DEF Clients, AtServerProxy, Near
  <2>2. CASE TearDown
    BY <2>2 DEF TearDown, AtServerProxy, AtClientProxy, AtServer, Near, Far, Server
  <2>3. CASE AtServerProxy(ReactorThread) \/ AtServerProxy(ReactorExits) \/ AtServerProxy(StopperRuns) \/ AtServerProxy(Crash)
    BY <2>3 DEF AtServerProxy, Near
  <2>4. ASSUME NEW c \in Conns, AtServerProxy(SessionThread(c)) PROVE AtServerProxy(Near)
    BY <2>4 DEF AtServerProxy, Near
  <2>5. CASE AtClientProxy(CP!ReactorThread) \/ AtClientProxy(CP!RemoveUdpHandler)
    BY <2>5 DEF AtClientProxy, Far
  <2>6. ASSUME NEW l \in Links, AtServer(ES!Accept(l)) \/ AtServer(ES!TaskThread(l)) PROVE AtServer(Server)
    BY <2>6 DEF AtServer, Server
  <2>7. CASE AtServer(ES!StopperRuns)
    BY <2>7 DEF AtServer, Server
  <2>8. CASE ChainTerminated
    BY <2>8 DEF ChainTerminated
  <2>9. QED
    BY <1>2, <2>1, <2>2, <2>3, <2>4, <2>5, <2>6, <2>7, <2>8 DEF ChainNext
<1>3. QED
  BY <1>1, <1>2

LEMMA NearIsNext == ASSUME Near PROVE [Next]_vars
BY DEF Near, Next, Environment

-----------------------------------------------------------------------------
(* The network *)

LEMMA DataType ==
    ASSUME NEW R, NEW S, \A r \in R : r.data \in S, NEW q \in Seq(R)
    PROVE  Data(q) \in Seq(S) /\ Len(Data(q)) = Len(q) /\ \A i \in 1..Len(q) : Data(q)[i] = q[i].data
<1>1. Len(q) \in Nat /\ \A i \in 1..Len(q) : q[i].data \in S
  BY LenProperties, ElementOfSeq
<1>2. Data(q) \in [1..Len(q) -> S]
  BY <1>1 DEF Data
<1>3. Data(q) \in Seq(S)
  BY <1>1, <1>2, SeqDef
<1>4. Len(Data(q)) = Len(q)
  BY <1>1, <1>2, <1>3, LenProperties
<1>5. QED
  BY <1>3, <1>4 DEF Data

LEMMA DataAppend ==
    ASSUME NEW R, NEW S, \A r \in R : r.data \in S, NEW q \in Seq(R), NEW r \in R
    PROVE  Data(Append(q, r)) = Append(Data(q), r.data)
<1>1. /\ Append(q, r) \in Seq(R) /\ Len(q) \in Nat /\ Len(Append(q, r)) = Len(q) + 1
      /\ \A i \in 1..Len(q) : Append(q, r)[i] = q[i]
      /\ Append(q, r)[Len(q) + 1] = r
  BY AddLast
<1>2. Data(q) \in Seq(S) /\ Len(Data(q)) = Len(q) /\ \A i \in 1..Len(q) : Data(q)[i] = q[i].data
  BY DataType
<1> DEFINE p == Append(q, r)
           t == Append(Data(q), r.data)
<1>3. Data(p) \in Seq(S) /\ Len(Data(p)) = Len(q) + 1 /\ \A i \in 1 .. Len(q) + 1 : Data(p)[i] = p[i].data
  BY <1>1, DataType
<1>4. /\ t \in Seq(S) /\ Len(t) = Len(q) + 1 /\ t[Len(q) + 1] = r.data
      /\ \A i \in 1..Len(q) : t[i] = q[i].data
  BY <1>2, AddLast
<1>5. \A i \in 1..Len(q) : p[i] = q[i]
  BY <1>1
<1>6. p[Len(q) + 1] = r
  BY <1>1
<1> HIDE DEF p, t
<1>7. ASSUME NEW i \in 1 .. Len(q) + 1 PROVE Data(p)[i] = t[i]
  <2>1. i \in 1..Len(q) \/ i = Len(q) + 1
    BY <1>1
  <2>2. QED
    BY <1>3, <1>4, <1>5, <1>6, <2>1
<1>8. Data(p) = t
  BY <1>3, <1>4, <1>7, SeqEqual
<1>9. QED
  BY <1>8 DEF p, t

LEMMA DataTail ==
    ASSUME NEW R, NEW S, \A r \in R : r.data \in S, NEW q \in Seq(R), q # <<>>
    PROVE  Data(q) # <<>> /\ Head(Data(q)) = Head(q).data /\ Data(Tail(q)) = Tail(Data(q))
<1>1. /\ Len(q) \in Nat \ {0} /\ Head(q) = q[1] /\ Tail(q) \in Seq(R) /\ Len(Tail(q)) = Len(q) - 1
      /\ \A i \in 1..Len(Tail(q)) : Tail(q)[i] = q[i + 1]
  BY TakeFirst
<1>2. Data(q) \in Seq(S) /\ Len(Data(q)) = Len(q) /\ \A i \in 1..Len(q) : Data(q)[i] = q[i].data
  BY DataType
<1>3. Data(q) # <<>>
  BY <1>1, <1>2, EmptySeq
<1>4. /\ Head(Data(q)) = Data(q)[1] /\ Tail(Data(q)) \in Seq(S) /\ Len(Tail(Data(q))) = Len(Data(q)) - 1
      /\ \A i \in 1..Len(Tail(Data(q))) : Tail(Data(q))[i] = Data(q)[i + 1]
  BY <1>2, <1>3, TakeFirst
<1> DEFINE p == Tail(q)
           t == Tail(Data(q))
<1>5. Data(p) \in Seq(S) /\ Len(Data(p)) = Len(p) /\ \A i \in 1..Len(p) : Data(p)[i] = p[i].data
  BY <1>1, DataType
<1>6. t \in Seq(S) /\ Len(t) = Len(p) /\ \A i \in 1..Len(p) : t[i] = Data(q)[i + 1] /\ p[i] = q[i + 1]
  BY <1>1, <1>2, <1>4
<1>7. Len(p) = Len(q) - 1
  BY <1>1
<1> HIDE DEF p, t
<1>8. ASSUME NEW i \in 1..Len(p) PROVE Data(p)[i] = t[i]
  <2>1. i + 1 \in 1..Len(q)
    BY <1>1, <1>7
  <2>2. QED
    BY <1>2, <1>5, <1>6, <2>1
<1>9. Data(p) = t
  BY <1>5, <1>6, <1>8, SeqEqual
<1>10. Head(Data(q)) = Head(q).data
  BY <1>1, <1>2, <1>4
<1>11. QED
  BY <1>3, <1>9, <1>10 DEF p, t

\* What the datagrams on the network hold is what the units of the chain are.
Sent == [to : {Proxy}, data : Packet]
Received == [from : {Proxy}, data : Packet]

LEMMA PacketTypes ==
    /\ Packet \subseteq Seq(ChainUnits)
    /\ Packet \subseteq Replies
    /\ Seq(Packet) \subseteq Seq(Seq(ChainUnits))
    /\ \A r \in Sent : r.data \in Packet
    /\ \A r \in Received : r.data \in Packet
<1>1. Packet \subseteq Seq(ChainUnits)
  BY DEF Packet
<1>2. ASSUME NEW d \in Packet PROVE d \in Replies
  <2>1. d \in Seq(ChainUnits) /\ Len(d) \in 0..BufSize
    BY DEF Packet
  <2>2. d \in [1..Len(d) -> ChainUnits]
    BY <2>1, LenProperties
  <2>3. d \in UNION {[1..n -> ChainUnits] : n \in 0..BufSize}
    BY <2>1, <2>2
  <2>4. QED
    BY <2>3, ChainAssumption
<1>3. Seq(Packet) \subseteq Seq(Seq(ChainUnits))
  BY <1>1, SeqMonotonic
<1>4. QED
  BY <1>1, <1>2, <1>3 DEF Sent, Received

-----------------------------------------------------------------------------
(* What the server proxy does for the network *)

\* The client's thread sends what it has read, and nothing else is sent.
LEMMA NearSends ==
    ASSUME Setting, NearEnd, Near
    PROVE  \/ UNCHANGED toUdp
           \/ Forward(Client) /\ Buffered \in Packet /\ toUdp' = Append(toUdp, Buffered)
<1>0. /\ TypeOK /\ OnePlace /\ ToSend
      /\ Client \in Conns /\ \A c \in Conns : c = Client
  BY TheOne DEF NearEnd, IInv
<1>1. CASE Forward(Client)
  <2>1. task[Client] = "send"
    BY <1>1 DEF Forward, SessionStep
  <2>2. Buffered \in Seq(Units) /\ Len(Buffered) = count[Client] /\ count[Client] # 0 /\ count[Client] \in 0..BufSize
    BY <1>0, <2>1 DEF ToSend, TypeOK, ThreadTypes
  <2>3. Units \subseteq ChainUnits
    BY DEF Units, ChainUnits
  <2>4. Buffered \in Seq(ChainUnits)
    BY <2>2, <2>3, SeqMonotonic
  <2>5. Len(Buffered) \in 1..BufSize
    BY <2>2, ServerProxyAssumption
  <2>6. Buffered = Prefix(tcpBuffer, count[Client])
    BY <2>1 DEF Buffered
  <2>7. QED
    BY <1>1, <2>4, <2>5, <2>6 DEF Forward, Packet
<1>2. ASSUME NEW c \in Conns, ClientSend(c) \/ ClientClose(c) PROVE UNCHANGED toUdp
  BY <1>2 DEF ClientSend, ClientClose, udpVars
<1>3. ASSUME NEW c \in Conns, SessionThread(c), ~Forward(Client) PROVE UNCHANGED toUdp
  BY <1>0, <1>3 DEF SessionThread, CheckCancelled, Read, ReadTimeout, ReadClosed, EraseBegins, EraseEnds
<1>4. CASE ~\E c \in Conns : ClientSend(c) \/ ClientClose(c) \/ SessionThread(c)
  <2>1. Rests(Client)
    BY <1>0, <1>4, NearIsNext, OtherStepsRest
  <2>2. QED
    BY <2>1 DEF Rests
<1>5. QED
  BY <1>1, <1>2, <1>3, <1>4

LEMMA NothingNear ==
    ASSUME Setting, NearEnd, Nothing, AtServerProxy(Near)
    PROVE  Nothing'
<1> USE DEF clientVars, udpVars, reactorVars, threadVars
<1>0. /\ TypeOK /\ OnePlace
      /\ Client \in Conns /\ \A c \in Conns : c = Client
      /\ task \in [Conns -> {"none", "check", "read", "send", "erase", "erasing", "done", "crashed"}]
      /\ Near /\ UNCHANGED <<cpIn, cpOut, Bound>>
  BY TheOne DEF NearEnd, IInv, TypeOK, ThreadTypes, AtServerProxy, cpOnlyVars, Bound
<1> SUFFICES ASSUME task'[Client] = "none"
             PROVE  task[Client] = "none" /\ UNCHANGED toUdp /\ fromUdp' = <<>> /\ reactor' # "iterate"
  BY <1>0 DEF Nothing
<1>1. ASSUME UNCHANGED <<task, toUdp, fromUdp>>, reactor' # "iterate" \/ reactor' = reactor
      PROVE  task[Client] = "none" /\ UNCHANGED toUdp /\ fromUdp' = <<>> /\ reactor' # "iterate"
  BY <1>1 DEF Nothing
<1>2. ASSUME NEW c \in Conns, NEW k \in Keys, Connect(c, k)
      PROVE  UNCHANGED <<task, toUdp, fromUdp, reactor>>
  BY <1>2 DEF Connect
<1>3. ASSUME NEW c \in Conns, ClientSend(c) \/ ClientClose(c)
      PROVE  UNCHANGED <<task, toUdp, fromUdp, reactor>>
  BY <1>3 DEF ClientSend, ClientClose
<1>4. CASE Accept \/ AcceptFails \/ Register
  BY <1>1, <1>4 DEF Accept, AcceptFails, Register
<1>5. ~Spawn
  BY <1>0 DEF Spawn, OnePlace
<1>6. CASE UdpInput \/ UdpInputEmpty \/ UdpInputBlocks
  <2>1. task[Client] = "none" /\ fromUdp # <<>>
    BY <1>6 DEF UdpInput, UdpInputEmpty, UdpInputBlocks, Receiving
  <2>2. QED
    BY <2>1 DEF Nothing
<1>7. CASE UdpInputFails
  BY <1>1, <1>7 DEF UdpInputFails
<1>8. ASSUME NEW k \in Keys, Broadcast(k) PROVE UNCHANGED <<task, toUdp, fromUdp, reactor>>
  BY <1>8 DEF Broadcast
<1>9. CASE BroadcastEnds \/ ReactorExits
  BY <1>1, <1>9 DEF BroadcastEnds, ReactorExits
<1>10. ASSUME NEW c \in Conns, SessionThread(c) PROVE FALSE
  <2>1. task'[c] # "none"
    BY <1>0, <1>10 DEF SessionThread, CheckCancelled, Read, ReadTimeout, ReadClosed, Forward, EraseBegins, EraseEnds, SessionStep
  <2>2. QED
    BY <1>0, <2>1
<1>11. CASE StopBegins \/ RemoveUdpHandler \/ CancelTask \/ JoinTask \/ EndLoop \/ CloseAcceptor
  BY <1>1, <1>11 DEF StopBegins, RemoveUdpHandler, CancelTask, JoinTask, EndLoop, CloseAcceptor, StopperStep
<1>12. ~Crash
  BY <1>0 DEF Crash
<1>13. QED
  BY <1>0, <1>1, <1>2, <1>3, <1>4, <1>5, <1>6, <1>7, <1>8, <1>9, <1>10, <1>11, <1>12 DEF Near, ReactorThread, StopperRuns

LEMMA NetworkNear ==
    ASSUME Setting, NearEnd, Network, AtServerProxy(Near)
    PROVE  Network'
<1>0. /\ Near /\ there' = (IF toUdp' = toUdp THEN there ELSE Append(there, 0))
      /\ UNCHANGED <<back, cpIn, cpOut>>
  BY DEF AtServerProxy, cpOnlyVars
<1>1. CASE UNCHANGED toUdp
  BY <1>0, <1>1 DEF Network
<1>2. CASE Buffered \in Packet /\ toUdp' = Append(toUdp, Buffered)
  <2>1. /\ toUdp \in Seq(Packet) /\ there \in Seq(Nat) /\ HasLast(there) /\ Len(toUdp) = Len(there)
    BY DEF Network
  <2>2. toUdp' \in Seq(Packet) /\ Len(toUdp') = Len(toUdp) + 1 /\ Len(toUdp) \in Nat
    BY <1>2, <2>1, AddLast
  <2>3. there' = Append(there, 0)
    BY <1>0, <2>2
  <2>4. there' \in Seq(Nat) /\ HasLast(there') /\ Len(there') = Len(there) + 1
    BY <2>1, <2>3, ArrivalsGrow
  <2>5. QED
    BY <1>0, <2>1, <2>2, <2>4 DEF Network
<1>3. QED
  BY <1>0, <1>1, <1>2, NearSends

-----------------------------------------------------------------------------
(* The client proxy *)

\* A datagram is written to the connection, if that is open, to a new one, or to none.
LEMMA FarForward ==
    ASSUME FarEnd, Network, CP!HandleDatagram
    PROVE  /\ cpIn # <<>> /\ Head(cpIn).data \in Packet /\ cpIn' = Tail(cpIn)
           /\ UNCHANGED <<cpOut, cpFromServer>>
           /\ \/ /\ Bound # None /\ UNCHANGED <<cpBindings, cpSender, cpLink>>
                 /\ cpToServer' = [cpToServer EXCEPT ![Bound] =
                        @ \o (IF cpLink[Bound] = "open" THEN Head(cpIn).data ELSE <<>>)]
              \/ /\ Bound = None /\ esListening
                 /\ \E l \in Links : /\ cpBindings' = [cpBindings EXCEPT ![Proxy] = l]
                                     /\ cpSender' = [cpSender EXCEPT ![l] = Proxy]
                                     /\ cpLink' = [cpLink EXCEPT ![l] = "open"]
                                     /\ cpToServer' = [cpToServer EXCEPT ![l] = @ \o Head(cpIn).data]
              \/ Bound = None /\ ~esListening /\ UNCHANGED <<cpBindings, cpSender, cpLink, cpToServer>>
<1> DEFINE d == Head(cpIn).data
<1>1. cpIn # <<>> /\ cpIn' = Tail(cpIn) /\ UNCHANGED cpOut /\ ~CP!ReadFails
  BY DEF CP!HandleDatagram, CP!ReadFails, CP!ForwardOnBinding, CP!ConnectAndForward, CP!ConnectFails, CP!TakeDatagram
<1>2. Head(cpIn) \in [from : {Proxy}, data : Packet]
  BY <1>1, TakeFirst DEF Network
<1>3. d \in Packet /\ Head(cpIn).from = Proxy
  BY <1>2
<1>4. d \in Seq(ChainUnits) /\ Len(d) \in Nat \ {0} /\ Len(d) <= BufSize /\ d # <<>>
  BY <1>3, ServerProxyAssumption DEF Packet
<1> HIDE DEF d
<1>5. SubSeq(d, 1, Len(d)) = d /\ SubSeq(d, 1, 0) = <<>>
  BY <1>4, SubSeqFull, SubSeqEmpty
<1>6. CP!Smaller(BufSize, Len(d)) = Len(d)
  BY <1>4, ServerProxyAssumption DEF CP!Smaller
<1>7. CP!Message = {[key |-> Proxy, data |-> d]}
  BY <1>3, <1>4, <1>5, <1>6 DEF CP!Message, CP!Datagram, CP!Prefix, d
<1>8. ASSUME NEW c, NEW up \in BOOLEAN, CP!WriteToServer(c, d, up)
      PROVE  cpToServer' = [cpToServer EXCEPT ![c] = @ \o (IF up THEN d ELSE <<>>)]
  BY <1>5, <1>8 DEF CP!WriteToServer, CP!Written, CP!Prefix
<1>9. CASE CP!ForwardOnBinding
  <2>1. Bound # None /\ CP!WriteToServer(Bound, d, cpLink[Bound] = "open") /\ UNCHANGED <<cpBindings, cpSender, cpLink, cpFromServer>>
    BY <1>7, <1>9 DEF CP!ForwardOnBinding, CP!bindingVars, Bound
  <2>2. (cpLink[Bound] = "open") \in BOOLEAN
    OBVIOUS
  <2>3. QED
    BY <1>1, <1>3, <1>8, <2>1, <2>2 DEF d
<1>10. ASSUME NEW l \in Links, CP!ConnectAndForward(l)
       PROVE  /\ Bound = None /\ esListening /\ UNCHANGED cpFromServer
              /\ cpBindings' = [cpBindings EXCEPT ![Proxy] = l]
              /\ cpSender' = [cpSender EXCEPT ![l] = Proxy]
              /\ cpLink' = [cpLink EXCEPT ![l] = "open"]
              /\ cpToServer' = [cpToServer EXCEPT ![l] = @ \o d]
  <2>1. PICK m \in CP!Message : CP!NoBinding(m.key) /\ CP!StoreBinding(m.key, l) /\ CP!WriteToServer(l, m.data, TRUE)
    BY <1>10 DEF CP!ConnectAndForward
  <2>2. m.key = Proxy /\ m.data = d
    BY <1>7, <2>1
  <2>3. esListening /\ cpLink' = [cpLink EXCEPT ![l] = "open"] /\ UNCHANGED cpFromServer
    BY <1>10 DEF CP!ConnectAndForward
  <2>4. /\ Bound = None
        /\ cpBindings' = [cpBindings EXCEPT ![Proxy] = l]
        /\ cpSender' = [cpSender EXCEPT ![l] = Proxy]
    BY <2>1, <2>2 DEF CP!NoBinding, CP!StoreBinding, Bound
  <2>5. CP!WriteToServer(l, d, TRUE)
    BY <2>1, <2>2 DEF CP!WriteToServer
  <2>6. QED
    BY <1>8, <2>3, <2>4, <2>5
<1>11. CASE CP!ConnectFails
  <2>1. CP!NoBinding(Proxy) /\ ~esListening /\ UNCHANGED <<cpBindings, cpSender, cpLink, cpToServer, cpFromServer>>
    BY <1>7, <1>11 DEF CP!ConnectFails, CP!bindingVars, CP!tcpVars
  <2>2. QED
    BY <1>1, <1>3, <2>1 DEF CP!NoBinding, Bound, d
<1>12. ASSUME NEW l \in Links, CP!ConnectAndForward(l)
       PROVE  /\ UNCHANGED cpFromServer
              /\ Bound = None /\ esListening
              /\ \E m \in Links : /\ cpBindings' = [cpBindings EXCEPT ![Proxy] = m]
                                  /\ cpSender' = [cpSender EXCEPT ![m] = Proxy]
                                  /\ cpLink' = [cpLink EXCEPT ![m] = "open"]
                                  /\ cpToServer' = [cpToServer EXCEPT ![m] = @ \o Head(cpIn).data]
  BY <1>10, <1>12 DEF d
<1>13. QED
  BY <1>1, <1>3, <1>9, <1>11, <1>12 DEF CP!HandleDatagram, d

\* What the server has written is sent to the server proxy.
LEMMA FarAnswer ==
    ASSUME FarEnd, NEW l \in Links, CP!ForwardAnswer(l)
    PROVE  /\ l = Bound /\ cpFromServer[l] # <<>>
           /\ UNCHANGED <<cpIn, cpBindings, cpSender, cpLink, cpToServer>>
           /\ \E n \in 1..Len(cpFromServer[l]) :
                /\ SubSeq(cpFromServer[l], 1, n) \in Packet
                /\ cpOut' = Append(cpOut, [to |-> Proxy, data |-> SubSeq(cpFromServer[l], 1, n)])
                /\ cpFromServer' = [cpFromServer EXCEPT ![l] = SubSeq(@, n + 1, Len(@))]
<1>1. cpFromServer[l] # <<>> /\ UNCHANGED <<cpIn, cpBindings, cpSender, cpLink, cpToServer>>
  BY DEF CP!ForwardAnswer, CP!bindingVars
<1>2. l = Bound /\ cpSender[l] = Proxy /\ Proxy # AnyZero
  BY <1>1, ChainAssumption DEF FarEnd, OneLink
<1> DEFINE s == cpFromServer[l]
<1>3. s \in Seq(ChainUnits) /\ Len(s) \in Nat \ {0}
  BY <1>1, EmptySeq, LenProperties DEF FarEnd, FarTypes
<1>4. PICK n \in Nat : n = CP!Smaller(BufSize, Len(s)) /\ n # 0 /\ n <= Len(s) /\ n <= BufSize
  BY <1>3, ServerProxyAssumption DEF CP!Smaller
<1>5. /\ cpOut' = Append(cpOut, [to |-> Proxy, data |-> SubSeq(s, 1, n)])
      /\ cpFromServer' = [cpFromServer EXCEPT ![l] = SubSeq(@, n + 1, Len(@))]
  BY <1>2, <1>4 DEF CP!ForwardAnswer, CP!Prefix
<1>6. n \in 1..Len(s) /\ n \in 0..Len(s)
  BY <1>3, <1>4
<1>7. SubSeq(s, 1, n) \in Seq(ChainUnits)
  BY <1>3, <1>6, PrefixType
<1>8. Len(SubSeq(s, 1, n)) = n
  <2>1. \A i \in 1..n : i \in 1..Len(s)
    BY <1>3, <1>4
  <2>2. \A i \in 1..n : s[i] \in ChainUnits
    BY <1>3, <2>1, ElementOfSeq
  <2>3. 1 \in Int /\ n \in Int /\ 1 <= n /\ n - 1 + 1 = n
    BY <1>4
  <2>4. Len(SubSeq(s, 1, n)) = IF 1 <= n THEN n - 1 + 1 ELSE 0
    BY <2>2, <2>3, SubSeqProperties
  <2> HIDE DEF s
  <2>5. QED
    BY <2>3, <2>4
<1>9. SubSeq(s, 1, n) \in Packet
  <2> HIDE DEF s
  <2>1. n \in 1..BufSize
    BY <1>4, ServerProxyAssumption
  <2>2. QED
    BY <1>7, <1>8, <2>1 DEF Packet
<1>10. QED
  BY <1>1, <1>2, <1>5, <1>6, <1>9

LEMMA FarSteps ==
    ASSUME Far
    PROVE  \/ CP!HandleDatagram
           \/ \E l \in Links : CP!ForwardAnswer(l)
           \/ UNCHANGED <<cpIn, cpOut, cpBindings, cpSender, cpLink, cpToServer, cpFromServer>>
<1>1. ASSUME NEW l \in Links, CP!ServerLeft(l)
      PROVE  UNCHANGED <<cpIn, cpOut, cpBindings, cpSender, cpLink, cpToServer, cpFromServer>>
  BY <1>1 DEF CP!ServerLeft, CP!udpVars, CP!tcpVars
<1>2. CASE CP!StopBegins \/ CP!RemoveUdpHandler \/ CP!ReactorExits
  BY <1>2 DEF CP!StopBegins, CP!RemoveUdpHandler, CP!ReactorExits, CP!EndLoop, CP!udpVars, CP!bindingVars, CP!tcpVars
<1>3. QED
  BY <1>1, <1>2 DEF Far, CP!ReactorThread

LEMMA FarEndFar ==
    ASSUME FarEnd, Network, AtClientProxy(Far)
    PROVE  FarEnd'
<1>0. /\ Far /\ UNCHANGED <<esListening, esTask, esTaken, esChunk>>
      /\ FarTypes /\ OneLink /\ EchoThreads
      /\ Proxy # AnyZero /\ \A l \in Links : l # None
  BY ChainAssumption DEF AtClientProxy, esVars, FarEnd
<1>a. /\ \A l \in Links : cpToServer[l] \in Seq(ChainUnits) /\ Len(cpToServer[l]) \in Nat
      /\ \A l \in Links : cpFromServer[l] \in Seq(ChainUnits) /\ esTaken[l] \in Nat
  BY <1>0, LenProperties DEF FarTypes
<1>b. ASSUME NEW l \in Links, NEW d \in Seq(ChainUnits), cpToServer' = [cpToServer EXCEPT ![l] = @ \o d]
      PROVE  /\ cpToServer' \in [Links -> Seq(ChainUnits)]
             /\ \A m \in Links : esTaken[m] <= Len(cpToServer'[m])
             /\ \A m \in Links : m # l => cpToServer'[m] = cpToServer[m]
  <2>1. cpToServer[l] \o d \in Seq(ChainUnits) /\ Len(cpToServer[l] \o d) = Len(cpToServer[l]) + Len(d) /\ Len(d) \in Nat
    BY <1>a, ConcatProperties, LenProperties
  <2>2. \A m \in Links : cpToServer'[m] = IF m = l THEN cpToServer[l] \o d ELSE cpToServer[m]
    BY <1>0, <1>b DEF FarTypes
  <2>3. cpToServer' \in [Links -> Seq(ChainUnits)]
    BY <1>0, <1>b, <2>1 DEF FarTypes
  <2>4. esTaken[l] <= Len(cpToServer[l] \o d)
    BY <1>0, <1>a, <2>1 DEF EchoThreads
  <2>5. QED
    BY <1>0, <2>2, <2>3, <2>4 DEF EchoThreads
<1>1. CASE CP!HandleDatagram
  <2> DEFINE d == Head(cpIn).data
  <2>1. d \in Seq(ChainUnits) /\ <<>> \in Seq(ChainUnits) /\ UNCHANGED cpFromServer
    BY <1>0, <1>1, FarForward, EmptySeq DEF Packet
  <2> HIDE DEF d
  <2>2. CASE /\ Bound # None /\ UNCHANGED <<cpBindings, cpSender, cpLink>>
             /\ cpToServer' = [cpToServer EXCEPT ![Bound] = @ \o (IF cpLink[Bound] = "open" THEN d ELSE <<>>)]
    <3>1. Bound \in Links
      BY <1>0, <2>2 DEF FarTypes, Bound
    <3>2. PICK x \in Seq(ChainUnits) : x = (IF cpLink[Bound] = "open" THEN d ELSE <<>>)
      BY <2>1
    <3>3. cpToServer' = [cpToServer EXCEPT ![Bound] = @ \o x]
      BY <2>2, <3>2
    <3>4. /\ cpToServer' \in [Links -> Seq(ChainUnits)]
          /\ \A m \in Links : esTaken[m] <= Len(cpToServer'[m])
          /\ \A m \in Links : m # Bound => cpToServer'[m] = cpToServer[m]
      BY <1>b, <3>1, <3>3
    <3>5. FarTypes'
      BY <1>0, <2>1, <2>2, <3>4 DEF FarTypes
    <3>6. OneLink'
      BY <1>0, <2>1, <2>2, <3>4 DEF OneLink, Bound
    <3>7. EchoThreads'
      BY <1>0, <3>4 DEF EchoThreads
    <3>8. QED
      BY <3>5, <3>6, <3>7 DEF FarEnd
  <2>3. ASSUME NEW l \in Links, Bound = None, cpBindings' = [cpBindings EXCEPT ![Proxy] = l],
               cpSender' = [cpSender EXCEPT ![l] = Proxy], cpLink' = [cpLink EXCEPT ![l] = "open"],
               cpToServer' = [cpToServer EXCEPT ![l] = @ \o d]
        PROVE  FarEnd'
    <3>1. /\ cpToServer' \in [Links -> Seq(ChainUnits)]
          /\ \A m \in Links : esTaken[m] <= Len(cpToServer'[m])
          /\ \A m \in Links : m # l => cpToServer'[m] = cpToServer[m]
      BY <1>b, <2>1, <2>3
    <3>2. /\ cpBindings' \in [{Proxy, AnyZero} -> Links \cup {None}]
          /\ cpSender' \in [Links -> {Proxy, AnyZero, None}]
          /\ cpLink' \in [Links -> {"unused", "open", "closed"}]
          /\ cpBindings'[AnyZero] = cpBindings[AnyZero] /\ cpBindings'[Proxy] = l
          /\ cpSender'[l] = Proxy /\ cpLink'[l] = "open"
          /\ \A m \in Links : m # l => cpLink'[m] = cpLink[m]
      BY <1>0, <2>3 DEF FarTypes
    <3>3. FarTypes'
      BY <1>0, <2>1, <3>1, <3>2 DEF FarTypes
    <3>4. OneLink'
      <4>1. Bound' = l
        BY <3>2 DEF Bound
      <4>2. \A m \in Links : m # Bound
        BY <1>0, <2>3
      <4>3. QED
        BY <1>0, <2>1, <3>1, <3>2, <4>1, <4>2 DEF OneLink
    <3>5. EchoThreads'
      BY <1>0, <3>1 DEF EchoThreads
    <3>6. QED
      BY <3>3, <3>4, <3>5 DEF FarEnd
  <2>4. CASE UNCHANGED <<cpBindings, cpSender, cpLink, cpToServer>>
    BY <1>0, <2>1, <2>4 DEF FarEnd, FarTypes, OneLink, EchoThreads, Bound
  <2>5. QED
    BY <1>1, <2>2, <2>3, <2>4, FarForward DEF d
<1>2. ASSUME NEW l \in Links, CP!ForwardAnswer(l) PROVE FarEnd'
  <2>1. l = Bound /\ UNCHANGED <<cpBindings, cpSender, cpLink, cpToServer>>
    BY <1>2, FarAnswer
  <2>2. PICK n \in 1..Len(cpFromServer[l]) : cpFromServer' = [cpFromServer EXCEPT ![l] = SubSeq(@, n + 1, Len(@))]
    BY <1>2, FarAnswer
  <2>3. n \in 0..Len(cpFromServer[l])
    BY <1>a, LenProperties
  <2>4. SubSeq(cpFromServer[l], n + 1, Len(cpFromServer[l])) \in Seq(ChainUnits)
    BY <1>a, <2>3, RestType
  <2>5. cpFromServer' \in [Links -> Seq(ChainUnits)] /\ \A m \in Links : m # l => cpFromServer'[m] = cpFromServer[m]
    BY <1>0, <2>2, <2>4 DEF FarTypes
  <2>6. FarTypes'
    BY <1>0, <2>1, <2>5 DEF FarTypes
  <2>7. OneLink'
    BY <1>0, <2>1, <2>5 DEF OneLink, Bound
  <2>8. EchoThreads'
    BY <1>0, <2>1 DEF EchoThreads
  <2>9. QED
    BY <2>6, <2>7, <2>8 DEF FarEnd
<1>3. CASE UNCHANGED <<cpIn, cpOut, cpBindings, cpSender, cpLink, cpToServer, cpFromServer>>
  BY <1>0, <1>3 DEF FarEnd, FarTypes, OneLink, EchoThreads, Bound
<1>4. QED
  BY <1>0, <1>1, <1>2, <1>3, FarSteps

LEMMA NetworkFar ==
    ASSUME FarEnd, Network, AtClientProxy(Far)
    PROVE  Network'
<1>0. /\ Far /\ UNCHANGED <<there, toUdp>>
      /\ back' = IF cpOut' = cpOut THEN back ELSE Append(back, 0)
  BY DEF AtClientProxy, vars, udpVars
<1>1. CASE CP!HandleDatagram
  <2>1. cpIn # <<>> /\ cpIn' = Tail(cpIn) /\ UNCHANGED cpOut
    BY <1>1, FarForward
  <2>2. cpIn' \in Seq([from : {Proxy}, data : Packet])
    BY <2>1, TakeFirst DEF Network
  <2>3. QED
    BY <1>0, <2>1, <2>2 DEF Network
<1>2. ASSUME NEW l \in Links, CP!ForwardAnswer(l) PROVE Network'
  <2>1. PICK n \in 1..Len(cpFromServer[l]) :
            /\ SubSeq(cpFromServer[l], 1, n) \in Packet
            /\ cpOut' = Append(cpOut, [to |-> Proxy, data |-> SubSeq(cpFromServer[l], 1, n)])
    BY <1>2, FarAnswer
  <2>2. PICK r \in [to : {Proxy}, data : Packet] : cpOut' = Append(cpOut, r)
    BY <2>1
  <2>3. cpOut' \in Seq([to : {Proxy}, data : Packet]) /\ Len(cpOut') = Len(cpOut) + 1 /\ Len(cpOut) \in Nat
    BY <2>2, AddLast DEF Network
  <2>4. back' = Append(back, 0)
    BY <1>0, <2>3
  <2>5. back' \in Seq(Nat) /\ HasLast(back') /\ Len(back') = Len(back) + 1
    BY <2>4, ArrivalsGrow DEF Network
  <2>6. UNCHANGED cpIn
    BY <1>2, FarAnswer
  <2>7. QED
    BY <1>0, <2>3, <2>5, <2>6 DEF Network
<1>3. CASE UNCHANGED <<cpIn, cpOut, cpBindings, cpSender, cpLink, cpToServer, cpFromServer>>
  BY <1>0, <1>3 DEF Network
<1>4. QED
  BY <1>0, <1>1, <1>2, <1>3, FarSteps

LEMMA NothingFar ==
    ASSUME FarEnd, Network, Nothing, AtClientProxy(Far)
    PROVE  Nothing'
<1>0. Far /\ UNCHANGED <<task, toUdp, fromUdp, reactor>>
  BY DEF AtClientProxy, vars, udpVars, threadVars, reactorVars
<1>1. CASE CP!HandleDatagram
  BY <1>0, <1>1, FarForward DEF Nothing
<1>2. ASSUME NEW l \in Links, CP!ForwardAnswer(l) PROVE Nothing'
  <2>1. l # None /\ l = Bound
    BY <1>2, ChainAssumption, FarAnswer
  <2>2. QED
    BY <1>0, <2>1 DEF Nothing
<1>3. CASE UNCHANGED <<cpIn, cpOut, cpBindings, cpSender, cpLink, cpToServer, cpFromServer>>
  BY <1>0, <1>3 DEF Nothing, Bound
<1>4. QED
  BY <1>0, <1>1, <1>2, <1>3, FarSteps

-----------------------------------------------------------------------------
(* The server *)

\* A thread reads up to its buffer's size.
LEMMA ServerReads ==
    ASSUME FarEnd, NEW l \in Links, ES!Read(l)
    PROVE  /\ esTask[l] = "read" /\ UNCHANGED <<linkVars, esListening>>
           /\ \/ UNCHANGED <<esTaken, esChunk>> /\ esTask' = [esTask EXCEPT ![l] = "check"]
              \/ UNCHANGED <<esTaken, esChunk>> /\ esTask' = [esTask EXCEPT ![l] = "close"]
              \/ /\ esTask' = [esTask EXCEPT ![l] = "write"]
                 /\ \E n \in 1 .. Len(cpToServer[l]) - esTaken[l] :
                      /\ esTaken' = [esTaken EXCEPT ![l] = @ + n]
                      /\ esChunk' = [esChunk EXCEPT ![l] = SubSeq(cpToServer[l], esTaken[l] + 1, esTaken[l] + n)]
<1>1. PICK r \in ES!Received(l) :
          /\ ES!TaskStep(l, "read", CASE ES!FromSize(r) = "Success" -> "write"
                                      [] ES!FromSize(r) = "Timeout" -> "check"
                                      [] OTHER -> "close")
          /\ IF ES!FromSize(r) = "Success"
             THEN /\ esChunk' = [esChunk EXCEPT ![l] = SubSeq(cpToServer[l], esTaken[l] + 1, esTaken[l] + r.size)]
                  /\ esTaken' = [esTaken EXCEPT ![l] = @ + r.size]
             ELSE UNCHANGED <<esChunk, esTaken>>
          /\ UNCHANGED <<cpLink, cpFromServer>>
  BY DEF ES!Read
<1>2. esTask[l] = "read" /\ UNCHANGED <<linkVars, esListening>>
  BY <1>1 DEF ES!TaskStep, linkVars
<1>3. CASE ES!FromSize(r) # "Success"
  BY <1>1, <1>2, <1>3 DEF ES!TaskStep
<1>4. CASE ES!FromSize(r) = "Success"
  <2>1. esTaken[l] \in Nat /\ Len(cpToServer[l]) \in Nat /\ esTaken[l] <= Len(cpToServer[l])
    BY LenProperties DEF FarEnd, FarTypes, EchoThreads
  <2>2. r.size > 0
    BY <1>4 DEF ES!FromSize
  <2>3. r = ES!Returned(IF EchoBufSize <= ES!Waiting(l) THEN EchoBufSize ELSE ES!Waiting(l)) /\ ES!Waiting(l) > 0
    BY <1>1, <2>2 DEF ES!Received, ES!Returned, ES!Failed
  <2>4. r.size \in 1 .. Len(cpToServer[l]) - esTaken[l]
    BY <2>1, <2>3, ChainAssumption DEF ES!Returned, ES!Waiting
  <2>5. QED
    BY <1>1, <1>2, <1>4, <2>4 DEF ES!TaskStep
<1>5. QED
  BY <1>3, <1>4

\* A thread writes its answer, as far as the connection takes it.
LEMMA ServerWrites ==
    ASSUME FarEnd, NEW l \in Links, ES!Write(l)
    PROVE  /\ esTask[l] = "write" /\ UNCHANGED <<cpLink, cpToServer, esTaken, esListening>>
           /\ \/ /\ esTask' = [esTask EXCEPT ![l] = "close"]
                 /\ UNCHANGED <<cpFromServer, esChunk>>
              \/ /\ cpLink[l] = "open"
                 /\ esTask' = [esTask EXCEPT ![l] = "check"]
                 /\ esChunk' = [esChunk EXCEPT ![l] = <<>>]
                 /\ \E n \in 0..Len(ES!EchoMessage(esChunk[l])) :
                      /\ cpFromServer' = [cpFromServer EXCEPT ![l] = @ \o SubSeq(ES!EchoMessage(esChunk[l]), 1, n)]
                      /\ n = Len(ES!EchoMessage(esChunk[l])) \/ "partial" \in EchoFaults
<1> DEFINE e == ES!EchoMessage(esChunk[l])
<1>1. PICK r \in ES!Sent(l, Len(e)) :
          /\ ES!TaskStep(l, "write", IF ES!FromSize(r) = "Success" THEN "check" ELSE "close")
          /\ IF ES!FromSize(r) = "Success"
             THEN /\ cpFromServer' = [cpFromServer EXCEPT ![l] = @ \o SubSeq(e, 1, r.size)]
                  /\ esChunk' = [esChunk EXCEPT ![l] = <<>>]
             ELSE UNCHANGED <<cpFromServer, esChunk>>
          /\ UNCHANGED <<cpLink, esTaken>>
  BY DEF ES!Write
<1>2. esTask[l] = "write" /\ UNCHANGED <<cpLink, cpToServer, esTaken, esListening>>
  BY <1>1 DEF ES!TaskStep
<1>3. CASE ES!FromSize(r) # "Success"
  BY <1>1, <1>2, <1>3 DEF ES!TaskStep
<1>4. CASE ES!FromSize(r) = "Success"
  <2>1. r.size > 0
    BY <1>4 DEF ES!FromSize
  <2>2. Len(e) \in Nat
    <3>1. esChunk[l] \in Seq(ChainUnits) /\ Opening \in ChainUnits /\ Closing \in ChainUnits
      BY DEF FarEnd, FarTypes, ChainUnits
    <3>2. <<Opening>> \o esChunk[l] \in Seq(ChainUnits) /\ <<Closing>> \in Seq(ChainUnits)
      BY <3>1, ConcatProperties
    <3>3. e \in Seq(ChainUnits)
      BY <3>2, ConcatProperties DEF ES!EchoMessage
    <3> HIDE DEF e
    <3>4. QED
      BY <3>3, LenProperties
  <2> HIDE DEF e
  <2>3. cpLink[l] = "open"
    BY <1>1, <2>1 DEF ES!Sent, ES!Failed
  <2>4. r.size = Len(e) \/ ("partial" \in EchoFaults /\ r.size \in 1..Len(e))
    BY <1>1, <2>1, <2>3 DEF ES!Sent, ES!Failed, ES!Returned
  <2>5. r.size \in 0..Len(e)
    BY <2>2, <2>4
  <2>6. QED
    BY <1>1, <1>2, <1>4, <2>3, <2>4, <2>5 DEF ES!TaskStep, e
<1>5. QED
  BY <1>3, <1>4

\* The other steps of the server leave the data where they are.
LEMMA ServerRests ==
    ASSUME FarEnd, Server
    PROVE  \/ \E l \in Links : ES!Read(l) \/ ES!Write(l) \/ ES!CloseSession(l)
           \/ /\ UNCHANGED <<cpToServer, cpFromServer, esTaken, esChunk>>
              /\ esListening' \in BOOLEAN /\ (esListening' => esListening)
              /\ \/ UNCHANGED cpLink
                 \/ cpLink' = [l \in Links |-> IF cpLink[l] = "open" /\ esTask[l] = "none" THEN "closed" ELSE cpLink[l]]
              /\ \/ UNCHANGED esTask
                 \/ \E l \in Links : /\ cpLink[l] # "unused"
                                     /\ esTask[l] \in {"none", "check"}
                                     /\ \E x \in {"check", "read", "close"} : esTask' = [esTask EXCEPT ![l] = x]
<1>0. FarTypes
  BY DEF FarEnd
<1>1. ASSUME NEW l \in Links, ES!Accept(l)
      PROVE  /\ UNCHANGED <<linkVars, esListening, esTaken, esChunk>>
             /\ cpLink[l] # "unused" /\ esTask[l] = "none" /\ esTask' = [esTask EXCEPT ![l] = "check"]
  BY <1>1 DEF ES!Accept, linkVars
<1>2. ASSUME NEW l \in Links, ES!CheckCancelled(l)
      PROVE  /\ UNCHANGED <<linkVars, esListening, esTaken, esChunk>>
             /\ cpLink[l] # "unused" /\ esTask[l] = "check" /\ \E x \in {"check", "read", "close"} : esTask' = [esTask EXCEPT ![l] = x]
  <2>1. esTask[l] = "check" /\ UNCHANGED <<linkVars, esListening, esTaken, esChunk>>
    BY <1>2 DEF ES!CheckCancelled, ES!TaskStep, linkVars
  <2>2. l = Bound /\ l # None
    BY <2>1, ChainAssumption DEF FarEnd, OneLink
  <2>3. cpLink[l] # "unused"
    BY <2>2 DEF FarEnd, OneLink
  <2>4. \E x \in {"check", "read", "close"} : esTask' = [esTask EXCEPT ![l] = x]
    BY <1>2 DEF ES!CheckCancelled, ES!TaskStep
  <2>5. QED
    BY <2>1, <2>3, <2>4
<1>3. CASE ES!CloseAcceptor
  BY <1>3 DEF ES!CloseAcceptor
<1>4. CASE ES!StopperRuns
  BY <1>0, <1>4 DEF ES!StopperRuns, ES!CancelTask, ES!JoinTask, ES!StopEnds, FarTypes
<1>5. QED
  BY <1>0, <1>1, <1>2, <1>3, <1>4 DEF Server, ES!TaskThread, FarTypes, linkVars

\* A thread that ends closes its connection, and with it the end of its answers may be lost.
LEMMA ServerCloses ==
    ASSUME FarEnd, NEW l \in Links, ES!CloseSession(l)
    PROVE  /\ l = Bound /\ esTask[l] = "close" /\ esTask' = [esTask EXCEPT ![l] = "done"]
           /\ UNCHANGED <<cpToServer, esTaken, esChunk, esListening>>
           /\ cpLink' = [cpLink EXCEPT ![l] = "closed"]
           /\ \E n \in 0..Len(cpFromServer[l]) : cpFromServer' = [cpFromServer EXCEPT ![l] = SubSeq(@, 1, n)]
<1>1. /\ esTask[l] = "close" /\ esTask' = [esTask EXCEPT ![l] = "done"]
      /\ UNCHANGED <<cpToServer, esTaken, esChunk, esListening>>
      /\ cpLink' = [cpLink EXCEPT ![l] = "closed"]
  BY DEF ES!CloseSession, ES!TaskStep
<1>2. l = Bound
  BY <1>1 DEF FarEnd, OneLink
<1>3. cpFromServer[l] \in Seq(ChainUnits) /\ Len(cpFromServer[l]) \in Nat /\ cpFromServer \in [Links -> Seq(ChainUnits)]
  BY LenProperties DEF FarEnd, FarTypes
<1>4. CASE UNCHANGED cpFromServer
  <2>1. SubSeq(cpFromServer[l], 1, Len(cpFromServer[l])) = cpFromServer[l]
    BY <1>3, SubSeqFull
  <2>2. cpFromServer' = [cpFromServer EXCEPT ![l] = SubSeq(@, 1, Len(cpFromServer[l]))]
    BY <1>3, <1>4, <2>1
  <2>3. Len(cpFromServer[l]) \in 0..Len(cpFromServer[l])
    BY <1>3
  <2>4. QED
    BY <1>1, <1>2, <2>2, <2>3
<1>5. CASE \E n \in 0..Len(cpFromServer[l]) : cpFromServer' = [cpFromServer EXCEPT ![l] = SubSeq(@, 1, n)]
  BY <1>1, <1>2, <1>5
<1>6. QED
  BY <1>4, <1>5 DEF ES!CloseSession

\* What a thread writes, as data.
LEMMA MessageType ==
    ASSUME NEW d \in Seq(ChainUnits)
    PROVE  ES!EchoMessage(d) \in Seq(ChainUnits)
<1>1. Opening \in ChainUnits /\ Closing \in ChainUnits
  BY DEF ChainUnits
<1>2. <<Opening>> \o d \in Seq(ChainUnits) /\ <<Closing>> \in Seq(ChainUnits)
  BY <1>1, ConcatProperties
<1>3. QED
  BY <1>2, ConcatProperties DEF ES!EchoMessage

LEMMA FarEndServer ==
    ASSUME FarEnd, AtServer(Server)
    PROVE  FarEnd'
<1>0. /\ Server /\ UNCHANGED <<cpBindings, cpSender, Bound>>
      /\ FarTypes /\ OneLink /\ EchoThreads
      /\ \A l \in Links : l # None
  BY ChainAssumption DEF AtServer, cpOnlyVars, FarEnd, Bound
<1>a. /\ \A l \in Links : cpToServer[l] \in Seq(ChainUnits) /\ Len(cpToServer[l]) \in Nat /\ esTaken[l] \in Nat
      /\ \A l \in Links : cpFromServer[l] \in Seq(ChainUnits) /\ Len(cpFromServer[l]) \in Nat /\ esChunk[l] \in Seq(ChainUnits)
      /\ esTask \in [Links -> {"none", "check", "read", "write", "close", "done"}]
  BY <1>0, LenProperties DEF FarTypes
<1>1. ASSUME NEW l \in Links, ES!Read(l) PROVE FarEnd'
  <2>1. esTask[l] = "read" /\ UNCHANGED <<cpLink, cpToServer, cpFromServer, esListening>>
    BY <1>1, ServerReads DEF linkVars
  <2>2. l = Bound
    BY <1>0, <2>1 DEF OneLink
  <2>3. ASSUME NEW x \in {"check", "close"}, UNCHANGED <<esTaken, esChunk>>, esTask' = [esTask EXCEPT ![l] = x] PROVE FarEnd'
    <3>1. FarTypes'
      BY <1>0, <2>1, <2>3 DEF FarTypes
    <3>2. OneLink'
      BY <1>0, <1>a, <2>1, <2>2, <2>3 DEF OneLink
    <3>3. EchoThreads'
      BY <1>0, <1>a, <2>1, <2>3 DEF EchoThreads
    <3>4. QED
      BY <3>1, <3>2, <3>3 DEF FarEnd
  <2>4. ASSUME NEW n \in 1 .. Len(cpToServer[l]) - esTaken[l], esTask' = [esTask EXCEPT ![l] = "write"],
               esTaken' = [esTaken EXCEPT ![l] = @ + n],
               esChunk' = [esChunk EXCEPT ![l] = SubSeq(cpToServer[l], esTaken[l] + 1, esTaken[l] + n)]
        PROVE  FarEnd'
    <3> DEFINE s == cpToServer[l]
               m == esTaken[l]
    <3>1. s \in Seq(ChainUnits) /\ Len(s) \in Nat /\ m \in Nat /\ n \in Nat \ {0} /\ m + n <= Len(s)
      BY <1>a
    <3> HIDE DEF s, m
    <3>2. \A i \in m + 1 .. m + n : s[i] \in ChainUnits
      <4>1. \A i \in m + 1 .. m + n : i \in 1..Len(s)
        BY <3>1
      <4>2. QED
        BY <3>1, <4>1, ElementOfSeq
    <3>3. m + 1 \in Int /\ m + n \in Int /\ m + 1 <= m + n /\ m + n - (m + 1) + 1 = n
      BY <3>1
    <3>4. SubSeq(s, m + 1, m + n) \in Seq(ChainUnits) /\ Len(SubSeq(s, m + 1, m + n)) = n
      <4>1. PICK p \in Int, q \in Int : p = m + 1 /\ q = m + n
        BY <3>3
      <4>2. /\ SubSeq(s, p, q) \in Seq(ChainUnits)
            /\ Len(SubSeq(s, p, q)) = IF p <= q THEN q - p + 1 ELSE 0
        BY <3>2, <4>1, SubSeqProperties
      <4>3. p <= q /\ q - p + 1 = n
        <5>1. m \in Nat /\ n \in Nat \ {0}
          BY <3>1
        <5> HIDE <3>1, <3>2
        <5>2. QED
          BY <4>1, <5>1
      <4>4. QED
        BY <4>1, <4>2, <4>3
    <3>5. SubSeq(s, m + 1, m + n) # <<>>
      BY <3>1, <3>4, EmptySeq
    <3>6. /\ esChunk' \in [Links -> Seq(ChainUnits)] /\ esChunk'[l] # <<>>
          /\ \A k \in Links : k # l => esChunk'[k] = esChunk[k]
      BY <1>0, <2>4, <3>4, <3>5 DEF FarTypes, s, m
    <3>7. /\ esTaken' \in [Links -> Nat] /\ esTaken'[l] <= Len(cpToServer[l])
          /\ \A k \in Links : k # l => esTaken'[k] = esTaken[k]
      <4>1. m + n \in Nat
        BY <3>1
      <4>2. esTaken' \in [Links -> Nat] /\ esTaken'[l] = m + n
        BY <1>0, <2>4, <4>1 DEF FarTypes, m
      <4>3. QED
        BY <1>0, <2>4, <3>1, <4>2 DEF FarTypes, s
    <3>8. esTask'[l] = "write" /\ \A k \in Links : k # l => esTask'[k] = esTask[k]
      BY <1>a, <2>4
    <3>9. FarTypes'
      BY <1>0, <2>1, <2>4, <3>6, <3>7 DEF FarTypes
    <3>10. OneLink'
      BY <1>0, <2>1, <2>2, <3>6, <3>7, <3>8 DEF OneLink
    <3>11. EchoThreads'
      BY <1>0, <2>1, <3>6, <3>7, <3>8 DEF EchoThreads
    <3>12. QED
      BY <3>9, <3>10, <3>11 DEF FarEnd
  <2>5. QED
    BY <1>1, <2>3, <2>4, ServerReads
<1>2. ASSUME NEW l \in Links, ES!Write(l) PROVE FarEnd'
  <2>1. esTask[l] = "write" /\ UNCHANGED <<cpLink, cpToServer, esTaken, esListening>>
    BY <1>2, ServerWrites
  <2>2. l = Bound
    BY <1>0, <2>1 DEF OneLink
  <2>3. CASE esTask' = [esTask EXCEPT ![l] = "close"] /\ UNCHANGED <<cpFromServer, esChunk>>
    <3>1. FarTypes'
      BY <1>0, <2>1, <2>3 DEF FarTypes
    <3>2. OneLink'
      BY <1>0, <1>a, <2>1, <2>2, <2>3 DEF OneLink
    <3>3. EchoThreads'
      BY <1>0, <1>a, <2>1, <2>3 DEF EchoThreads
    <3>4. QED
      BY <3>1, <3>2, <3>3 DEF FarEnd
  <2>4. ASSUME esTask' = [esTask EXCEPT ![l] = "check"], esChunk' = [esChunk EXCEPT ![l] = <<>>],
               NEW n \in 0..Len(ES!EchoMessage(esChunk[l])),
               cpFromServer' = [cpFromServer EXCEPT ![l] = @ \o SubSeq(ES!EchoMessage(esChunk[l]), 1, n)]
        PROVE  FarEnd'
    <3>1. SubSeq(ES!EchoMessage(esChunk[l]), 1, n) \in Seq(ChainUnits) /\ <<>> \in Seq(ChainUnits)
      BY <1>a, MessageType, PrefixType, EmptySeq
    <3>2. cpFromServer[l] \o SubSeq(ES!EchoMessage(esChunk[l]), 1, n) \in Seq(ChainUnits)
      BY <1>a, <3>1, ConcatProperties
    <3>3. /\ cpFromServer' \in [Links -> Seq(ChainUnits)] /\ esChunk' \in [Links -> Seq(ChainUnits)] /\ esChunk'[l] = <<>>
          /\ \A k \in Links : k # l => cpFromServer'[k] = cpFromServer[k] /\ esChunk'[k] = esChunk[k]
      BY <1>0, <2>4, <3>1, <3>2 DEF FarTypes
    <3>4. esTask'[l] = "check" /\ \A k \in Links : k # l => esTask'[k] = esTask[k]
      BY <1>a, <2>4
    <3>5. FarTypes'
      BY <1>0, <2>1, <2>4, <3>3 DEF FarTypes
    <3>6. OneLink'
      BY <1>0, <2>1, <2>2, <3>3, <3>4 DEF OneLink
    <3>7. EchoThreads'
      BY <1>0, <2>1, <3>3, <3>4 DEF EchoThreads
    <3>8. QED
      BY <3>5, <3>6, <3>7 DEF FarEnd
  <2>5. QED
    BY <1>2, <2>3, <2>4, ServerWrites
<1>3. ASSUME NEW l \in Links, ES!CloseSession(l) PROVE FarEnd'
  <2>1. /\ l = Bound /\ esTask' = [esTask EXCEPT ![l] = "done"]
        /\ UNCHANGED <<cpToServer, esTaken, esChunk, esListening>>
        /\ cpLink' = [cpLink EXCEPT ![l] = "closed"]
    BY <1>3, ServerCloses
  <2>2. PICK n \in 0..Len(cpFromServer[l]) : cpFromServer' = [cpFromServer EXCEPT ![l] = SubSeq(@, 1, n)]
    BY <1>3, ServerCloses
  <2>3. SubSeq(cpFromServer[l], 1, n) \in Seq(ChainUnits)
    BY <1>a, PrefixType
  <2>4. /\ cpFromServer' \in [Links -> Seq(ChainUnits)] /\ cpLink' \in [Links -> {"unused", "open", "closed"}]
        /\ cpLink'[l] = "closed" /\ \A k \in Links : k # l => cpFromServer'[k] = cpFromServer[k] /\ cpLink'[k] = cpLink[k]
    BY <1>0, <2>1, <2>2, <2>3 DEF FarTypes
  <2>5. esTask'[l] = "done" /\ \A k \in Links : k # l => esTask'[k] = esTask[k]
    BY <1>a, <2>1
  <2>6. FarTypes'
    BY <1>0, <2>1, <2>4 DEF FarTypes
  <2>7. OneLink'
    BY <1>0, <2>1, <2>4, <2>5 DEF OneLink
  <2>8. EchoThreads'
    BY <1>0, <2>1, <2>5 DEF EchoThreads
  <2>9. QED
    BY <2>6, <2>7, <2>8 DEF FarEnd
<1>4. CASE /\ UNCHANGED <<cpToServer, cpFromServer, esTaken, esChunk>>
           /\ esListening' \in BOOLEAN
           /\ \/ UNCHANGED cpLink
              \/ cpLink' = [l \in Links |-> IF cpLink[l] = "open" /\ esTask[l] = "none" THEN "closed" ELSE cpLink[l]]
           /\ \/ UNCHANGED esTask
              \/ \E l \in Links : /\ cpLink[l] # "unused"
                                  /\ esTask[l] \in {"none", "check"}
                                  /\ \E x \in {"check", "read", "close"} : esTask' = [esTask EXCEPT ![l] = x]
  <2>1. /\ cpLink' \in [Links -> {"unused", "open", "closed"}]
        /\ \A l \in Links : cpLink'[l] = "unused" <=> cpLink[l] = "unused"
    BY <1>0, <1>4 DEF FarTypes
  <2>2. /\ esTask' \in [Links -> {"none", "check", "read", "write", "close", "done"}]
        /\ \A l \in Links : l # Bound => esTask'[l] = esTask[l]
    <3>1. CASE UNCHANGED esTask
      BY <1>a, <3>1
    <3>2. ASSUME NEW l \in Links, cpLink[l] # "unused", NEW x \in {"check", "read", "close"}, esTask' = [esTask EXCEPT ![l] = x]
          PROVE  /\ esTask' \in [Links -> {"none", "check", "read", "write", "close", "done"}]
                 /\ \A k \in Links : k # Bound => esTask'[k] = esTask[k]
      <4>1. l = Bound
        BY <1>0, <3>2 DEF OneLink
      <4>2. QED
        BY <1>a, <3>2, <4>1
    <3>3. QED
      BY <1>4, <3>1, <3>2
  <2>3. \A l \in Links : esTask'[l] = esTask[l] \/ (esTask'[l] \in {"check", "read", "close"} /\ esTask[l] \in {"none", "check"})
    BY <1>4, <1>a
  <2>4. FarTypes'
    BY <1>0, <1>4, <2>1, <2>2 DEF FarTypes
  <2>5. OneLink'
    BY <1>0, <1>4, <2>1, <2>2 DEF OneLink, FarTypes
  <2>6. EchoThreads'
    BY <1>0, <1>4, <2>3 DEF EchoThreads
  <2>7. QED
    BY <2>4, <2>5, <2>6 DEF FarEnd
<1>5. QED
  BY <1>0, <1>1, <1>2, <1>3, <1>4, ServerRests

-----------------------------------------------------------------------------
(* The places hold data *)

LEMMA LinkChosen ==
    ASSUME FarEnd, Bound # None
    PROVE  /\ Bound \in Links /\ cpToServer[Bound] \in Seq(ChainUnits) /\ cpFromServer[Bound] \in Seq(ChainUnits)
           /\ esChunk[Bound] \in Seq(ChainUnits) /\ esTaken[Bound] \in 0..Len(cpToServer[Bound])
           /\ cpLink[Bound] \in {"open", "closed"}
<1>1. Bound \in Links
  BY DEF FarEnd, FarTypes, Bound
<1>2. /\ cpToServer[Bound] \in Seq(ChainUnits) /\ cpFromServer[Bound] \in Seq(ChainUnits)
      /\ esChunk[Bound] \in Seq(ChainUnits) /\ esTaken[Bound] \in Nat /\ Len(cpToServer[Bound]) \in Nat
  BY <1>1, LenProperties DEF FarEnd, FarTypes
<1>3. esTaken[Bound] <= Len(cpToServer[Bound]) /\ cpLink[Bound] # "unused"
  BY <1>1 DEF FarEnd, EchoThreads, OneLink
<1>4. cpLink[Bound] \in {"open", "closed"}
  BY <1>1, <1>3 DEF FarEnd, FarTypes
<1>5. QED
  BY <1>1, <1>2, <1>3, <1>4

LEMMA ServerPieces ==
    ASSUME FarEnd
    PROVE  Answers \in Seq(ChainUnits) /\ Unanswered \in Seq(ChainUnits)
<1>1. CASE Bound = None
  BY <1>1, EmptySeq DEF Answers, Unanswered
<1>2. CASE Bound # None
  <2>1. Unread(Bound) \in Seq(ChainUnits)
    BY <1>2, LinkChosen, RestType DEF Unread
  <2>2. esChunk[Bound] \o Unread(Bound) \in Seq(ChainUnits)
    BY <1>2, <2>1, LinkChosen, ConcatProperties
  <2>3. QED
    BY <1>2, <2>2, LinkChosen DEF Answers, Unanswered
<1>3. QED
  BY <1>1, <1>2

LEMMA ComingType ==
    ASSUME NEW arrivals \in Seq(Nat), HasLast(arrivals), NEW S, NEW s \in Seq(S), Len(s) = Len(arrivals)
    PROVE  Coming(arrivals, s) \in Seq(S)
<1>1. PICK p \in 0..Len(arrivals) : UpTo(arrivals, p)
  BY DEF HasLast
<1>2. LastOf(arrivals) = p
  BY <1>1, LastOfIs
<1>3. p \in 0..Len(s)
  OBVIOUS
<1>4. QED
  BY <1>2, <1>3, RestType DEF Coming

\* A queue of datagrams, as a stream.
LEMMA PacketsFlat ==
    ASSUME NEW q \in Seq(Packet)
    PROVE  FlattenSeq(q) \in Seq(ChainUnits)
BY PacketTypes, FlattenType

LEMMA NetworkPieces ==
    ASSUME Network
    PROVE  /\ Data(cpIn) \in Seq(Packet) /\ Data(cpOut) \in Seq(Packet) /\ Len(Data(cpOut)) = Len(back)
           /\ Coming(there, toUdp) \in Seq(Packet) /\ Coming(back, Data(cpOut)) \in Seq(Packet)
<1>1. cpIn \in Seq(Received) /\ cpOut \in Seq(Sent)
  BY DEF Network, Received, Sent
<1>2. Data(cpIn) \in Seq(Packet) /\ Data(cpOut) \in Seq(Packet) /\ Len(Data(cpOut)) = Len(cpOut)
  BY <1>1, PacketTypes, DataType
<1>3. QED
  BY <1>2, ComingType DEF Network

LEMMA HeldPieces ==
    ASSUME Setting, NearEnd
    PROVE  /\ Buffered \in Seq(ChainUnits) /\ inbox[Client] \in Seq(ChainUnits) /\ Held \in Seq(ChainUnits)
           /\ sentUnits[Client] \in Nat
<1>1. Units \subseteq ChainUnits
  BY DEF Units, ChainUnits
<1>2. Client \in Conns
  BY TheOne
<1>3. inbox[Client] \in Seq(Units) /\ sentUnits[Client] \in Nat
  BY <1>2, ServerProxyAssumption DEF NearEnd, IInv, TypeOK, ClientTypes
<1>4. Buffered \in Seq(Units)
  BY EmptySeq DEF NearEnd, ToSend, Buffered
<1>5. Buffered \in Seq(ChainUnits) /\ inbox[Client] \in Seq(ChainUnits)
  BY <1>1, <1>3, <1>4, SeqMonotonic
<1>6. QED
  BY <1>3, <1>5, ConcatProperties DEF Held

LEMMA ReplyPieces ==
    ASSUME Network, ReplyTypes
    PROVE  /\ Replying \in Seq(ChainUnits) /\ FlattenSeq(fromUdp) \in Seq(ChainUnits)
           /\ FlattenSeq(Coming(back, Data(cpOut))) \in Seq(ChainUnits)
           /\ Returning \in Seq(ChainUnits) /\ outbox[Client] \in Seq(ChainUnits)
           /\ reply \in Seq(ChainUnits)
<1>1. FlattenSeq(fromUdp) \in Seq(ChainUnits)
  BY PacketsFlat DEF ReplyTypes
<1>2. FlattenSeq(Coming(back, Data(cpOut))) \in Seq(ChainUnits)
  BY NetworkPieces, PacketsFlat
<1>3. reply \in Seq(ChainUnits)
  BY PacketTypes, EmptySeq DEF ReplyTypes
<1>4. Replying \in Seq(ChainUnits)
  BY <1>3, EmptySeq DEF Replying
<1>5. Replying \o FlattenSeq(fromUdp) \in Seq(ChainUnits)
  BY <1>1, <1>4, ConcatProperties
<1>6. Returning \in Seq(ChainUnits)
  BY <1>2, <1>5, ConcatProperties DEF Returning
<1>7. QED
  BY <1>1, <1>2, <1>3, <1>4, <1>6 DEF ReplyTypes

LEMMA GoingPieces ==
    ASSUME Network
    PROVE  /\ FlattenSeq(Data(cpIn)) \in Seq(ChainUnits) /\ FlattenSeq(Coming(there, toUdp)) \in Seq(ChainUnits)
           /\ Going \in Seq(ChainUnits)
<1>1. FlattenSeq(Data(cpIn)) \in Seq(ChainUnits) /\ FlattenSeq(Coming(there, toUdp)) \in Seq(ChainUnits)
  BY NetworkPieces, PacketsFlat
<1>2. QED
  BY <1>1, ConcatProperties DEF Going

LEMMA FlagTypes == E0 \in BOOLEAN /\ E1 \in BOOLEAN /\ E2 \in BOOLEAN /\ E3 \in BOOLEAN
BY DEF E0, E1, E2, E3

-----------------------------------------------------------------------------
(* The server proxy and what comes back *)

\* What comes back finds the client registered, as long as it stays.
LEMMA Registered ==
    ASSUME Setting, NearEnd, Nothing, ~Gone, Receiving \/ reactor = "iterate", fromUdp # <<>> \/ reactor = "iterate"
    PROVE  peer[Client] \in Keys /\ sessions[peer[Client]] = Client /\ link[Client] = "open"
<1>0. /\ Client \in Conns /\ \A c \in Conns : c = Client
      /\ OnePlace /\ ThreadsAreKept /\ Removed /\ OneIsCancelled /\ RaceNeedsALeaver /\ ForwardingIsRegistered
      /\ task \in [Conns -> {"none", "check", "read", "send", "erase", "erasing", "done", "crashed"}]
      /\ link \in [Conns -> {"idle", "open", "fin", "rst"}]
  BY TheOne DEF NearEnd, IInv, KeysInv, TypeOK, ClientTypes, ThreadTypes
<1>1. ~raced
  BY <1>0 DEF RaceNeedsALeaver, Gone, Left
<1>2. task[Client] # "none" /\ task[Client] # "crashed"
  BY <1>0, <1>1 DEF Nothing, ThreadsAreKept
<1>3. Client \notin cancelled
  <2>1. stopper \notin {"acceptor", "tasks", "join", "done"}
    BY <1>0 DEF Removed, Receiving, Dispatching
  <2>2. stopper # "crashed"
    BY <1>0, <1>1 DEF ThreadsAreKept
  <2>3. QED
    BY <1>0, <2>1, <2>2 DEF OneIsCancelled
<1>4. task[Client] \notin {"erasing", "done"}
  BY <1>0, <1>3 DEF OneIsCancelled, NearEnd, OwnKey, Gone
<1>5. task[Client] \in {"check", "read", "send", "erase"}
  BY <1>0, <1>2, <1>4
<1>6. link[Client] = "open"
  BY <1>0, <1>2 DEF OnePlace, Gone, Left
<1>7. QED
  BY <1>0, <1>1, <1>5, <1>6 DEF ForwardingIsRegistered

\* What the server proxy does with what has come back: it takes a datagram, and writes the
\* client what it has taken, or a part of it, or nothing.
LEMMA NearReplies ==
    ASSUME Setting, NearEnd, Nothing, Near
    PROVE  \/ UNCHANGED <<fromUdp, outbox, Replying>>
           \/ /\ fromUdp # <<>> /\ fromUdp' = Tail(fromUdp) /\ UNCHANGED outbox
              /\ Replying = <<>>
              /\ Replying' = Head(fromUdp) \/ (Replying' = <<>> /\ (Head(fromUdp) = <<>> \/ ~E1))
           \/ /\ UNCHANGED fromUdp
              /\ Replying = reply /\ Replying' = <<>> /\ link[Client] = "open"
              /\ \E n \in 0..Len(reply) : /\ outbox' = [outbox EXCEPT ![Client] = @ \o Prefix(reply, n)]
                                          /\ n = Len(reply) \/ ~E1
           \/ /\ UNCHANGED <<fromUdp, outbox>>
              /\ Replying' = <<>> /\ ~E1
<1> USE DEF clientVars, udpVars, reactorVars, threadVars
<1>0. /\ Client \in Conns /\ \A c \in Conns : c = Client
      /\ TypeOK /\ RaceNeedsALeaver /\ OwnKey
  BY TheOne DEF NearEnd, IInv
<1>a. raced => Gone
  BY <1>0 DEF RaceNeedsALeaver, Gone, Left
<1>b. /\ outbox \in [Conns -> Seq(ReplyUnits)] /\ todo \subseteq Keys /\ sessions \in [Keys -> Conns \cup {None}]
      /\ None \notin Conns
  BY <1>0, ServerProxyAssumption DEF TypeOK, ClientTypes, ReactorTypes
<1>c. Len(reply) \in Nat
  <2>1. reply \in Seq(ReplyUnits)
    BY <1>0, EmptySeq, ServerProxyAssumption DEF TypeOK, ReactorTypes
  <2>2. QED
    BY <2>1, LenProperties
<1>d. Gone => ~E1
  BY DEF E1
<1> DEFINE Quiet == UNCHANGED <<fromUdp, outbox, Replying>>
<1>1. ASSUME NEW c \in Conns, NEW k \in Keys, Connect(c, k) PROVE Quiet
  BY <1>1 DEF Connect, Replying
<1>2. ASSUME NEW c \in Conns, ClientSend(c) \/ ClientClose(c) PROVE Quiet
  BY <1>2 DEF ClientSend, ClientClose, Replying
<1>3. CASE Accept \/ AcceptFails \/ Register \/ Spawn
  BY <1>3 DEF Accept, AcceptFails, Register, Spawn, Replying, Dispatching
<1>4. ASSUME NEW c \in Conns, SessionThread(c) PROVE Quiet
  BY <1>4 DEF SessionThread, CheckCancelled, Read, ReadTimeout, ReadClosed, Forward, EraseBegins, EraseEnds, SessionStep, Replying
<1>5. CASE StopBegins \/ StopperRuns
  BY <1>5 DEF StopBegins, StopperRuns, RemoveUdpHandler, CloseAcceptor, CancelTask, JoinTask, EndLoop, StopperStep, Replying
<1>6. CASE UdpInputFails
  BY <1>6 DEF UdpInputFails, Receiving, Dispatching, Replying
<1>7. CASE ReactorExits
  BY <1>7 DEF ReactorExits, Replying
<1>8. CASE Crash
  BY <1>a, <1>d, <1>8 DEF Crash, Replying
<1>9. CASE BroadcastEnds
  BY <1>a, <1>d, <1>9 DEF BroadcastEnds, Replying
<1>10. CASE UdpInputEmpty
  BY <1>10 DEF UdpInputEmpty, Receiving, Dispatching, Replying
<1>11. CASE UdpInputBlocks
  <2>1. ~E1
    BY <1>11 DEF UdpInputBlocks, E1, E0, Clean
  <2>2. QED
    BY <1>11, <2>1 DEF UdpInputBlocks, Dispatching, Replying
<1>12. CASE UdpInput
  <2>1. /\ fromUdp # <<>> /\ fromUdp' = Tail(fromUdp) /\ UNCHANGED outbox /\ Replying = <<>>
        /\ reply' = Head(fromUdp) /\ reactor' = "iterate" /\ todo' = {k \in Keys : sessions[k] # None}
    BY <1>12 DEF UdpInput, Receiving, Dispatching, Replying
  <2>2. CASE todo' # {}
    BY <2>1, <2>2 DEF Replying
  <2>3. CASE todo' = {}
    <3>1. Gone
      BY <1>0, <1>b, <1>12, <2>1, <2>3, Registered DEF UdpInput
    <3>2. QED
      BY <1>d, <2>1, <2>3, <3>1 DEF Replying
  <2>4. QED
    BY <2>2, <2>3
<1>13. ASSUME NEW k \in Keys, Broadcast(k)
       PROVE  \/ /\ UNCHANGED fromUdp
                 /\ Replying = reply /\ Replying' = <<>> /\ link[Client] = "open"
                 /\ \E n \in 0..Len(reply) : /\ outbox' = [outbox EXCEPT ![Client] = @ \o Prefix(reply, n)]
                                             /\ n = Len(reply) \/ ~E1
              \/ /\ UNCHANGED <<fromUdp, outbox>>
                 /\ Replying' = <<>> /\ ~E1
  <2>1. /\ reactor = "iterate" /\ k \in todo /\ todo' = todo \ {k} /\ UNCHANGED <<fromUdp, reactor, reply>>
        /\ k = peer[Client]
    BY <1>0, <1>13 DEF Broadcast, OwnKey
  <2>2. todo' = {} /\ Replying = reply /\ Replying' = <<>>
    BY <1>0, <2>1 DEF OwnKey, Replying
  <2>3. CASE sessions[k] = None
    <3>1. Gone
      BY <1>0, <1>b, <2>1, <2>3, Registered
    <3>2. QED
      BY <1>d, <1>13, <2>1, <2>2, <2>3, <3>1 DEF Broadcast
  <2>4. CASE sessions[k] = Client /\ link[Client] = "open"
    <3>1. PICK n \in {Len(reply)} \cup (IF "partial" \in Faults THEN 0..Len(reply) ELSE {}) :
              outbox' = [outbox EXCEPT ![Client] = @ \o Prefix(reply, n)]
      BY <1>0, <1>b, <1>13, <2>4 DEF Broadcast
    <3>2. n \in 0..Len(reply)
      BY <1>c, <3>1
    <3>3. n = Len(reply) \/ ~E1
      BY <3>1 DEF E1, E0, Clean
    <3>4. QED
      BY <2>1, <2>2, <2>4, <3>1, <3>2, <3>3
  <2>5. CASE sessions[k] = Client /\ link[Client] # "open"
    <3>1. Gone
      BY <1>0, <2>1, <2>5, Registered
    <3>2. outbox' = [outbox EXCEPT ![Client] = @ \o Prefix(reply, 0)]
      BY <1>0, <1>b, <1>13, <2>5 DEF Broadcast
    <3>3. Prefix(reply, 0) = <<>>
      BY SubSeqEmpty DEF Prefix
    <3>4. outbox[Client] \o <<>> = outbox[Client]
      BY <1>0, <1>b, ConcatEmptySeq
    <3>5. UNCHANGED outbox
      BY <1>0, <1>b, <3>2, <3>3, <3>4
    <3>6. QED
      BY <1>d, <2>1, <2>2, <3>1, <3>5
  <2>6. QED
    BY <1>0, <1>b, <2>1, <2>3, <2>4, <2>5
<1>14. QED
  BY <1>0, <1>1, <1>2, <1>3, <1>4, <1>5, <1>6, <1>7, <1>8, <1>9, <1>10, <1>11, <1>12, <1>13 DEF Near, ReactorThread

LEMMA ReplyTypesNear ==
    ASSUME Setting, NearEnd, Nothing, ReplyTypes, Near
    PROVE  ReplyTypes'
<1>0. /\ Client \in Conns /\ outbox \in [Conns -> Seq(ReplyUnits)]
      /\ fromUdp \in Seq(Packet) /\ reply \in Packet \cup {<<>>} /\ outbox[Client] \in Seq(ChainUnits)
  BY TheOne DEF NearEnd, IInv, TypeOK, ClientTypes, ReplyTypes
<1>1. fromUdp' \in Seq(Packet)
  BY <1>0, TakeFirst, NearReplies
<1>2. outbox'[Client] \in Seq(ChainUnits)
  <2>1. ASSUME NEW n \in 0..Len(reply), outbox' = [outbox EXCEPT ![Client] = @ \o Prefix(reply, n)]
        PROVE  outbox'[Client] \in Seq(ChainUnits)
    <3>1. reply \in Seq(ChainUnits)
      BY <1>0, PacketTypes, EmptySeq
    <3>2. Prefix(reply, n) \in Seq(ChainUnits)
      BY <3>1, PrefixType DEF Prefix
    <3>3. QED
      BY <1>0, <2>1, <3>2, ConcatProperties
  <2>2. QED
    BY <1>0, <2>1, NearReplies
<1>3. reply' \in Packet \cup {<<>>}
  <2> USE DEF clientVars, udpVars, reactorVars, threadVars
  <2>1. ASSUME NEW c \in Conns, NEW k \in Keys, Connect(c, k) PROVE reply' = reply
    BY <2>1 DEF Connect
  <2>2. ASSUME NEW c \in Conns, ClientSend(c) \/ ClientClose(c) PROVE reply' = reply
    BY <2>2 DEF ClientSend, ClientClose
  <2>3. CASE UdpInput
    <3>1. reply' = Head(fromUdp) /\ fromUdp # <<>>
      BY <2>3 DEF UdpInput, Receiving
    <3>2. QED
      BY <1>0, <3>1, TakeFirst
  <2>4. CASE Accept \/ AcceptFails \/ Register \/ Spawn \/ UdpInputEmpty \/ UdpInputFails \/ UdpInputBlocks
    BY <1>0, <2>4 DEF Accept, AcceptFails, Register, Spawn, UdpInputEmpty, UdpInputFails, UdpInputBlocks
  <2>5. ASSUME NEW k \in Keys, Broadcast(k) PROVE reply' = reply
    BY <2>5 DEF Broadcast
  <2>6. CASE BroadcastEnds
    BY <2>6 DEF BroadcastEnds
  <2>7. CASE ReactorExits \/ Crash
    BY <1>0, <2>7 DEF ReactorExits, Crash
  <2>8. ASSUME NEW c \in Conns, SessionThread(c) PROVE reply' = reply
    BY <2>8 DEF SessionThread, CheckCancelled, Read, ReadTimeout, ReadClosed, Forward, EraseBegins, EraseEnds, SessionStep
  <2>9. CASE StopBegins \/ StopperRuns
    BY <1>0, <2>9 DEF StopBegins, StopperRuns, RemoveUdpHandler, CloseAcceptor, CancelTask, JoinTask, EndLoop, StopperStep
  <2>10. QED
    BY <1>0, <2>1, <2>2, <2>3, <2>4, <2>5, <2>6, <2>7, <2>8, <2>9 DEF Near, ReactorThread
<1>4. QED
  BY <1>1, <1>2, <1>3 DEF ReplyTypes

\* The first on the way is lost.
LEMMA DownLoseFirst ==
    ASSUME NEW o, NEW y \in Seq(ChainUnits), NEW z \in Seq(ChainUnits), NEW f,
           NEW b, NEW k, NEW e0, NEW e1 \in BOOLEAN, Down(o, y \o z, f, b, k, e0, e1)
    PROVE  Down(o, z, f, b, k, e0, e1 /\ y = <<>>)
<1>1. PICK x \in Seq(ChainUnits) : x = <<>>
  BY EmptySeq
<1>2. x \o y = y /\ x \o z = z
  BY <1>1, ConcatEmptySeq
<1>3. Down(o, (x \o y) \o z, f, b, k, e0, e1)
  BY <1>2
<1>4. Down(o, x \o z, f, b, k, e0, e1 /\ y = <<>>)
  BY <1>3, DownLose
<1>5. QED
  BY <1>2, <1>4

LEMMA UpLoseFirst ==
    ASSUME NEW w, NEW y \in Seq(ChainUnits), NEW z \in Seq(ChainUnits), NEW h,
           NEW a, NEW b, NEW e2, NEW e3 \in BOOLEAN, Up(w, y \o z, h, a, b, e2, e3)
    PROVE  Up(w, z, h, a, b, e2, e3 /\ y = <<>>)
<1>1. PICK x \in Seq(ChainUnits) : x = <<>>
  BY EmptySeq
<1>2. x \o y = y /\ x \o z = z
  BY <1>1, ConcatEmptySeq
<1>3. Up(w, (x \o y) \o z, h, a, b, e2, e3)
  BY <1>2
<1>4. Up(w, x \o z, h, a, b, e2, e3 /\ y = <<>>)
  BY <1>3, UpLose
<1>5. QED
  BY <1>2, <1>4

\* What is under way to the client, the first part in front.
WayBack ==
    /\ Replying \in Seq(ChainUnits) /\ FlattenSeq(fromUdp) \in Seq(ChainUnits)
    /\ FlattenSeq(Coming(back, Data(cpOut))) \in Seq(ChainUnits)
    /\ Returning = Replying \o (FlattenSeq(fromUdp) \o FlattenSeq(Coming(back, Data(cpOut))))

LEMMA InFront == Network /\ ReplyTypes => WayBack
<1> SUFFICES ASSUME Network, ReplyTypes PROVE WayBack
  OBVIOUS
<1>1. /\ Replying \in Seq(ChainUnits) /\ FlattenSeq(fromUdp) \in Seq(ChainUnits)
      /\ FlattenSeq(Coming(back, Data(cpOut))) \in Seq(ChainUnits)
  BY ReplyPieces
<1>2. QED
  BY <1>1, ConcatAssociative DEF Returning, WayBack

Associates(s, t, u) == (s \o t) \o u = s \o (t \o u)

LEMMA Rebracket == \A s, t, u \in Seq(ChainUnits) : Associates(s, t, u)
BY ConcatAssociative DEF Associates

LEMMA CutInTwo ==
    \A s \in Seq(ChainUnits) : \A n \in 0..Len(s) : \E x, y \in Seq(ChainUnits) :
        x = SubSeq(s, 1, n) /\ y = SubSeq(s, n + 1, Len(s)) /\ s = x \o y
<1> SUFFICES ASSUME NEW s \in Seq(ChainUnits), NEW n \in 0..Len(s)
             PROVE  \E x, y \in Seq(ChainUnits) : x = SubSeq(s, 1, n) /\ y = SubSeq(s, n + 1, Len(s)) /\ s = x \o y
  OBVIOUS
<1>1. /\ SubSeq(s, 1, n) \in Seq(ChainUnits) /\ SubSeq(s, n + 1, Len(s)) \in Seq(ChainUnits)
      /\ s = SubSeq(s, 1, n) \o SubSeq(s, n + 1, Len(s))
  BY CutAt
<1>2. QED
  BY <1>1, Zenon

\* The steps of the server proxy and the way back.
LEMMA DownNear ==
    ASSUME Setting, NearEnd, NearEnd', Nothing, Network, Network', ReplyTypes, ReplyTypes', AtServerProxy(Near),
           NEW b \in Nat, NEW k, DownTo(b, k), E0' => E0, E1' => E1
    PROVE  DownTo(b, k)'
<1>0. Near /\ UNCHANGED <<back, cpOut, Answers>>
  BY DEF AtServerProxy, cpOnlyVars, linkVars, Answers, Bound
<1>1. WayBack /\ WayBack'
  <2>1. WayBack'
    BY InFront, PTL
  <2>2. QED
    BY <2>1, InFront
<1>2. PICK c \in Seq(ChainUnits) : c = FlattenSeq(Coming(back, Data(cpOut))) /\ c = FlattenSeq(Coming(back, Data(cpOut)))'
  BY <1>0, <1>1 DEF WayBack
<1>3. PICK f \in Seq(ChainUnits), g \in Seq(ChainUnits), p \in Seq(ChainUnits), q \in Seq(ChainUnits) :
          f = FlattenSeq(fromUdp) /\ g = FlattenSeq(fromUdp)' /\ p = Replying /\ q = Replying'
  BY <1>1 DEF WayBack
<1>4. PICK o \in Seq(ChainUnits), s \in Seq(ChainUnits) : o = outbox[Client] /\ s = outbox'[Client]
  BY DEF ReplyTypes
<1>5. PICK z \in Seq(ChainUnits), y \in Seq(ChainUnits) : z = f \o c /\ y = g \o c
  BY ConcatProperties
<1>6. Returning = p \o z /\ Returning' = q \o y
  BY <1>1, <1>2, <1>3, <1>5 DEF WayBack
<1>7. PICK e0 \in BOOLEAN, e1 \in BOOLEAN : e0 = E0 /\ e1 = E1
  BY FlagTypes
<1>8. Down(o, p \o z, Answers, b, k, e0, e1)
  BY <1>4, <1>6, <1>7 DEF DownTo
<1>a. SUFFICES Down(s, q \o y, Answers, b, k, E0', E1')
  BY <1>0, <1>4, <1>6 DEF DownTo
<1>b. <<>> \o z = z /\ <<>> \o y = y
  BY ConcatEmptySeq
<1>9. CASE s = o /\ g = f /\ q = p
  BY <1>5, <1>7, <1>8, <1>9, DownWeaken
<1>10. CASE UNCHANGED <<fromUdp, outbox>> /\ q = <<>> /\ ~E1
  <2>1. s = o /\ q \o y = z
    BY <1>3, <1>4, <1>5, <1>b, <1>10
  <2>2. Down(o, z, Answers, b, k, e0, e1 /\ p = <<>>)
    BY <1>8, DownLoseFirst
  <2>3. E0' => e0
    BY <1>7
  <2>4. E1' => (e1 /\ p = <<>>)
    BY <1>10
  <2>5. QED
    BY <2>1, <2>2, <2>3, <2>4, DownWeaken
<1>11. ASSUME fromUdp # <<>>, fromUdp' = Tail(fromUdp), UNCHANGED outbox, p = <<>>,
              q = Head(fromUdp) \/ (q = <<>> /\ (Head(fromUdp) = <<>> \/ ~E1))
       PROVE  Down(s, q \o y, Answers, b, k, E0', E1')
  <2>1. fromUdp \in Seq(Seq(ChainUnits))
    BY PacketTypes DEF ReplyTypes
  <2>2. PICK d \in Seq(ChainUnits) : d = Head(fromUdp)
    BY <1>11, <2>1, TakeFirst
  <2>3. f = d \o g
    BY <1>3, <1>11, <2>1, <2>2, FlattenFirst
  <2>4. z = d \o y
    <3>1. Associates(d, g, c)
      BY Rebracket
    <3>2. QED
      BY <1>5, <2>3, <3>1 DEF Associates
  <2>5. s = o /\ p \o z = d \o y
    BY <1>4, <1>11, <1>b, <2>4
  <2>6. E0' => e0
    BY <1>7
  <2>7. CASE q = d
    <3>1. Down(s, q \o y, Answers, b, k, e0, e1)
      BY <1>8, <2>5, <2>7
    <3>2. QED
      BY <1>7, <3>1, DownWeaken
  <2>8. CASE q = <<>> /\ (d = <<>> \/ ~E1)
    <3>1. Down(o, d \o y, Answers, b, k, e0, e1)
      BY <1>8, <2>5
    <3>2. Down(o, y, Answers, b, k, e0, e1 /\ d = <<>>)
      BY <3>1, DownLoseFirst
    <3>3. E1' => (e1 /\ d = <<>>)
      BY <1>7, <2>8
    <3>4. q \o y = y
      BY <1>b, <2>8
    <3>5. QED
      BY <2>5, <2>6, <3>2, <3>3, <3>4, DownWeaken
  <2>9. QED
    BY <1>11, <2>2, <2>7, <2>8
<1>12. ASSUME UNCHANGED fromUdp, p = reply, q = <<>>, link[Client] = "open", NEW n \in 0..Len(reply),
              outbox' = [outbox EXCEPT ![Client] = @ \o Prefix(reply, n)], n = Len(reply) \/ ~E1
       PROVE  Down(s, q \o y, Answers, b, k, E0', E1')
  <2>1. n \in 0..Len(p)
    BY <1>12
  <2>2. PICK d \in Seq(ChainUnits), r \in Seq(ChainUnits) :
            d = SubSeq(p, 1, n) /\ r = SubSeq(p, n + 1, Len(p)) /\ p = d \o r
    BY <2>1, CutInTwo, Zenon
  <2>3. s = o \o d
    <3>1. Client \in Conns /\ outbox \in [Conns -> Seq(ReplyUnits)]
      BY TheOne DEF NearEnd, IInv, TypeOK, ClientTypes
    <3>2. QED
      BY <1>4, <1>12, <2>2, <3>1 DEF Prefix
  <2>4. n = Len(p) => r = <<>>
    <3>1. Len(p) \in Nat
      BY LenProperties
    <3>2. Len(p) + 1 \in Int /\ Len(p) \in Int /\ Len(p) < Len(p) + 1
      BY <3>1
    <3>3. SubSeq(p, Len(p) + 1, Len(p)) = <<>>
      BY <3>2, SubSeqEmpty
    <3>4. QED
      BY <2>2, <3>3
  <2>5. e1 = e0
    BY <1>7, <1>12 DEF E1, Gone, Left
  <2>6. PICK x \in Seq(ChainUnits) : x = r \o z
    BY ConcatProperties
  <2>7. p \o z = d \o x
    <3>1. Associates(d, r, z)
      BY Rebracket
    <3>2. QED
      BY <2>2, <2>6, <3>1 DEF Associates
  <2>8. Down(o, d \o x, Answers, b, k, e1, e1)
    BY <1>8, <2>5, <2>7
  <2>9. Down(o \o d, x, Answers, b, k, e1, e1)
    BY <2>8, DownOut
  <2>10. Down(s, r \o z, Answers, b, k, e0, e1)
    BY <2>3, <2>5, <2>6, <2>9
  <2>11. Down(s, z, Answers, b, k, e0, e1 /\ r = <<>>)
    BY <2>10, DownLoseFirst
  <2>12. q \o y = z
    BY <1>3, <1>5, <1>12, <1>b
  <2>13. E1' => (e1 /\ r = <<>>)
    BY <1>7, <1>12, <2>4
  <2>14. E0' => e0
    BY <1>7
  <2>15. QED
    BY <2>11, <2>12, <2>13, <2>14, DownWeaken
<1>13. QED
  <2>1. CASE UNCHANGED <<fromUdp, outbox, Replying>>
    BY <1>3, <1>4, <1>9, <2>1
  <2>2. CASE /\ fromUdp # <<>> /\ fromUdp' = Tail(fromUdp) /\ UNCHANGED outbox
             /\ Replying = <<>>
             /\ Replying' = Head(fromUdp) \/ (Replying' = <<>> /\ (Head(fromUdp) = <<>> \/ ~E1))
    BY <1>3, <1>11, <2>2
  <2>3. CASE /\ UNCHANGED fromUdp
             /\ Replying = reply /\ Replying' = <<>> /\ link[Client] = "open"
             /\ \E n \in 0..Len(reply) : /\ outbox' = [outbox EXCEPT ![Client] = @ \o Prefix(reply, n)]
                                         /\ n = Len(reply) \/ ~E1
    BY <1>3, <1>12, <2>3
  <2>4. CASE UNCHANGED <<fromUdp, outbox>> /\ Replying' = <<>> /\ ~E1
    BY <1>3, <1>10, <2>4
  <2>5. QED
    BY <1>0, <2>1, <2>2, <2>3, <2>4, NearReplies

-----------------------------------------------------------------------------
(* The server proxy and the client's data *)

\* What the server proxy and the client do with the client's data: the client writes a unit,
\* its thread sends what it has read, or some of them disappear.
LEMMA NearData ==
    ASSUME Setting, NearEnd, Near
    PROVE  \/ UNCHANGED <<toUdp, sentUnits, Held>>
           \/ /\ UNCHANGED toUdp
              /\ <<Client, sentUnits[Client] + 1>> \in ChainUnits
              /\ sentUnits'[Client] = sentUnits[Client] + 1
              /\ Held' = Held \o <<<<Client, sentUnits[Client] + 1>>>>
           \/ /\ UNCHANGED sentUnits
              /\ Buffered \in Packet /\ toUdp' = Append(toUdp, Buffered)
              /\ Held' \in Seq(ChainUnits) /\ Held = Buffered \o Held'
           \/ /\ UNCHANGED <<toUdp, sentUnits>>
              /\ \E x, y, z \in Seq(ChainUnits) : /\ Held = (x \o y) \o z /\ Held' = x \o z
                                                  /\ y = <<>> \/ ~E1'
<1>0. /\ Client \in Conns /\ \A c \in Conns : c = Client
      /\ TypeOK /\ OnePlace /\ RaceNeedsALeaver /\ ToSend
      /\ task \in [Conns -> {"none", "check", "read", "send", "erase", "erasing", "done", "crashed"}]
      /\ inbox \in [Conns -> Seq(Units)] /\ sentUnits \in [Conns -> 0..MaxUnits]
  BY TheOne DEF NearEnd, IInv, TypeOK, ClientTypes, ThreadTypes
<1>1. Buffered \in Seq(ChainUnits) /\ inbox[Client] \in Seq(ChainUnits) /\ sentUnits[Client] \in Nat
  BY HeldPieces
<1>2. /\ Units \subseteq ChainUnits /\ Seq(Units) \subseteq Seq(ChainUnits) /\ <<>> \in Seq(ChainUnits)
  <2>1. Units \subseteq ChainUnits
    BY DEF Units, ChainUnits
  <2>2. QED
    BY <2>1, SeqMonotonic, EmptySeq
<1>3. ASSUME NEW c \in Conns, ClientSend(c)
      PROVE  /\ UNCHANGED toUdp
             /\ <<Client, sentUnits[Client] + 1>> \in ChainUnits
             /\ sentUnits'[Client] = sentUnits[Client] + 1
             /\ Held' = Held \o <<<<Client, sentUnits[Client] + 1>>>>
  <2>1. c = Client /\ sentUnits[c] < MaxUnits
    BY <1>0, <1>3 DEF ClientSend
  <2>2. sentUnits[Client] + 1 \in 1..MaxUnits
    BY <1>1, <2>1, ServerProxyAssumption
  <2>3. PICK u \in Units : u = <<Client, sentUnits[Client] + 1>>
    BY <1>0, <2>2 DEF Units
  <2>4. /\ UNCHANGED <<toUdp, Buffered>> /\ sentUnits'[Client] = sentUnits[Client] + 1
        /\ inbox'[Client] = Append(inbox[Client], u)
    BY <1>0, <1>3, <2>1, <2>3 DEF ClientSend, udpVars, threadVars, Buffered, Prefix
  <2>5. u \in ChainUnits
    BY <1>2, <2>3
  <2>6. <<u>> \in Seq(ChainUnits) /\ Append(inbox[Client], u) = inbox[Client] \o <<u>>
    <3>1. PICK s \in Seq(ChainUnits) : s = inbox[Client]
      BY <1>1
    <3>2. Append(s, u) = s \o <<u>>
      BY <2>5, AppendIsConcat
    <3>3. <<u>> \in Seq(ChainUnits)
      BY <2>5
    <3>4. QED
      BY <3>1, <3>2, <3>3
  <2>7. Held' = Held \o <<u>>
    <3>1. Associates(Buffered, inbox[Client], <<u>>)
      BY <1>1, <2>6, Rebracket
    <3>2. QED
      BY <2>4, <2>6, <3>1 DEF Associates, Held
  <2>8. QED
    BY <2>3, <2>4, <2>5, <2>7
<1>4. ASSUME NEW c \in Conns, ClientClose(c)
      PROVE  /\ UNCHANGED <<toUdp, sentUnits>>
             /\ \E x, y, z \in Seq(ChainUnits) : Held = (x \o y) \o z /\ Held' = x \o z /\ (y = <<>> \/ ~E1')
  <2>1. c = Client
    BY <1>0
  <2>2. UNCHANGED <<toUdp, sentUnits, Buffered>>
    BY <1>4 DEF ClientClose, udpVars, threadVars, Buffered, Prefix
  <2>3. ~E1'
    <3>1. link \in [Conns -> {"idle", "open", "fin", "rst"}]
      BY <1>0 DEF TypeOK, ClientTypes
    <3>2. link'[Client] \in {"fin", "rst"}
      BY <1>4, <2>1, <3>1 DEF ClientClose
    <3>3. QED
      BY <3>2 DEF E1, Gone, Left
  <2>4. PICK s \in Seq(ChainUnits) : s = inbox[Client]
    BY <1>1
  <2>5. PICK n \in 0..Len(s) : inbox'[Client] = SubSeq(s, 1, n)
    <3>1. Len(s) \in 0..Len(s) /\ SubSeq(s, 1, Len(s)) = s
      BY LenProperties, SubSeqFull
    <3>2. CASE UNCHANGED inbox
      BY <2>4, <3>1, <3>2
    <3>3. CASE \E n \in 0..Len(inbox[c]) : inbox' = [inbox EXCEPT ![c] = Prefix(@, n)]
      BY <1>0, <2>1, <2>4, <3>3 DEF Prefix
    <3>4. QED
      BY <1>4, <3>2, <3>3 DEF ClientClose
  <2>6. PICK p \in Seq(ChainUnits), y \in Seq(ChainUnits) : p = SubSeq(s, 1, n) /\ s = p \o y
    BY CutInTwo
  <2>7. PICK x \in Seq(ChainUnits) : x = Buffered \o p
    BY <1>1, ConcatProperties
  <2>8. Held = x \o y
    <3>1. Associates(Buffered, p, y)
      BY <1>1, Rebracket
    <3>2. QED
      BY <2>4, <2>6, <2>7, <3>1 DEF Associates, Held
  <2>9. Held' = x
    BY <2>2, <2>5, <2>6, <2>7 DEF Held
  <2>10. Held = (x \o y) \o <<>> /\ Held' = x \o <<>>
    <3>1. x \o y \in Seq(ChainUnits)
      BY ConcatProperties
    <3>2. QED
      BY <2>8, <2>9, <3>1, ConcatEmptySeq
  <2>11. QED
    BY <1>2, <2>2, <2>3, <2>10
<1>5. ASSUME UNCHANGED <<toUdp, sentUnits, inbox>>, Buffered' = <<>>, ~E1'
      PROVE  \E x, y, z \in Seq(ChainUnits) : Held = (x \o y) \o z /\ Held' = x \o z /\ (y = <<>> \/ ~E1')
  <2>1. <<>> \o Buffered = Buffered
    BY <1>1, ConcatEmptySeq
  <2>2. Held = (<<>> \o Buffered) \o inbox[Client] /\ Held' = <<>> \o inbox[Client]
    BY <1>5, <2>1 DEF Held
  <2>3. QED
    BY <1>1, <1>2, <1>5, <2>2
<1>6. CASE Read(Client)
  <2>1. UNCHANGED <<toUdp, sentUnits>> /\ Buffered = <<>> /\ Buffered' = Prefix(tcpBuffer, count[Client])'
    BY <1>0, <1>6, ReadTakes DEF clientVars, Buffered
  <2>2. inbox[Client] = Buffered' \o inbox'[Client]
    BY <1>0, <1>6, <2>1, ReadTakes
  <2>3. Held = inbox[Client]
    BY <1>1, <2>1, ConcatEmptySeq DEF Held
  <2>4. QED
    BY <2>1, <2>2, <2>3 DEF Held
<1>7. CASE Forward(Client)
  <2>1. UNCHANGED <<sentUnits, inbox>> /\ Buffered' = <<>> /\ task[Client] = "send"
    BY <1>0, <1>7 DEF Forward, SessionStep, clientVars, Buffered
  <2>2. CASE UNCHANGED toUdp /\ "send" \in Faults
    <3>1. ~E1'
      BY <2>2 DEF E1, E0, Clean
    <3>2. QED
      BY <1>5, <2>1, <2>2, <3>1
  <2>3. CASE toUdp' = Append(toUdp, Prefix(tcpBuffer, count[Client]))
    <3>1. toUdp' = Append(toUdp, Buffered)
      BY <2>1, <2>3 DEF Buffered
    <3>2. Buffered \in Packet
      <4>1. Buffered \in Seq(Units) /\ Len(Buffered) = count[Client] /\ count[Client] # 0 /\ count[Client] \in 0..BufSize
        BY <1>0, <2>1 DEF ToSend, TypeOK, ThreadTypes
      <4>2. Len(Buffered) \in 1..BufSize
        BY <4>1, ServerProxyAssumption
      <4>3. QED
        BY <1>1, <4>2 DEF Packet
    <3>3. Held' = inbox[Client]
      BY <1>1, <2>1, ConcatEmptySeq DEF Held
    <3>4. QED
      BY <1>1, <2>1, <3>1, <3>2, <3>3 DEF Held
  <2>4. QED
    BY <1>7, <2>2, <2>3 DEF Forward
<1>8. ASSUME NEW c \in Conns, SessionThread(c), ~Read(c), ~Forward(c) PROVE UNCHANGED <<toUdp, sentUnits, Held>>
  <2>1. c = Client
    BY <1>0
  <2>2. UNCHANGED <<toUdp, sentUnits, inbox>> /\ task[c] # "send" /\ task'[c] # "send"
    BY <1>0, <1>8 DEF SessionThread, CheckCancelled, ReadTimeout, ReadClosed, EraseBegins, EraseEnds, SessionStep, clientVars
  <2>3. QED
    BY <2>1, <2>2 DEF Held, Buffered
<1>9. CASE ~\E c \in Conns : ClientSend(c) \/ ClientClose(c) \/ SessionThread(c)
  <2>1. UNCHANGED <<toUdp, inbox, sentUnits, tcpBuffer, count>>
    <3>1. Rests(Client)
      BY <1>0, <1>9, NearIsNext, OtherStepsRest
    <3>2. QED
      BY <3>1 DEF Rests
  <2>2. CASE Crash
    <3>1. Gone /\ UNCHANGED link
      BY <1>0, <2>2 DEF Crash, clientVars, RaceNeedsALeaver, Gone, Left
    <3>2. ~E1'
      BY <3>1 DEF E1, Gone, Left
    <3>3. Buffered' = <<>>
      BY <1>0, <2>2 DEF Crash, Buffered
    <3>4. QED
      BY <1>5, <2>1, <3>2, <3>3
  <2>3. CASE Spawn
    <3>1. current = Client /\ task[Client] # "send"
      BY <1>0, <2>3 DEF Spawn, OnePlace, Registering
    <3>2. task'[Client] # "send"
      BY <1>0, <2>3, <3>1 DEF Spawn
    <3>3. QED
      BY <2>1, <3>1, <3>2 DEF Held, Buffered
  <2>4. CASE UNCHANGED task
    BY <2>1, <2>4 DEF Held, Buffered, Prefix
  <2>5. UNCHANGED task \/ Crash \/ Spawn
    <3> USE DEF clientVars, udpVars, reactorVars, threadVars
    <3>1. ASSUME NEW c \in Conns, NEW k \in Keys, Connect(c, k) PROVE UNCHANGED task
      BY <3>1 DEF Connect
    <3>2. CASE Accept \/ AcceptFails \/ Register \/ UdpInput \/ UdpInputEmpty \/ UdpInputFails \/ UdpInputBlocks
      BY <3>2 DEF Accept, AcceptFails, Register, UdpInput, UdpInputEmpty, UdpInputFails, UdpInputBlocks
    <3>3. ASSUME NEW k \in Keys, Broadcast(k) PROVE UNCHANGED task
      BY <3>3 DEF Broadcast
    <3>4. CASE BroadcastEnds \/ ReactorExits
      BY <3>4 DEF BroadcastEnds, ReactorExits
    <3>5. CASE StopBegins \/ StopperRuns
      BY <3>5 DEF StopBegins, StopperRuns, RemoveUdpHandler, CloseAcceptor, CancelTask, JoinTask, EndLoop, StopperStep
    <3>6. QED
      BY <1>9, <3>1, <3>2, <3>3, <3>4, <3>5 DEF Near, ReactorThread
  <2>6. QED
    BY <2>2, <2>3, <2>4, <2>5
<1>10. QED
  <2>1. CASE \E c \in Conns : ClientSend(c)
    BY <1>3, <2>1
  <2>2. CASE \E c \in Conns : ClientClose(c)
    BY <1>4, <2>2
  <2>3. CASE \E c \in Conns : SessionThread(c)
    BY <1>0, <1>6, <1>7, <1>8, <2>3
  <2>4. QED
    BY <1>9, <2>1, <2>2, <2>3

\* A datagram that is sent comes behind what is on its way.
LEMMA GoingGrows ==
    ASSUME Network, NEW d \in Packet, toUdp' = Append(toUdp, d), there' = Append(there, 0), UNCHANGED cpIn
    PROVE  Going' = Going \o d
<1>1. there \in Seq(Nat) /\ HasLast(there) /\ Len(there) = Len(toUdp) /\ toUdp \in Seq(Packet)
  BY DEF Network
<1>2. Coming(there, toUdp)' = Coming(there, toUdp) \o <<d>>
  <2>1. Coming(Append(there, 0), Append(toUdp, d)) = Coming(there, toUdp) \o <<d>>
    BY <1>1, NetSends
  <2>2. QED
    BY <2>1
<1>3. PICK c \in Seq(Packet) : c = Coming(there, toUdp)
  BY NetworkPieces
<1>4. /\ Packet \subseteq Seq(ChainUnits) /\ c \in Seq(Seq(ChainUnits)) /\ <<d>> \in Seq(Seq(ChainUnits))
      /\ d \in Seq(ChainUnits)
  BY PacketTypes
<1>5. FlattenSeq(c \o <<d>>) = FlattenSeq(c) \o d
  <2>1. FlattenSeq(c \o <<d>>) = FlattenSeq(c) \o FlattenSeq(<<d>>)
    BY <1>4, FlattenConcat
  <2>2. QED
    BY <1>4, <2>1, FlattenOne
<1>6. FlattenSeq(Data(cpIn)) \in Seq(ChainUnits) /\ FlattenSeq(c) \in Seq(ChainUnits)
  BY <1>3, GoingPieces
<1>7. Associates(FlattenSeq(Data(cpIn)), FlattenSeq(c), d)
  BY <1>4, <1>6, Rebracket
<1>8. Going = FlattenSeq(Data(cpIn)) \o FlattenSeq(c)
  BY <1>3 DEF Going
<1>9. Going' = FlattenSeq(Data(cpIn)) \o (FlattenSeq(c) \o d)
  <2>1. Going' = FlattenSeq(Data(cpIn)) \o FlattenSeq(Coming(there, toUdp)')
    BY DEF Going, Data
  <2>2. QED
    BY <1>2, <1>3, <1>5, <2>1
<1>10. QED
  BY <1>7, <1>8, <1>9 DEF Associates

\* The steps of the server proxy and the way there.
LEMMA UpNear ==
    ASSUME Setting, NearEnd, Network, FarEnd, AtServerProxy(Near), NEW b \in Nat, UpFrom(b), E2' => E2, E3' => E3
    PROVE  UpFrom(b)'
<1>0. /\ Near /\ UNCHANGED <<cpIn, Unanswered>>
      /\ there' = IF toUdp' = toUdp THEN there ELSE Append(there, 0)
  BY DEF AtServerProxy, cpOnlyVars, linkVars, esVars, Unanswered, Unread, Bound
<1>1. Unanswered \in Seq(ChainUnits) /\ Going \in Seq(ChainUnits) /\ Held \in Seq(ChainUnits) /\ sentUnits[Client] \in Nat
  BY ServerPieces, GoingPieces, HeldPieces
<1>2. PICK w \in Seq(ChainUnits), g \in Seq(ChainUnits), h \in Seq(ChainUnits), n \in Nat :
          w = Unanswered /\ g = Going /\ h = Held /\ n = sentUnits[Client]
  BY <1>1
<1>3. PICK e2 \in BOOLEAN, e3 \in BOOLEAN : e2 = E2 /\ e3 = E3
  BY FlagTypes
<1>4. Up(w, g, h, b, n, e2, e3)
  BY <1>2, <1>3 DEF UpFrom
<1>5. (E2' => e2) /\ (E3' => e3)
  BY <1>3
<1>6. ASSUME UNCHANGED toUdp PROVE Going' = g
  BY <1>0, <1>2, <1>6 DEF Going, Data, Coming, LastOf, UpTo
<1>7. CASE UNCHANGED <<toUdp, sentUnits, Held>>
  <2>1. Up(w, g, h, b, n, E2', E3')
    BY <1>4, <1>5, UpWeaken
  <2>2. QED
    BY <1>0, <1>2, <1>6, <1>7, <2>1 DEF UpFrom
<1>8. CASE /\ UNCHANGED toUdp
           /\ <<Client, sentUnits[Client] + 1>> \in ChainUnits
           /\ sentUnits'[Client] = sentUnits[Client] + 1
           /\ Held' = Held \o <<<<Client, sentUnits[Client] + 1>>>>
  <2>1. Up(w, g, h \o <<<<Client, n + 1>>>>, b, n + 1, e2, e3)
    BY <1>2, <1>4, <1>8, UpGrow
  <2>2. Up(w, g, h \o <<<<Client, n + 1>>>>, b, n + 1, E2', E3')
    BY <1>5, <2>1, UpWeaken
  <2>3. QED
    BY <1>0, <1>2, <1>6, <1>8, <2>2 DEF UpFrom
<1>9. CASE /\ UNCHANGED sentUnits
           /\ Buffered \in Packet /\ toUdp' = Append(toUdp, Buffered)
           /\ Held' \in Seq(ChainUnits) /\ Held = Buffered \o Held'
  <2>1. PICK d \in Packet : d = Buffered
    BY <1>9
  <2>2. PICK y \in Seq(ChainUnits) : y = Held'
    BY <1>9
  <2>3. d \in Seq(ChainUnits) /\ h = d \o y
    BY <1>2, <1>9, <2>1, <2>2, PacketTypes
  <2>4. toUdp' # toUdp
    <3>1. toUdp \in Seq(Packet)
      BY DEF Network
    <3>2. Len(Append(toUdp, d)) = Len(toUdp) + 1 /\ Len(toUdp) \in Nat
      BY <3>1, AddLast
    <3>3. QED
      BY <1>9, <2>1, <3>2
  <2>5. Going' = g \o d
    BY <1>0, <1>2, <1>9, <2>1, <2>4, GoingGrows
  <2>6. Up(w, g, d \o y, b, n, e2, e3)
    BY <1>4, <2>3
  <2>7. Up(w, g \o d, y, b, n, e2, e3)
    BY <2>3, <2>6, UpSent
  <2>8. Up(w, g \o d, y, b, n, E2', E3')
    BY <1>5, <2>7, UpWeaken
  <2>9. QED
    BY <1>0, <1>2, <1>9, <2>2, <2>5, <2>8 DEF UpFrom
<1>10. CASE /\ UNCHANGED <<toUdp, sentUnits>>
            /\ \E x, y, z \in Seq(ChainUnits) : /\ Held = (x \o y) \o z /\ Held' = x \o z
                                                /\ y = <<>> \/ ~E1'
  <2>1. PICK x \in Seq(ChainUnits), y \in Seq(ChainUnits), z \in Seq(ChainUnits) :
            Held = (x \o y) \o z /\ Held' = x \o z /\ (y = <<>> \/ ~E1')
    BY <1>10
  <2>2. Up(w, g, (x \o y) \o z, b, n, e2, e3)
    BY <1>2, <1>4, <2>1
  <2>3. Up(w, g, x \o z, b, n, e2, e3 /\ y = <<>>)
    BY <2>2, UpForget
  <2>4. E3' => (e3 /\ y = <<>>)
    <3>1. E3' => E1'
      BY DEF E3, E2
    <3>2. QED
      BY <1>5, <2>1, <3>1
  <2>5. E2' => e2
    BY <1>5
  <2>6. Up(w, g, x \o z, b, n, E2', E3')
    BY <2>3, <2>4, <2>5, UpWeaken
  <2>7. QED
    BY <1>0, <1>2, <1>6, <1>10, <2>1, <2>6 DEF UpFrom
<1>11. QED
  BY <1>0, <1>7, <1>8, <1>9, <1>10, NearData

-----------------------------------------------------------------------------
(* The client proxy and the data *)

\* What is added to a stream of which a part has been taken.
LEMMA RestGrows ==
    ASSUME NEW s \in Seq(ChainUnits), NEW t \in Seq(ChainUnits), NEW n \in 0..Len(s)
    PROVE  SubSeq(s \o t, n + 1, Len(s \o t)) = SubSeq(s, n + 1, Len(s)) \o t
<1>1. /\ s \o t \in Seq(ChainUnits) /\ Len(s) \in Nat /\ Len(t) \in Nat /\ Len(s \o t) = Len(s) + Len(t)
      /\ \A i \in 1..Len(s) : (s \o t)[i] = s[i]
      /\ \A i \in 1..Len(t) : (s \o t)[Len(s) + i] = t[i]
  BY ConcatParts
<1>2. PICK x \in Seq(ChainUnits) : x = s \o t
  BY <1>1
<1>3. n \in 0..Len(x)
  BY <1>1, <1>2
<1>4. PICK r \in Seq(ChainUnits) : r = SubSeq(s, n + 1, Len(s))
  BY RestType
<1>5. PICK u \in Seq(ChainUnits) : u = SubSeq(x, n + 1, Len(x))
  BY <1>3, RestType
<1>6. Len(r) = Len(s) - n /\ \A i \in 1 .. Len(s) - n : n + i \in 1..Len(s) /\ r[i] = s[n + i]
  BY <1>4, RestElements
<1>7. Len(u) = Len(x) - n /\ \A i \in 1 .. Len(x) - n : u[i] = x[n + i]
  BY <1>3, <1>5, RestElements
<1>8. Len(u) = Len(r) + Len(t)
  BY <1>1, <1>2, <1>6, <1>7
<1>9. \A i \in 1..Len(r) : u[i] = r[i]
  <2> TAKE i \in 1..Len(r)
  <2>1. i \in 1 .. Len(s) - n /\ i \in 1 .. Len(x) - n
    BY <1>1, <1>2, <1>6
  <2>2. n + i \in 1..Len(s) /\ r[i] = s[n + i] /\ u[i] = x[n + i]
    BY <1>6, <1>7, <2>1
  <2>3. QED
    BY <1>1, <1>2, <2>2
<1>10. \A i \in 1..Len(t) : u[Len(r) + i] = t[i]
  <2> TAKE i \in 1..Len(t)
  <2>1. Len(r) + i \in 1 .. Len(x) - n /\ n + (Len(r) + i) = Len(s) + i
    BY <1>1, <1>2, <1>6
  <2>2. u[Len(r) + i] = x[Len(s) + i]
    BY <1>7, <2>1
  <2>3. QED
    BY <1>1, <1>2, <2>2
<1>11. u = r \o t
  BY <1>8, <1>9, <1>10, MadeOfTwo
<1>12. QED
  BY <1>2, <1>4, <1>5, <1>11

\* The client proxy takes the datagram that comes first.
LEMMA GoingShrinks ==
    ASSUME Network, Network', cpIn # <<>>, cpIn' = Tail(cpIn), UNCHANGED <<toUdp, there>>
    PROVE  Head(cpIn).data \in Seq(ChainUnits) /\ Going' \in Seq(ChainUnits) /\ Going = Head(cpIn).data \o Going'
<1>1. cpIn \in Seq(Received) /\ \A r \in Received : r.data \in Packet
  BY PacketTypes DEF Network, Received
<1>2. Data(cpIn) # <<>> /\ Head(Data(cpIn)) = Head(cpIn).data /\ Data(Tail(cpIn)) = Tail(Data(cpIn))
  BY <1>1, DataTail
<1>3. PICK q \in Seq(Packet) : q = Data(cpIn)
  BY NetworkPieces
<1>4. q \in Seq(Seq(ChainUnits)) /\ q # <<>>
  BY <1>2, <1>3, PacketTypes
<1>5. PICK d \in Seq(ChainUnits) : d = Head(q)
  BY <1>4, TakeFirst
<1>6. FlattenSeq(q) = d \o FlattenSeq(Tail(q))
  BY <1>4, <1>5, FlattenFirst
<1>7. PICK r \in Seq(ChainUnits) : r = FlattenSeq(Tail(q))
  <2>1. Tail(q) \in Seq(Packet)
    BY <1>2, <1>3, TakeFirst
  <2>2. QED
    BY <2>1, PacketsFlat
<1>8. PICK c \in Seq(ChainUnits) : c = FlattenSeq(Coming(there, toUdp))
  BY GoingPieces
<1>9. Going = (d \o r) \o c
  BY <1>3, <1>6, <1>7, <1>8 DEF Going
<1>10. Going' = r \o c
  <2>1. Going' = FlattenSeq(Data(Tail(cpIn))) \o c
    BY <1>8 DEF Going, Coming, LastOf, UpTo, Data
  <2>2. QED
    BY <1>2, <1>3, <1>7, <2>1
<1>11. Associates(d, r, c)
  BY Rebracket
<1>12. r \o c \in Seq(ChainUnits)
  BY ConcatProperties
<1>13. QED
  BY <1>2, <1>3, <1>5, <1>9, <1>10, <1>11, <1>12 DEF Associates

\* What it does with it: the server is given it, or it is lost.
LEMMA FarServes ==
    ASSUME FarEnd, FarEnd', Network, CP!HandleDatagram, UNCHANGED <<esListening, esTaken, esChunk>>
    PROVE  \/ Unanswered' = Unanswered \o Head(cpIn).data /\ E2 = E3
           \/ Unanswered' = Unanswered /\ ~E3'
<1>1. PICK d \in Seq(ChainUnits) : d = Head(cpIn).data
  BY FarForward, PacketTypes
<1>2. cpToServer \in [Links -> Seq(ChainUnits)] /\ Bound \in Links \cup {None} /\ None \notin Links
  BY ChainAssumption DEF FarEnd, FarTypes, Bound
<1>3. CASE /\ Bound # None /\ UNCHANGED <<cpBindings, cpSender, cpLink>>
           /\ cpToServer' = [cpToServer EXCEPT ![Bound] = @ \o (IF cpLink[Bound] = "open" THEN Head(cpIn).data ELSE <<>>)]
  <2>1. PICK l \in Links : l = Bound
    BY <1>2, <1>3
  <2>2. Bound' = l
    BY <1>3, <2>1 DEF Bound
  <2>3. PICK s \in Seq(ChainUnits), c \in Seq(ChainUnits) : s = cpToServer[l] /\ c = esChunk[l]
    BY <2>1, <1>3, LinkChosen
  <2>4. esTaken[l] \in 0..Len(s) /\ cpLink[l] \in {"open", "closed"}
    BY <1>3, <2>1, <2>3, LinkChosen
  <2>5. Unanswered = c \o SubSeq(s, esTaken[l] + 1, Len(s))
    BY <1>3, <2>1, <2>3 DEF Unanswered, Unread
  <2>6. CASE cpLink[l] = "open"
    <3>1. cpToServer'[l] = s \o d
      BY <1>1, <1>2, <1>3, <2>1, <2>3, <2>6
    <3>2. Unanswered' = c \o SubSeq(s \o d, esTaken[l] + 1, Len(s \o d))
      BY <1>2, <2>2, <2>3, <3>1 DEF Unanswered, Unread
    <3>3. PICK r \in Seq(ChainUnits) : r = SubSeq(s, esTaken[l] + 1, Len(s))
      BY <2>4, RestType
    <3>4. Unanswered' = c \o (r \o d)
      BY <2>4, <3>2, <3>3, RestGrows
    <3>5. Associates(c, r, d)
      BY Rebracket
    <3>6. Unanswered' = Unanswered \o d
      BY <2>5, <3>3, <3>4, <3>5 DEF Associates
    <3>7. E2 = E3
      BY <1>3 DEF E3, E2, E1, E0, Clean
    <3>8. QED
      BY <1>1, <3>6, <3>7
  <2>7. CASE cpLink[l] = "closed"
    <3>1. cpToServer'[l] = s
      <4>1. cpToServer'[l] = s \o <<>>
        BY <1>2, <1>3, <2>1, <2>3, <2>7
      <4>2. QED
        BY <4>1, ConcatEmptySeq
    <3>2. Unanswered' = Unanswered
      BY <1>2, <2>2, <2>3, <2>5, <3>1 DEF Unanswered, Unread
    <3>3. cpLink'[l] = "closed"
      BY <1>3, <2>7
    <3>4. ~E3'
      BY <1>2, <2>2, <3>3 DEF E3, E2
    <3>5. QED
      BY <3>2, <3>4
  <2>8. QED
    BY <2>4, <2>6, <2>7
<1>4. CASE /\ Bound = None /\ esListening
           /\ \E l \in Links : /\ cpBindings' = [cpBindings EXCEPT ![Proxy] = l]
                               /\ cpToServer' = [cpToServer EXCEPT ![l] = @ \o Head(cpIn).data]
  <2>1. PICK l \in Links : /\ cpBindings' = [cpBindings EXCEPT ![Proxy] = l]
                           /\ cpToServer' = [cpToServer EXCEPT ![l] = @ \o Head(cpIn).data]
    BY <1>4
  <2>2. Bound' = l
    BY <2>1 DEF FarEnd, FarTypes, Bound
  <2>3. esTaken[l] = 0 /\ cpToServer[l] = <<>> /\ esChunk[l] = <<>>
    BY <1>2, <1>4 DEF FarEnd, OneLink
  <2>4. cpToServer'[l] = d
    <3>1. cpToServer'[l] = <<>> \o d
      BY <1>1, <1>2, <2>1, <2>3
    <3>2. QED
      BY <3>1, ConcatEmptySeq
  <2>5. SubSeq(d, 0 + 1, Len(d)) = d
    BY SubSeqFull
  <2>6. Unanswered' = <<>> \o d
    BY <1>2, <2>2, <2>3, <2>4, <2>5 DEF Unanswered, Unread
  <2>7. Unanswered = <<>>
    BY <1>4 DEF Unanswered
  <2>8. E2 = E3
    BY <1>4 DEF E3, E2, E1, E0, Clean
  <2>9. QED
    BY <1>1, <2>6, <2>7, <2>8
<1>5. CASE Bound = None /\ ~esListening /\ UNCHANGED cpBindings
  <2>1. Bound' = None
    BY <1>5 DEF Bound
  <2>2. Unanswered = <<>> /\ Unanswered' = <<>>
    BY <1>5, <2>1 DEF Unanswered
  <2>3. ~E3'
    BY <1>5, <2>1 DEF E3
  <2>4. QED
    BY <2>2, <2>3
<1>6. QED
  <2>1. \/ /\ Bound # None /\ UNCHANGED <<cpBindings, cpSender, cpLink>>
           /\ cpToServer' = [cpToServer EXCEPT ![Bound] =
                  @ \o (IF cpLink[Bound] = "open" THEN Head(cpIn).data ELSE <<>>)]
        \/ /\ Bound = None /\ esListening
           /\ \E l \in Links : /\ cpBindings' = [cpBindings EXCEPT ![Proxy] = l]
                               /\ cpToServer' = [cpToServer EXCEPT ![l] = @ \o Head(cpIn).data]
        \/ Bound = None /\ ~esListening /\ UNCHANGED cpBindings
    BY FarForward
  <2>2. QED
    BY <1>3, <1>4, <1>5, <2>1

\* The steps of the client proxy and the way there.
LEMMA UpFar ==
    ASSUME FarEnd, FarEnd', Network, Network', AtClientProxy(Far), Held \in Seq(ChainUnits),
           NEW b \in Nat, UpFrom(b), E2' => E2, E3' => E3
    PROVE  UpFrom(b)'
<1>0. Far /\ UNCHANGED <<there, toUdp, Held, sentUnits, esListening, esTaken, esChunk>>
  BY DEF AtClientProxy, vars, clientVars, udpVars, reactorVars, threadVars, esVars, Held, Buffered, Prefix
<1>1. Unanswered \in Seq(ChainUnits) /\ Going \in Seq(ChainUnits)
  BY ServerPieces, GoingPieces
<1>2. PICK w \in Seq(ChainUnits), g \in Seq(ChainUnits), h \in Seq(ChainUnits), n \in {sentUnits[Client]} :
          w = Unanswered /\ g = Going /\ h = Held /\ n = sentUnits[Client]
  BY <1>1
<1>3. PICK e2 \in BOOLEAN, e3 \in BOOLEAN : e2 = E2 /\ e3 = E3
  BY FlagTypes
<1>4. Up(w, g, h, b, n, e2, e3)
  BY <1>2, <1>3 DEF UpFrom
<1>5. (E2' => e2) /\ (E3' => e3)
  BY <1>3
<1>a. h = Held' /\ n = sentUnits'[Client]
  BY <1>0, <1>2
<1>6. ASSUME UNCHANGED <<cpIn, cpBindings, cpToServer>> PROVE UpFrom(b)'
  <2>1. Unanswered' = w /\ Going' = g
    BY <1>0, <1>2, <1>6 DEF Unanswered, Unread, Bound, Going, Data, Coming, LastOf, UpTo
  <2>2. Up(w, g, h, b, n, E2', E3')
    BY <1>4, <1>5, UpWeaken
  <2>3. QED
    BY <1>a, <2>1, <2>2 DEF UpFrom
<1>7. ASSUME CP!HandleDatagram PROVE UpFrom(b)'
  <2>1. Head(cpIn).data \in Seq(ChainUnits) /\ Going' \in Seq(ChainUnits) /\ Going = Head(cpIn).data \o Going'
    BY <1>0, <1>7, FarForward, GoingShrinks
  <2>2. PICK d \in Seq(ChainUnits), y \in Seq(ChainUnits) : d = Head(cpIn).data /\ y = Going' /\ g = d \o y
    BY <1>2, <2>1
  <2>3. Up(w, d \o y, h, b, n, e2, e3)
    BY <1>4, <2>2
  <2>4. CASE Unanswered' = Unanswered \o Head(cpIn).data /\ E2 = E3
    <3>1. Up(w, d \o y, h, b, n, e2, e2)
      BY <1>3, <2>3, <2>4
    <3>2. Up(w \o d, y, h, b, n, e2, e2)
      BY <3>1, UpServed
    <3>3. E3' => e2
      BY <1>3, <2>4
    <3>4. E2' => e2
      BY <1>5
    <3>5. Up(w \o d, y, h, b, n, E2', E3')
      BY <3>2, <3>3, <3>4, UpWeaken
    <3>6. QED
      BY <1>2, <1>a, <2>2, <2>4, <3>5 DEF UpFrom
  <2>5. CASE Unanswered' = Unanswered /\ ~E3'
    <3>1. Up(w, y, h, b, n, e2, e3 /\ d = <<>>)
      BY <2>3, UpLoseFirst
    <3>2. E3' => (e3 /\ d = <<>>)
      BY <2>5
    <3>3. E2' => e2
      BY <1>5
    <3>4. Up(w, y, h, b, n, E2', E3')
      BY <3>1, <3>2, <3>3, UpWeaken
    <3>5. QED
      BY <1>2, <1>a, <2>2, <2>5, <3>4 DEF UpFrom
  <2>6. QED
    BY <1>0, <1>7, <2>4, <2>5, FarServes
<1>8. ASSUME NEW l \in Links, CP!ForwardAnswer(l) PROVE UpFrom(b)'
  BY <1>6, <1>8, FarAnswer
<1>9. QED
  BY <1>0, <1>6, <1>7, <1>8, FarSteps

\* A datagram that the client proxy sends comes behind what is on its way back.
LEMMA ReturningGrows ==
    ASSUME Network, ReplyTypes, NEW d \in Packet, cpOut' = Append(cpOut, [to |-> Proxy, data |-> d]), back' = Append(back, 0),
           UNCHANGED <<Replying, fromUdp>>
    PROVE  Returning' = Returning \o d
<1>1. cpOut \in Seq(Sent) /\ [to |-> Proxy, data |-> d] \in Sent /\ \A r \in Sent : r.data \in Packet
  BY PacketTypes DEF Network, Sent
<1>2. PICK q \in Seq(Packet) : q = Data(cpOut)
  BY NetworkPieces
<1>3. Data(cpOut)' = Append(q, d)
  <2>1. PICK r \in Sent : r = [to |-> Proxy, data |-> d]
    BY <1>1
  <2>2. Data(Append(cpOut, r)) = Append(Data(cpOut), r.data)
    BY <1>1, DataAppend
  <2>3. Data(cpOut)' = Data(Append(cpOut, r))
    BY <2>1 DEF Data
  <2>4. QED
    BY <1>2, <2>1, <2>2, <2>3
<1>4. back \in Seq(Nat) /\ HasLast(back) /\ Len(q) = Len(back)
  BY <1>2, NetworkPieces DEF Network
<1>5. Coming(Append(back, 0), Append(q, d)) = Coming(back, q) \o <<d>>
  BY <1>4, NetSends
<1>6. PICK c \in Seq(Packet) : c = Coming(back, q)
  BY <1>2, NetworkPieces
<1>7. /\ c \in Seq(Seq(ChainUnits)) /\ <<d>> \in Seq(Seq(ChainUnits))
      /\ d \in Seq(ChainUnits)
  BY PacketTypes
<1>8. FlattenSeq(c \o <<d>>) = FlattenSeq(c) \o d
  <2>1. FlattenSeq(c \o <<d>>) = FlattenSeq(c) \o FlattenSeq(<<d>>)
    BY <1>7, FlattenConcat
  <2>2. QED
    BY <1>7, <2>1, FlattenOne
<1>9. PICK p \in Seq(ChainUnits), f \in Seq(ChainUnits), x \in Seq(ChainUnits) :
          p = Replying /\ f = FlattenSeq(fromUdp) /\ x = FlattenSeq(c)
  BY <1>2, <1>6, ReplyPieces
<1>10. p \o f \in Seq(ChainUnits)
  BY ConcatProperties
<1>11. Associates(p \o f, x, d)
  BY <1>7, <1>10, Rebracket
<1>12. Returning = (p \o f) \o x
  BY <1>2, <1>6, <1>9 DEF Returning
<1>13. Returning' = (p \o f) \o (x \o d)
  <2>1. Returning' = (p \o f) \o FlattenSeq(Coming(Append(back, 0), Append(q, d)))
    BY <1>3, <1>9 DEF Returning
  <2>2. QED
    BY <1>5, <1>6, <1>8, <1>9, <2>1
<1>14. QED
  BY <1>11, <1>12, <1>13 DEF Associates

\* The steps of the client proxy and the way back.
LEMMA DownFar ==
    ASSUME FarEnd, Network, ReplyTypes, AtClientProxy(Far),
           NEW b \in Nat, NEW k, DownTo(b, k), E0' => E0, E1' => E1
    PROVE  DownTo(b, k)'
<1>0. /\ Far /\ UNCHANGED <<outbox, Replying, fromUdp>>
      /\ back' = IF cpOut' = cpOut THEN back ELSE Append(back, 0)
  BY DEF AtClientProxy, vars, udpVars, reactorVars, Replying
<1>1. PICK o \in Seq(ChainUnits), r \in Seq(ChainUnits), f \in Seq(ChainUnits) :
          o = outbox[Client] /\ r = Returning /\ f = Answers
  BY ServerPieces, ReplyPieces
<1>2. PICK e0 \in BOOLEAN, e1 \in BOOLEAN : e0 = E0 /\ e1 = E1
  BY FlagTypes
<1>3. Down(o, r, f, b, k, e0, e1)
  BY <1>1, <1>2 DEF DownTo
<1>4. (E0' => e0) /\ (E1' => e1)
  BY <1>2
<1>5. o = outbox'[Client]
  BY <1>0, <1>1
<1>6. ASSUME UNCHANGED <<cpOut, Answers>> PROVE DownTo(b, k)'
  <2>1. Returning' = r /\ Answers' = f
    BY <1>0, <1>1, <1>6 DEF Returning, Data, Coming, LastOf, UpTo
  <2>2. Down(o, r, f, b, k, E0', E1')
    BY <1>3, <1>4, DownWeaken
  <2>3. QED
    BY <1>5, <2>1, <2>2 DEF DownTo
<1>7. ASSUME CP!HandleDatagram PROVE UNCHANGED <<cpOut, Answers>>
  <2>1. UNCHANGED <<cpOut, cpFromServer>>
    BY <1>7, FarForward
  <2>2. CASE UNCHANGED cpBindings
    BY <2>1, <2>2 DEF Answers, Bound
  <2>3. CASE Bound = None /\ \E l \in Links : cpBindings' = [cpBindings EXCEPT ![Proxy] = l]
    <3>1. PICK l \in Links : cpBindings' = [cpBindings EXCEPT ![Proxy] = l]
      BY <2>3
    <3>2. Bound' = l
      BY <3>1 DEF FarEnd, FarTypes, Bound
    <3>3. l # None /\ cpFromServer[l] = <<>>
      BY <2>3, ChainAssumption DEF FarEnd, OneLink
    <3>4. QED
      BY <2>1, <2>3, <3>2, <3>3 DEF Answers
  <2>4. QED
    <3>1. UNCHANGED cpBindings \/ (Bound = None /\ \E l \in Links : cpBindings' = [cpBindings EXCEPT ![Proxy] = l])
      BY <1>7, FarForward
    <3>2. QED
      BY <2>2, <2>3, <3>1
<1>8. ASSUME NEW l \in Links, CP!ForwardAnswer(l) PROVE DownTo(b, k)'
  <2>1. l = Bound /\ UNCHANGED cpBindings
    BY <1>8, FarAnswer
  <2>2. PICK n \in 1..Len(cpFromServer[l]) :
            /\ SubSeq(cpFromServer[l], 1, n) \in Packet
            /\ cpOut' = Append(cpOut, [to |-> Proxy, data |-> SubSeq(cpFromServer[l], 1, n)])
            /\ cpFromServer' = [cpFromServer EXCEPT ![l] = SubSeq(@, n + 1, Len(@))]
    BY <1>8, FarAnswer
  <2>3. Bound # None /\ Bound' = l
    BY <2>1, ChainAssumption DEF Bound
  <2>4. f = cpFromServer[l]
    BY <1>1, <2>1, <2>3 DEF Answers
  <2>5. n \in 0..Len(f)
    <3>1. Len(f) \in Nat
      BY LenProperties
    <3>2. QED
      BY <2>4, <3>1
  <2>6. PICK d \in Seq(ChainUnits), y \in Seq(ChainUnits) :
            d = SubSeq(f, 1, n) /\ y = SubSeq(f, n + 1, Len(f)) /\ f = d \o y
    BY <2>5, CutInTwo, Zenon
  <2>7. Answers' = y
    <3>1. cpFromServer \in [Links -> Seq(ChainUnits)]
      BY DEF FarEnd, FarTypes
    <3>2. QED
      BY <2>2, <2>3, <2>1, <2>4, <2>6, <3>1 DEF Answers
  <2>8. d \in Packet /\ cpOut' = Append(cpOut, [to |-> Proxy, data |-> d])
    BY <2>2, <2>4, <2>6
  <2>9. cpOut' # cpOut
    <3>1. cpOut \in Seq(Sent) /\ [to |-> Proxy, data |-> d] \in Sent
      BY <2>8 DEF Network, Sent
    <3>2. Len(Append(cpOut, [to |-> Proxy, data |-> d])) = Len(cpOut) + 1 /\ Len(cpOut) \in Nat
      BY <3>1, AddLast
    <3>3. QED
      BY <2>8, <3>2
  <2>10. Returning' = r \o d
    BY <1>0, <1>1, <2>8, <2>9, ReturningGrows
  <2>11. Down(o, r, d \o y, b, k, e0, e1)
    BY <1>3, <2>6
  <2>12. Down(o, r \o d, y, b, k, e0, e1)
    BY <2>11, DownBack
  <2>13. Down(o, r \o d, y, b, k, E0', E1')
    BY <1>4, <2>12, DownWeaken
  <2>14. QED
    BY <1>5, <2>7, <2>10, <2>13 DEF DownTo
<1>9. ASSUME UNCHANGED <<cpOut, cpBindings, cpFromServer>> PROVE UNCHANGED <<cpOut, Answers>>
  BY <1>9 DEF Answers, Bound
<1>10. QED
  BY <1>0, <1>6, <1>7, <1>8, <1>9, FarSteps

-----------------------------------------------------------------------------
(* The server and the data *)

\* What the server does with the data: it answers what it has read, and its answer, or the end
\* of those it has written, may be lost.
LEMMA ServerData ==
    ASSUME FarEnd, AtServer(Server)
    PROVE  \/ UNCHANGED <<Answers, Unanswered>>
           \/ /\ E2 = E1
              /\ \E x \in Seq(ChainUnits) :
                   /\ x # <<>> /\ Unanswered = x \o Unanswered'
                   /\ \E n \in 0..Len(ES!EchoMessage(x)) :
                        /\ Answers' = Answers \o SubSeq(ES!EchoMessage(x), 1, n)
                        /\ n = Len(ES!EchoMessage(x)) \/ ~E2'
           \/ /\ UNCHANGED Unanswered /\ ~E2'
              /\ \E y \in Seq(ChainUnits) : Answers = Answers' \o y
<1>0. Server /\ UNCHANGED <<cpBindings, Bound>>
  BY DEF AtServer, cpOnlyVars, Bound
<1>1. /\ cpToServer \in [Links -> Seq(ChainUnits)] /\ cpFromServer \in [Links -> Seq(ChainUnits)]
      /\ esChunk \in [Links -> Seq(ChainUnits)] /\ esTaken \in [Links -> Nat]
      /\ cpLink \in [Links -> {"unused", "open", "closed"}]
      /\ None \notin Links
  BY ChainAssumption DEF FarEnd, FarTypes
<1>2. ASSUME UNCHANGED <<cpToServer, cpFromServer, esTaken, esChunk>> PROVE UNCHANGED <<Answers, Unanswered>>
  BY <1>0, <1>2 DEF Answers, Unanswered, Unread
<1>3. ASSUME NEW l \in Links, esTask[l] # "none" PROVE l = Bound /\ Bound # None
  BY <1>1, <1>3 DEF FarEnd, OneLink
<1>4. ASSUME NEW l \in Links, ES!Read(l) PROVE UNCHANGED <<Answers, Unanswered>>
  <2>1. esTask[l] = "read" /\ UNCHANGED <<cpToServer, cpFromServer>>
    BY <1>4, ServerReads DEF linkVars
  <2>2. l = Bound /\ Bound # None
    BY <1>3, <2>1
  <2>3. CASE UNCHANGED <<esTaken, esChunk>>
    BY <1>2, <2>1, <2>3
  <2>4. CASE \E n \in 1 .. Len(cpToServer[l]) - esTaken[l] :
                /\ esTaken' = [esTaken EXCEPT ![l] = @ + n]
                /\ esChunk' = [esChunk EXCEPT ![l] = SubSeq(cpToServer[l], esTaken[l] + 1, esTaken[l] + n)]
    <3>1. PICK s \in Seq(ChainUnits) : s = cpToServer[l]
      BY <1>1
    <3>2. PICK a \in Nat : a = esTaken[l]
      BY <1>1
    <3>3. PICK n \in 1 .. Len(s) - a :
            /\ esTaken' = [esTaken EXCEPT ![l] = @ + n]
            /\ esChunk' = [esChunk EXCEPT ![l] = SubSeq(s, a + 1, a + n)]
      BY <2>4, <3>1, <3>2
    <3>4. esChunk[l] = <<>>
      BY <2>1 DEF FarEnd, EchoThreads
    <3>5. esTaken'[l] = a + n /\ esChunk'[l] = SubSeq(s, a + 1, a + n) /\ cpToServer'[l] = s
      BY <1>1, <2>1, <3>1, <3>2, <3>3
    <3>6. Unanswered = SubSeq(s, a + 1, Len(s))
      <4>1. Unanswered = <<>> \o SubSeq(s, a + 1, Len(s))
        BY <2>2, <3>1, <3>2, <3>4 DEF Unanswered, Unread
      <4>2. a \in 0..Len(s)
        <5>1. Len(s) \in Nat
          BY LenProperties
        <5>2. QED
          BY <3>3, <5>1
      <4>3. SubSeq(s, a + 1, Len(s)) \in Seq(ChainUnits)
        BY <4>2, RestType
      <4>4. QED
        BY <4>1, <4>3, ConcatEmptySeq
    <3>7. Unanswered' = SubSeq(s, a + 1, a + n) \o SubSeq(s, (a + n) + 1, Len(s))
      BY <1>0, <2>2, <3>5 DEF Unanswered, Unread
    <3>8. /\ a + 1 \in 1 .. Len(s) + 1
          /\ a + n \in (a + 1) - 1 .. Len(s)
          /\ Len(s) \in a + n .. Len(s)
      <4>1. Len(s) \in Nat
        BY LenProperties
      <4>2. QED
        BY <3>3, <4>1
    <3>9. Unanswered' = Unanswered
      BY <3>6, <3>7, <3>8, ConcatAdjacentSubSeq
    <3>10. QED
      BY <1>0, <2>1, <3>9 DEF Answers
  <2>5. QED
    BY <1>4, <2>3, <2>4, ServerReads
<1>5. ASSUME NEW l \in Links, ES!Write(l)
      PROVE  \/ UNCHANGED <<Answers, Unanswered>>
             \/ /\ E2 = E1
                /\ \E x \in Seq(ChainUnits) :
                     /\ x # <<>> /\ Unanswered = x \o Unanswered'
                     /\ \E n \in 0..Len(ES!EchoMessage(x)) :
                          /\ Answers' = Answers \o SubSeq(ES!EchoMessage(x), 1, n)
                          /\ n = Len(ES!EchoMessage(x)) \/ ~E2'
  <2>1. esTask[l] = "write" /\ UNCHANGED <<cpLink, cpToServer, esTaken>>
    BY <1>5, ServerWrites
  <2>2. l = Bound /\ Bound # None
    BY <1>3, <2>1
  <2>3. CASE UNCHANGED <<cpFromServer, esChunk>>
    BY <1>2, <2>1, <2>3
  <2>4. CASE /\ cpLink[l] = "open"
             /\ esChunk' = [esChunk EXCEPT ![l] = <<>>]
             /\ \E n \in 0..Len(ES!EchoMessage(esChunk[l])) :
                  /\ cpFromServer' = [cpFromServer EXCEPT ![l] = @ \o SubSeq(ES!EchoMessage(esChunk[l]), 1, n)]
                  /\ n = Len(ES!EchoMessage(esChunk[l])) \/ "partial" \in EchoFaults
    <3>1. PICK x \in Seq(ChainUnits) : x = esChunk[l]
      BY <1>1
    <3>2. x # <<>>
      BY <2>1, <3>1 DEF FarEnd, EchoThreads
    <3>3. PICK n \in 0..Len(ES!EchoMessage(x)) :
            /\ cpFromServer' = [cpFromServer EXCEPT ![l] = @ \o SubSeq(ES!EchoMessage(x), 1, n)]
            /\ n = Len(ES!EchoMessage(x)) \/ "partial" \in EchoFaults
      BY <2>4, <3>1
    <3>4. Answers' = Answers \o SubSeq(ES!EchoMessage(x), 1, n)
      BY <1>0, <1>1, <2>2, <3>3 DEF Answers
    <3>5. PICK r \in Seq(ChainUnits) : r = Unread(l)
      BY <2>2, LinkChosen, RestType DEF Unread
    <3>6. Unanswered = x \o r
      BY <2>2, <3>1, <3>5 DEF Unanswered
    <3>7. Unanswered' = r
      <4>1. Unanswered' = <<>> \o Unread(l)
        BY <1>0, <1>1, <2>1, <2>2, <2>4 DEF Unanswered, Unread
      <4>2. QED
        BY <3>5, <4>1, ConcatEmptySeq
    <3>8. E2 = E1
      BY <2>2, <2>4 DEF E2, E1, E0, Clean
    <3>9. "partial" \in EchoFaults => ~E2'
      BY DEF E2, E1, E0, Clean
    <3>10. QED
      BY <3>2, <3>3, <3>4, <3>6, <3>7, <3>8, <3>9
  <2>5. QED
    BY <1>5, <2>3, <2>4, ServerWrites
<1>6. ASSUME NEW l \in Links, ES!CloseSession(l)
      PROVE  /\ UNCHANGED Unanswered /\ ~E2'
             /\ \E y \in Seq(ChainUnits) : Answers = Answers' \o y
  <2>1. /\ l = Bound /\ UNCHANGED <<cpToServer, esTaken, esChunk>>
        /\ cpLink' = [cpLink EXCEPT ![l] = "closed"]
    BY <1>6, ServerCloses
  <2>2. Bound # None
    BY <1>1, <2>1
  <2>3. UNCHANGED Unanswered
    BY <1>0, <2>1 DEF Unanswered, Unread
  <2>4. ~E2'
    BY <1>0, <1>1, <2>1, <2>2 DEF E2
  <2>5. PICK s \in Seq(ChainUnits) : s = cpFromServer[l]
    BY <1>1
  <2>6. PICK n \in 0..Len(s) : cpFromServer' = [cpFromServer EXCEPT ![l] = SubSeq(@, 1, n)]
    BY <1>6, <2>5, ServerCloses
  <2>7. PICK x \in Seq(ChainUnits), y \in Seq(ChainUnits) : x = SubSeq(s, 1, n) /\ s = x \o y
    BY CutInTwo
  <2>8. Answers = s /\ Answers' = x
    BY <1>0, <1>1, <2>1, <2>2, <2>5, <2>6, <2>7 DEF Answers
  <2>9. QED
    BY <2>3, <2>4, <2>7, <2>8
<1>7. QED
  BY <1>0, <1>2, <1>4, <1>5, <1>6, ServerRests

LEMMA ServerPlaces == FarEnd => Answers \in Seq(ChainUnits) /\ Unanswered \in Seq(ChainUnits)
BY ServerPieces

\* The steps of the server: it answers.
LEMMA ServerPiped ==
    ASSUME Setting, NearEnd, FarEnd, FarEnd', Network, ReplyTypes, AtServer(Server), Piped,
           E0' => E0, E1' => E1, E2' => E2, E3' => E3
    PROVE  Piped'
<1>0. UNCHANGED <<outbox, Returning, Going, Held, sentUnits>>
  <2>1. UNCHANGED <<vars, there, back, cpIn, cpOut>>
    BY DEF AtServer, cpOnlyVars
  <2>2. UNCHANGED <<outbox, sentUnits, toUdp, fromUdp, reactor, todo, reply, task, tcpBuffer, count, inbox>>
    BY <2>1 DEF vars, clientVars, udpVars, reactorVars, threadVars
  <2>3. UNCHANGED <<Replying, Held>>
    BY <2>2 DEF Replying, Held, Buffered, Prefix
  <2>4. UNCHANGED <<Returning, Going>>
    BY <2>1, <2>2, <2>3 DEF Returning, Going, Data, Coming, LastOf, UpTo
  <2>5. QED
    BY <2>2, <2>3, <2>4
<1>1. PICK b \in Nat, k \in Kinds : DownTo(b, k) /\ UpFrom(b) /\ (E2 => k = "between")
  BY DEF Piped
<1>2. /\ outbox[Client] \in Seq(ChainUnits) /\ Returning \in Seq(ChainUnits)
      /\ Answers \in Seq(ChainUnits) /\ Unanswered \in Seq(ChainUnits)
      /\ Answers' \in Seq(ChainUnits) /\ Unanswered' \in Seq(ChainUnits)
  <2>1. Answers' \in Seq(ChainUnits) /\ Unanswered' \in Seq(ChainUnits)
    <3>1. (Answers \in Seq(ChainUnits) /\ Unanswered \in Seq(ChainUnits))'
      BY ServerPlaces, PTL
    <3>2. QED
      BY <3>1
  <2>2. QED
    BY <2>1, ServerPieces, ReplyPieces
<1>3. PICK o \in Seq(ChainUnits), r \in Seq(ChainUnits), f \in Seq(ChainUnits), w \in Seq(ChainUnits),
          g \in {Going}, h \in {Held}, s \in {sentUnits[Client]} :
          /\ o = outbox[Client] /\ r = Returning /\ f = Answers
          /\ w = Unanswered /\ g = Going /\ h = Held /\ s = sentUnits[Client]
  BY <1>2
<1>4. PICK e0 \in BOOLEAN, e1 \in BOOLEAN, e2 \in BOOLEAN, e3 \in BOOLEAN : e0 = E0 /\ e1 = E1 /\ e2 = E2 /\ e3 = E3
  BY FlagTypes
<1>5. Down(o, r, f, b, k, e0, e1) /\ Up(w, g, h, b, s, e2, e3)
  BY <1>1, <1>3, <1>4 DEF DownTo, UpFrom
<1>6. (E0' => e0) /\ (E1' => e1) /\ (E2' => e2) /\ (E3' => e3)
  BY <1>4
<1>7. o = outbox'[Client] /\ r = Returning' /\ g = Going' /\ h = Held' /\ s = sentUnits'[Client]
  BY <1>0, <1>3
<1>8. PICK p \in Seq(ChainUnits), v \in Seq(ChainUnits) : p = Answers' /\ v = Unanswered'
  BY <1>2
<1>9. ASSUME NEW a \in Nat, NEW l \in Kinds, Down(o, r, p, a, l, e0, e1), NEW d2 \in BOOLEAN, Up(v, g, h, a, s, d2, e3),
             E2' => d2, E2' => l = "between"
      PROVE  Piped'
  <2>1. Down(o, r, p, a, l, E0', E1')
    BY <1>6, <1>9, DownWeaken
  <2>2. Up(v, g, h, a, s, E2', E3')
    BY <1>6, <1>9, UpWeaken
  <2>3. DownTo(a, l)' /\ UpFrom(a)'
    BY <1>7, <1>8, <2>1, <2>2 DEF DownTo, UpFrom
  <2>4. QED
    BY <1>9, <2>3 DEF Piped
<1>10. CASE UNCHANGED <<Answers, Unanswered>>
  <2>1. p = f /\ v = w
    BY <1>3, <1>8, <1>10
  <2>2. E2' => k = "between"
    BY <1>1
  <2>3. QED
    BY <1>5, <1>6, <1>9, <2>1, <2>2
<1>11. CASE /\ UNCHANGED Unanswered /\ ~E2'
            /\ \E y \in Seq(ChainUnits) : Answers = Answers' \o y
  <2>1. PICK y \in Seq(ChainUnits) : f = p \o y
    BY <1>3, <1>8, <1>11
  <2>2. v = w
    BY <1>3, <1>8, <1>11
  <2>3. PICK a \in 0..b, l \in Kinds : Down(o, r, p, a, l, e0, e1)
    BY <1>5, <2>1, DownCut
  <2>4. Up(v, g, h, a, s, FALSE, e3)
    BY <1>5, <2>2, UpWiden
  <2>5. a \in Nat
    OBVIOUS
  <2>6. QED
    BY <1>9, <1>11, <2>3, <2>4, <2>5
<1>12. CASE /\ E2 = E1
            /\ \E x \in Seq(ChainUnits) :
                 /\ x # <<>> /\ Unanswered = x \o Unanswered'
                 /\ \E n \in 0..Len(ES!EchoMessage(x)) :
                      /\ Answers' = Answers \o SubSeq(ES!EchoMessage(x), 1, n)
                      /\ n = Len(ES!EchoMessage(x)) \/ ~E2'
  <2>1. PICK x \in Seq(ChainUnits) :
                 /\ x # <<>> /\ w = x \o v
                 /\ \E n \in 0..Len(ES!EchoMessage(x)) :
                      /\ p = f \o SubSeq(ES!EchoMessage(x), 1, n)
                      /\ n = Len(ES!EchoMessage(x)) \/ ~E2'
    BY <1>3, <1>8, <1>12
  <2>2. e1 = e2
    BY <1>4, <1>12
  <2>3. PICK m \in Nat : Carries(x, b, m, e2) /\ Up(v, g, h, m, s, e2, e3)
    BY <1>5, <2>1, UpTaken
  <2>4. e2 => k = "between"
    BY <1>1, <1>4
  <2>5. PICK z \in Seq(ChainUnits) : z = ES!EchoMessage(x) /\ Echo(z, b, k, m, "between", e2)
    BY <2>1, <2>3, <2>4, EchoOfMessage
  <2>6. Down(o, r, f \o z, m, "between", e0, e1)
    BY <1>5, <2>2, <2>5, DownAnswer
  <2>7. PICK n \in 0..Len(z) : p = f \o SubSeq(z, 1, n) /\ (n = Len(z) \/ ~E2')
    BY <2>1, <2>5
  <2>8. CASE n = Len(z)
    <3>1. p = f \o z
      BY <2>7, <2>8, SubSeqFull
    <3>2. Down(o, r, p, m, "between", e0, e1)
      BY <2>6, <3>1
    <3>3. "between" \in Kinds
      BY DEF Kinds
    <3>4. QED
      BY <1>6, <1>9, <2>3, <3>2, <3>3
  <2>9. CASE ~E2'
    <3>1. PICK c \in Seq(ChainUnits), d \in Seq(ChainUnits) : c = SubSeq(z, 1, n) /\ z = c \o d
      BY CutInTwo
    <3>2. p = f \o c
      BY <2>7, <3>1
    <3>3. Associates(f, c, d)
      BY Rebracket
    <3>4. Down(o, r, p \o d, m, "between", e0, e1)
      BY <2>6, <3>1, <3>2, <3>3 DEF Associates
    <3>5. PICK a \in 0..m, l \in Kinds : Down(o, r, p, a, l, e0, e1)
      BY <3>4, DownCut
    <3>6. Up(v, g, h, a, s, FALSE, e3)
      BY <2>3, UpWiden
    <3>7. a \in Nat
      OBVIOUS
    <3>8. QED
      BY <1>9, <2>9, <3>5, <3>6, <3>7
  <2>10. QED
    BY <2>7, <2>8, <2>9
<1>13. QED
  BY <1>10, <1>11, <1>12, ServerData

-----------------------------------------------------------------------------
(* Datagrams arrive *)

\* The next datagrams may arrive, and nothing that has been sent before one that has.
LEMMA InTurn ==
    ASSUME Setting, NEW arrivals \in Seq(Nat), NEW i \in 1..Len(arrivals), MayArrive(i, arrivals)
    PROVE  arrivals[i] = 0 /\ \A j \in i + 1 .. Len(arrivals) : arrivals[j] = 0
BY DEF Setting, MayArrive

\* One that arrives joins those in the socket; those it has overtaken are lost.
Overtakes(q, arrivals, next, s, i) ==
    \E x, y, z \in Seq(ChainUnits) :
        /\ x = FlattenSeq(q)
        /\ FlattenSeq(Coming(arrivals, s)) = y \o z
        /\ FlattenSeq(Append(q, s[i])) \o FlattenSeq(Coming(next, s)) = x \o z
        /\ ~Skipped(next) => y = <<>>

LEMMA ArrivalOf ==
    ASSUME NEW arrivals \in Seq(Nat), HasLast(arrivals), NEW s \in Seq(Packet), Len(s) = Len(arrivals),
           NEW i \in 1..Len(arrivals), arrivals[i] = 0, \A j \in i + 1 .. Len(arrivals) : arrivals[j] = 0,
           NEW q \in Seq(Packet), NEW next, next = [arrivals EXCEPT ![i] = @ + 1]
    PROVE  Overtakes(q, arrivals, next, s, i)
<1>1. Delivers(arrivals, next, s, i, Packet)
  BY NetDelivers
<1>2. PICK d \in Packet, c \in Seq(Packet), lost \in Seq(Packet) :
          /\ d = s[i] /\ c = Coming(next, s)
          /\ Coming(arrivals, s) = (lost \o <<d>>) \o c
          /\ ~Skipped(next) => lost = <<>>
  BY <1>1 DEF Delivers
<1>3. /\ d \in Seq(ChainUnits) /\ c \in Seq(Seq(ChainUnits)) /\ lost \in Seq(Seq(ChainUnits))
      /\ q \in Seq(Seq(ChainUnits))
  BY PacketTypes
<1>4. <<d>> \in Seq(Seq(ChainUnits))
  BY <1>3
<1>5. PICK x \in Seq(ChainUnits), y \in Seq(ChainUnits), f \in Seq(ChainUnits) :
          x = FlattenSeq(q) /\ y = FlattenSeq(lost) /\ f = FlattenSeq(c)
  BY PacketsFlat
<1>6. PICK z \in Seq(ChainUnits) : z = d \o f
  BY <1>3, ConcatProperties
<1>7. FlattenSeq(Coming(arrivals, s)) = y \o z
  <2>1. lost \o <<d>> \in Seq(Seq(ChainUnits))
    BY <1>3, <1>4, ConcatProperties
  <2>2. FlattenSeq((lost \o <<d>>) \o c) = FlattenSeq(lost \o <<d>>) \o f
    BY <1>3, <1>5, <2>1, FlattenConcat
  <2>3. FlattenSeq(lost \o <<d>>) = y \o FlattenSeq(<<d>>)
    BY <1>3, <1>4, <1>5, FlattenConcat
  <2>4. FlattenSeq(<<d>>) = d
    BY <1>3, FlattenOne
  <2>5. Associates(y, d, f)
    BY <1>3, Rebracket
  <2>6. QED
    BY <1>2, <1>6, <2>2, <2>3, <2>4, <2>5 DEF Associates
<1>8. FlattenSeq(Append(q, d)) \o f = x \o z
  <2>1. FlattenSeq(Append(q, d)) = x \o d
    BY <1>3, <1>5, FlattenAppend
  <2>2. Associates(x, d, f)
    BY <1>3, Rebracket
  <2>3. QED
    BY <1>6, <2>1, <2>2 DEF Associates
<1>9. ~Skipped(next) => y = <<>>
  <2>1. FlattenSeq(<<>>) = <<>>
    BY EmptySeq DEF FlattenSeq
  <2>2. QED
    BY <1>2, <1>5, <2>1
<1>10. QED
  BY <1>2, <1>5, <1>7, <1>8, <1>9 DEF Overtakes

\* A datagram arrives at the client proxy.
LEMMA NetworkThere ==
    ASSUME Setting, Network, NEW i \in 1..Len(there), ArriveThere(i)
    PROVE  Network' /\ (Skipped(there) => Skipped(there)')
<1>1. there \in Seq(Nat) /\ HasLast(there) /\ Len(there) = Len(toUdp) /\ toUdp \in Seq(Packet)
  BY DEF Network
<1>2. there[i] = 0 /\ \A j \in i + 1 .. Len(there) : there[j] = 0
  BY <1>1, InTurn DEF ArriveThere
<1>3. Delivers(there, [there EXCEPT ![i] = @ + 1], toUdp, i, Packet)
  BY <1>1, <1>2, NetDelivers
<1>4. there' = [there EXCEPT ![i] = @ + 1] /\ UNCHANGED <<toUdp, back, cpOut>>
  BY DEF ArriveThere, vars, udpVars
<1>5. there' \in Seq(Nat) /\ HasLast(there)' /\ Len(there') = Len(toUdp') /\ (Skipped(there) => Skipped(there)')
  BY <1>3, <1>4 DEF Delivers, HasLast, UpTo, Skipped
<1>6. cpIn' \in Seq([from : {Proxy}, data : Packet])
  <2>1. PICK d \in Packet : d = toUdp[i]
    BY <1>3 DEF Delivers
  <2>2. [from |-> Proxy, data |-> d] \in [from : {Proxy}, data : Packet]
    OBVIOUS
  <2>3. cpIn' = Append(cpIn, [from |-> Proxy, data |-> d])
    BY <2>1 DEF ArriveThere
  <2>4. QED
    BY <2>2, <2>3, AddLast DEF Network
<1>7. QED
  BY <1>4, <1>5, <1>6 DEF Network, HasLast, UpTo

LEMMA UpThere ==
    ASSUME Setting, Network, FarEnd, NEW i \in 1..Len(there), ArriveThere(i), NEW b, UpFrom(b), E2' => E2, E3' => E3
    PROVE  UpFrom(b)'
<1>0. UNCHANGED <<Unanswered, Held, sentUnits, toUdp>> /\ there' = [there EXCEPT ![i] = @ + 1]
  BY DEF ArriveThere, vars, clientVars, udpVars, reactorVars, threadVars, linkVars, esVars, Unanswered, Unread, Bound, Held, Buffered,
         Prefix
<1>1. there \in Seq(Nat) /\ HasLast(there) /\ Len(there) = Len(toUdp) /\ toUdp \in Seq(Packet)
  BY DEF Network
<1>2. there[i] = 0 /\ \A j \in i + 1 .. Len(there) : there[j] = 0
  BY <1>1, InTurn DEF ArriveThere
<1>3. PICK q \in Seq(Packet) : q = Data(cpIn)
  BY NetworkPieces
<1>4. Data(cpIn)' = Append(q, toUdp[i])
  <2>1. cpIn \in Seq(Received) /\ \A r \in Received : r.data \in Packet
    BY PacketTypes DEF Network, Received
  <2>2. toUdp[i] \in Packet
    BY <1>1, ElementOfSeq
  <2>3. PICK d \in Packet : d = toUdp[i]
    BY <2>2
  <2>4. PICK r \in Received : r = [from |-> Proxy, data |-> d]
    BY DEF Received
  <2>5. Data(Append(cpIn, r)) = Append(q, r.data)
    BY <1>3, <2>1, DataAppend
  <2>6. cpIn' = Append(cpIn, r)
    BY <2>3, <2>4 DEF ArriveThere
  <2>7. QED
    BY <2>3, <2>4, <2>5, <2>6 DEF Data
<1>5. PICK x \in Seq(ChainUnits), y \in Seq(ChainUnits), z \in Seq(ChainUnits) :
               /\ x = FlattenSeq(q)
               /\ FlattenSeq(Coming(there, toUdp)) = y \o z
               /\ FlattenSeq(Append(q, toUdp[i])) \o FlattenSeq(Coming(there', toUdp)) = x \o z
               /\ ~Skipped(there') => y = <<>>
  <2>1. Overtakes(q, there, there', toUdp, i)
    BY <1>0, <1>1, <1>2, ArrivalOf
  <2>2. QED
    BY <2>1 DEF Overtakes
<1>6. Associates(x, y, z)
  BY Rebracket
<1>7. Going = (x \o y) \o z
  BY <1>3, <1>5, <1>6 DEF Going, Associates
<1>8. Going' = x \o z
  <2>1. Coming(there, toUdp)' = Coming(there', toUdp)
    BY <1>0 DEF Coming, LastOf, UpTo
  <2>2. QED
    BY <1>4, <1>5, <2>1 DEF Going
<1>9. PICK e2 \in BOOLEAN, e3 \in BOOLEAN : e2 = E2 /\ e3 = E3
  BY FlagTypes
<1>10. Up(Unanswered, (x \o y) \o z, Held, b, sentUnits[Client], e2, e3)
  BY <1>7, <1>9 DEF UpFrom
<1>11. Up(Unanswered, x \o z, Held, b, sentUnits[Client], e2, e3 /\ y = <<>>)
  BY <1>10, UpLose
<1>12. E3' => (e3 /\ y = <<>>)
  <2>1. E3' => ~Skipped(there')
    BY DEF E3, E2, E1, E0, Lossless, Skipped
  <2>2. QED
    BY <1>5, <1>9, <2>1
<1>13. E2' => e2
  BY <1>9
<1>14. Up(Unanswered, x \o z, Held, b, sentUnits[Client], E2', E3')
  BY <1>11, <1>12, <1>13, UpWeaken
<1>15. QED
  BY <1>0, <1>8, <1>14 DEF UpFrom

\* A datagram arrives at the server proxy.
LEMMA NearEndBack ==
    ASSUME NearEnd, NEW i, ArriveBack(i), cpOut[i].data \in Packet
    PROVE  NearEnd'
<1>1. /\ UNCHANGED <<link, peer, sentUnits, inbox, outbox, backlog, toUdp, nReplies>>
      /\ UNCHANGED <<udpReg, accReg, loopEnded, reactor, current, reply, todo, sessions>>
      /\ UNCHANGED <<task, cancelled, tasks, tcpBuffer, count, stopper, raced>>
  BY DEF ArriveBack, clientVars, reactorVars, threadVars
<1>2. TypeOK'
  <2>1. PICK d \in Replies : d = cpOut[i].data
    BY PacketTypes
  <2>2. fromUdp' = Append(fromUdp, d)
    BY <2>1 DEF ArriveBack
  <2>3. fromUdp' \in Seq(Replies)
    BY <2>2, AddLast DEF NearEnd, IInv, TypeOK, UdpTypes
  <2>4. ClientTypes'
    BY <1>1 DEF NearEnd, IInv, TypeOK, ClientTypes
  <2>5. UdpTypes'
    BY <1>1, <2>3 DEF NearEnd, IInv, TypeOK, UdpTypes
  <2>6. ReactorTypes'
    BY <1>1 DEF NearEnd, IInv, TypeOK, ReactorTypes
  <2>7. ThreadTypes'
    BY <1>1 DEF NearEnd, IInv, TypeOK, ThreadTypes
  <2>8. QED
    BY <2>4, <2>5, <2>6, <2>7 DEF TypeOK
<1>3. OnePlace'
  BY <1>1 DEF NearEnd, IInv, OnePlace, Waits, Registering
<1>4. ThreadsAreKept'
  BY <1>1 DEF NearEnd, IInv, ThreadsAreKept, Runs, Kept
<1>5. Removed' /\ RaceNeedsALeaver' /\ RegisteredHasThread'
  BY <1>1 DEF NearEnd, IInv, Removed, RaceNeedsALeaver, RegisteredHasThread
<1>6. OneIsCancelled'
  BY <1>1 DEF NearEnd, IInv, OneIsCancelled, Left
<1>7. KeysInv'
  BY <1>1 DEF NearEnd, KeysInv, OwnKeys, ForwardingIsRegistered
<1>8. OwnKey' /\ ToSend'
  BY <1>1 DEF NearEnd, OwnKey, ToSend, Gone, Left, Buffered, Prefix
<1>9. QED
  BY <1>2, <1>3, <1>4, <1>5, <1>6, <1>7, <1>8 DEF NearEnd, IInv

LEMMA NetworkBack ==
    ASSUME Setting, Network, NEW i \in 1..Len(back), ArriveBack(i)
    PROVE  /\ Network' /\ (Skipped(back) => Skipped(back)')
           /\ cpOut[i].data \in Packet /\ Delivers(back, back', Data(cpOut), i, Packet) /\ Data(cpOut)[i] = cpOut[i].data
<1>1. back \in Seq(Nat) /\ HasLast(back) /\ Len(back) = Len(cpOut) /\ cpOut \in Seq(Sent)
  BY DEF Network, Sent
<1>2. Data(cpOut) \in Seq(Packet) /\ Len(Data(cpOut)) = Len(back)
  BY NetworkPieces
<1>3. back[i] = 0 /\ \A j \in i + 1 .. Len(back) : back[j] = 0
  BY <1>1, InTurn DEF ArriveBack
<1>4. back' = [back EXCEPT ![i] = @ + 1] /\ UNCHANGED <<toUdp, there, cpIn, cpOut>>
  BY DEF ArriveBack, cpOnlyVars
<1>5. Delivers(back, back', Data(cpOut), i, Packet)
  <2>1. PICK q \in Seq(Packet) : q = Data(cpOut)
    BY <1>2
  <2>2. Delivers(back, [back EXCEPT ![i] = @ + 1], q, i, Packet)
    BY <1>1, <1>2, <1>3, <2>1, NetDelivers
  <2>3. QED
    BY <1>4, <2>1, <2>2
<1>6. Data(cpOut)[i] = cpOut[i].data /\ cpOut[i].data \in Packet
  <2>1. \A r \in Sent : r.data \in Packet
    BY PacketTypes
  <2>2. cpOut[i] \in Sent
    BY <1>1, ElementOfSeq
  <2>3. Data(cpOut)[i] = cpOut[i].data
    BY <1>1, <2>1, DataType
  <2>4. QED
    BY <2>1, <2>2, <2>3
<1>7. back' \in Seq(Nat) /\ HasLast(back)' /\ Len(back') = Len(cpOut') /\ (Skipped(back) => Skipped(back)')
  <2>1. Len(back') = Len(cpOut)
    BY <1>1, <1>2, <1>5 DEF Delivers
  <2>2. QED
    BY <1>4, <1>5, <2>1 DEF Delivers, HasLast, UpTo, Skipped
<1>8. QED
  BY <1>4, <1>5, <1>6, <1>7 DEF Network, HasLast, UpTo

LEMMA ReplyTypesBack ==
    ASSUME ReplyTypes, NEW i, ArriveBack(i), cpOut[i].data \in Packet
    PROVE  ReplyTypes'
<1>1. fromUdp' = Append(fromUdp, cpOut[i].data) /\ UNCHANGED <<reply, outbox>>
  BY DEF ArriveBack, reactorVars
<1>2. fromUdp' \in Seq(Packet)
  BY <1>1, AddLast DEF ReplyTypes
<1>3. QED
  BY <1>1, <1>2 DEF ReplyTypes

LEMMA DownReturns ==
    ASSUME Setting, Network, ReplyTypes, FarEnd, NEW i \in 1..Len(back), ArriveBack(i),
           NEW b, NEW k, DownTo(b, k), E0' => E0, E1' => E1
    PROVE  DownTo(b, k)'
<1>0. /\ UNCHANGED <<Answers, outbox, Replying, cpOut>> /\ back' = [back EXCEPT ![i] = @ + 1]
      /\ fromUdp' = Append(fromUdp, cpOut[i].data)
  BY DEF ArriveBack, reactorVars, cpOnlyVars, linkVars, Answers, Bound, Replying
<1>1. back \in Seq(Nat) /\ HasLast(back) /\ fromUdp \in Seq(Packet)
  BY DEF Network, ReplyTypes
<1>2. PICK s \in Seq(Packet) : s = Data(cpOut) /\ Len(s) = Len(back)
  BY NetworkPieces
<1>3. back[i] = 0 /\ \A j \in i + 1 .. Len(back) : back[j] = 0
  BY <1>1, InTurn DEF ArriveBack
<1>4. Delivers(back, back', s, i, Packet) /\ s[i] = cpOut[i].data
  BY <1>2, NetworkBack
<1>5. Overtakes(fromUdp, back, back', s, i)
  BY <1>0, <1>1, <1>2, <1>3, ArrivalOf
<1>6. PICK x \in Seq(ChainUnits), y \in Seq(ChainUnits), z \in Seq(ChainUnits) :
          /\ x = FlattenSeq(fromUdp)
          /\ FlattenSeq(Coming(back, s)) = y \o z
          /\ FlattenSeq(Append(fromUdp, s[i])) \o FlattenSeq(Coming(back', s)) = x \o z
          /\ ~Skipped(back') => y = <<>>
  BY <1>5 DEF Overtakes
<1>7. PICK p \in Seq(ChainUnits) : p = Replying
  BY ReplyPieces
<1>8. PICK v \in Seq(ChainUnits) : v = p \o x
  BY ConcatProperties
<1>9. Returning = (v \o y) \o z
  <2>1. Returning = v \o (y \o z)
    BY <1>2, <1>6, <1>7, <1>8 DEF Returning
  <2>2. Associates(v, y, z)
    BY Rebracket
  <2>3. QED
    BY <2>1, <2>2 DEF Associates
<1>10. Returning' = v \o z
  <2>1. PICK f \in Seq(ChainUnits), c \in Seq(ChainUnits) :
            f = FlattenSeq(Append(fromUdp, s[i])) /\ c = FlattenSeq(Coming(back', s))
    <3>1. s[i] \in Packet /\ Coming(back', s) \in Seq(Packet)
      BY <1>4 DEF Delivers
    <3>2. Append(fromUdp, s[i]) \in Seq(Packet)
      BY <1>1, <3>1, AddLast
    <3>3. QED
      BY <3>1, <3>2, PacketsFlat
  <2>2. Returning' = (p \o f) \o c
    <3>1. Data(cpOut)' = s
      BY <1>0, <1>2 DEF Data
    <3>2. Coming(back, Data(cpOut))' = Coming(back', s)
      BY <3>1 DEF Coming, LastOf, UpTo
    <3>3. FlattenSeq(fromUdp)' = f
      BY <1>0, <1>4, <2>1
    <3>4. QED
      BY <1>0, <1>7, <2>1, <3>2, <3>3 DEF Returning
  <2>3. Associates(p, f, c) /\ Associates(p, x, z)
    BY Rebracket
  <2>4. f \o c = x \o z
    BY <1>6, <2>1
  <2>5. QED
    BY <1>8, <2>2, <2>3, <2>4 DEF Associates
<1>11. PICK e0 \in BOOLEAN, e1 \in BOOLEAN : e0 = E0 /\ e1 = E1
  BY FlagTypes
<1>12. Down(outbox[Client], (v \o y) \o z, Answers, b, k, e0, e1)
  BY <1>9, <1>11 DEF DownTo
<1>13. Down(outbox[Client], v \o z, Answers, b, k, e0, e1 /\ y = <<>>)
  BY <1>12, DownLose
<1>14. E1' => (e1 /\ y = <<>>)
  <2>1. E1' => ~Skipped(back')
    BY DEF E1, E0, Lossless, Skipped
  <2>2. QED
    BY <1>6, <1>11, <2>1
<1>15. E0' => e0
  BY <1>11
<1>16. Down(outbox[Client], v \o z, Answers, b, k, E0', E1')
  BY <1>13, <1>14, <1>15, DownWeaken
<1>17. QED
  BY <1>0, <1>10, <1>16 DEF DownTo

-----------------------------------------------------------------------------
(* What has been lost stays lost *)

Shut == Bound # None /\ cpLink[Bound] = "closed"
Refused == ~esListening /\ Bound = None

\* Nothing that has gone wrong is put right.
Falls ==
    /\ Skipped(there) => Skipped(there)'
    /\ Skipped(back) => Skipped(back)'
    /\ Gone => Gone'
    /\ Shut => Shut'
    /\ Refused => Refused'

LEMMA FlagsFall ==
    ASSUME Falls
    PROVE  (E0' => E0) /\ (E1' => E1) /\ (E2' => E2) /\ (E3' => E3)
<1>1. E0' => E0
  BY DEF Falls, E0, Clean, Lossless
<1>2. E1' => E1
  BY <1>1 DEF Falls, E1
<1>3. E2' => E2
  BY <1>2 DEF Falls, E2, Shut
<1>4. E3' => E3
  BY <1>3 DEF Falls, E3, Refused
<1>5. QED
  BY <1>1, <1>2, <1>3, <1>4

LEMMA SkippedGrows ==
    ASSUME NEW arrivals \in Seq(Nat), Skipped(arrivals)
    PROVE  Skipped(Append(arrivals, 0))
<1>1. PICK i \in 1..Len(arrivals), j \in 1..Len(arrivals) : i < j /\ arrivals[i] = 0 /\ arrivals[j] > 0
  BY DEF Skipped
<1>2. PICK next : next = Append(arrivals, 0)
  OBVIOUS
<1>3. Len(arrivals) \in Nat /\ Len(next) = Len(arrivals) + 1 /\ \A k \in 1..Len(arrivals) : next[k] = arrivals[k]
  BY <1>2, AddLast
<1>4. i \in 1..Len(next) /\ j \in 1..Len(next) /\ next[i] = 0 /\ next[j] > 0
  BY <1>1, <1>3
<1>5. Skipped(next)
  BY <1>1, <1>4 DEF Skipped
<1>6. QED
  BY <1>2, <1>5

LEMMA FallsNear ==
    ASSUME Setting, NearEnd, Network, AtServerProxy(Near)
    PROVE  Falls
<1>1. /\ Near /\ UNCHANGED <<back, cpBindings, cpLink, esListening>>
      /\ there' = there \/ there' = Append(there, 0)
  BY DEF AtServerProxy, cpOnlyVars, linkVars, esVars
<1>2. Skipped(there) => Skipped(there)'
  <2>1. Skipped(there)' <=> Skipped(there')
    BY DEF Skipped
  <2>2. there \in Seq(Nat)
    BY DEF Network
  <2>3. QED
    BY <1>1, <2>1, <2>2, SkippedGrows
<1>3. Gone => Gone'
  BY <1>1, NearIsNext, TheOne, LeftForGood DEF Gone, NearEnd, IInv
<1>4. QED
  BY <1>1, <1>2, <1>3 DEF Falls, Skipped, Shut, Refused, Bound

LEMMA FallsFar ==
    ASSUME FarEnd, Network, AtClientProxy(Far)
    PROVE  Falls
<1>1. /\ Far /\ UNCHANGED <<there, link, esListening>>
      /\ back' = back \/ back' = Append(back, 0)
  BY DEF AtClientProxy, vars, clientVars, esVars
<1>2. Skipped(back) => Skipped(back)'
  <2>1. Skipped(back)' <=> Skipped(back')
    BY DEF Skipped
  <2>2. back \in Seq(Nat)
    BY DEF Network
  <2>3. QED
    BY <1>1, <2>1, <2>2, SkippedGrows
<1>3. (Shut => Shut') /\ (Refused => Refused')
  <2>1. CASE UNCHANGED <<cpBindings, cpLink>>
    BY <1>1, <2>1 DEF Shut, Refused, Bound
  <2>2. CASE Bound = None /\ esListening
    BY <2>2 DEF Shut, Refused
  <2>3. (UNCHANGED <<cpBindings, cpLink>>) \/ (Bound = None /\ esListening)
    <3>1. ASSUME CP!HandleDatagram PROVE (UNCHANGED <<cpBindings, cpLink>>) \/ (Bound = None /\ esListening)
      BY <3>1, FarForward
    <3>2. ASSUME NEW l \in Links, CP!ForwardAnswer(l) PROVE UNCHANGED <<cpBindings, cpLink>>
      BY <3>2, FarAnswer
    <3>3. QED
      BY <1>1, <3>1, <3>2, FarSteps
  <2>4. QED
    BY <2>1, <2>2, <2>3
<1>4. QED
  BY <1>1, <1>2, <1>3 DEF Falls, Skipped, Gone, Left

LEMMA FallsServer ==
    ASSUME FarEnd, AtServer(Server)
    PROVE  Falls
<1>1. Server /\ UNCHANGED <<there, back, link, cpBindings>>
  BY DEF AtServer, vars, clientVars, cpOnlyVars
<1>2. cpLink \in [Links -> {"unused", "open", "closed"}] /\ Bound \in Links \cup {None}
  BY DEF FarEnd, FarTypes, Bound
<1>3. ASSUME cpLink' = cpLink \/ (\E l \in Links : cpLink' = [cpLink EXCEPT ![l] = "closed"])
                \/ cpLink' = [l \in Links |-> IF cpLink[l] = "open" /\ esTask[l] = "none" THEN "closed" ELSE cpLink[l]],
             esListening' => esListening
      PROVE  (Shut => Shut') /\ (Refused => Refused')
  BY <1>1, <1>2, <1>3 DEF Shut, Refused, Bound
<1>4. (Shut => Shut') /\ (Refused => Refused')
  <2>1. ASSUME NEW l \in Links, ES!Read(l) PROVE UNCHANGED <<cpLink, esListening>>
    BY <2>1, ServerReads DEF linkVars
  <2>2. ASSUME NEW l \in Links, ES!Write(l) PROVE UNCHANGED <<cpLink, esListening>>
    BY <2>2, ServerWrites
  <2>3. ASSUME NEW l \in Links, ES!CloseSession(l)
        PROVE  cpLink' = [cpLink EXCEPT ![l] = "closed"] /\ UNCHANGED esListening
    BY <2>3, ServerCloses
  <2>4. QED
    BY <1>1, <1>3, <2>1, <2>2, <2>3, ServerRests
<1>5. QED
  BY <1>1, <1>4 DEF Falls, Skipped, Gone, Left

LEMMA FallsThere ==
    ASSUME Setting, Network, NEW i \in 1..Len(there), ArriveThere(i)
    PROVE  Falls
<1>1. UNCHANGED <<back, link, cpBindings, cpLink, esListening>>
  BY DEF ArriveThere, vars, clientVars, linkVars, esVars
<1>2. QED
  BY <1>1, NetworkThere DEF Falls, Skipped, Gone, Left, Shut, Refused, Bound

LEMMA FallsBack ==
    ASSUME Setting, Network, NEW i \in 1..Len(back), ArriveBack(i)
    PROVE  Falls
<1>1. UNCHANGED <<there, link, cpBindings, cpLink, esListening>>
  BY DEF ArriveBack, clientVars, cpOnlyVars, linkVars, esVars
<1>2. QED
  BY <1>1, NetworkBack DEF Falls, Skipped, Gone, Left, Shut, Refused, Bound

-----------------------------------------------------------------------------
(* The inductive invariant is kept *)

LEMMA FarEndRests ==
    ASSUME FarEnd, UNCHANGED <<cpBindings, cpSender, linkVars, esVars>>
    PROVE  FarEnd'
<1>1. UNCHANGED <<cpLink, cpToServer, cpFromServer, esListening, esTask, esTaken, esChunk, cpBindings, cpSender>>
  BY DEF linkVars, esVars
<1>2. FarTypes'
  BY <1>1 DEF FarEnd, FarTypes
<1>3. OneLink'
  BY <1>1 DEF FarEnd, OneLink, Bound
<1>4. EchoThreads'
  BY <1>1 DEF FarEnd, EchoThreads
<1>5. QED
  BY <1>2, <1>3, <1>4 DEF FarEnd

LEMMA NearEndRests ==
    ASSUME Setting, NearEnd, ReplyTypes, UNCHANGED vars
    PROVE  NearEnd' /\ ReplyTypes'
<1>1. NearEnd'
  BY NearEndKept
<1>2. UNCHANGED <<fromUdp, reply, outbox>>
  BY DEF vars, udpVars, reactorVars
<1>3. QED
  BY <1>1, <1>2 DEF ReplyTypes

LEMMA NetworkRests ==
    ASSUME Network, UNCHANGED <<there, back, toUdp, cpIn, cpOut>>
    PROVE  Network'
BY DEF Network, HasLast, UpTo

LEMMA DownRests ==
    ASSUME NEW b, NEW k, DownTo(b, k), UNCHANGED <<outbox, Returning, Answers>>, E0' => E0, E1' => E1
    PROVE  DownTo(b, k)'
<1>1. Down(outbox[Client], Returning, Answers, b, k, E0, E1)
  BY DEF DownTo
<1>2. Down(outbox[Client], Returning, Answers, b, k, E0', E1')
  BY <1>1, DownWeaken
<1>3. QED
  BY <1>2 DEF DownTo

LEMMA UpRests ==
    ASSUME NEW b, UpFrom(b), UNCHANGED <<sentUnits, Unanswered, Going, Held>>, E2' => E2, E3' => E3
    PROVE  UpFrom(b)'
<1>1. Up(Unanswered, Going, Held, b, sentUnits[Client], E2, E3)
  BY DEF UpFrom
<1>2. Up(Unanswered, Going, Held, b, sentUnits[Client], E2', E3')
  BY <1>1, UpWeaken
<1>3. QED
  BY <1>2 DEF UpFrom

\* Everything is where it can be.
LEMMA PlacedKept ==
    ASSUME Setting, Placed, [ChainNext]_chainVars
    PROVE  Placed'
<1>0. NearEnd /\ Network /\ ReplyTypes /\ FarEnd /\ Nothing
  BY DEF Placed
<1>1. CASE AtServerProxy(Near)
  <2>1. Near /\ UNCHANGED <<cpBindings, cpSender, linkVars, esVars>>
    BY <1>1 DEF AtServerProxy, cpOnlyVars
  <2>2. NearEnd'
    BY <1>0, <2>1, NearIsNext, NearEndKept
  <2>3. Network'
    BY <1>0, <1>1, NetworkNear
  <2>4. ReplyTypes'
    BY <1>0, <2>1, ReplyTypesNear
  <2>5. FarEnd'
    BY <1>0, <2>1, FarEndRests
  <2>6. Nothing'
    BY <1>0, <1>1, NothingNear
  <2>7. QED
    BY <2>2, <2>3, <2>4, <2>5, <2>6 DEF Placed
<1>2. CASE AtClientProxy(Far)
  <2>1. UNCHANGED vars
    BY <1>2 DEF AtClientProxy
  <2>2. QED
    BY <1>0, <1>2, <2>1, NearEndRests, NetworkFar, FarEndFar, NothingFar DEF Placed
<1>3. CASE AtServer(Server)
  <2>1. UNCHANGED <<vars, there, back, cpIn, cpOut, cpBindings>>
    BY <1>3 DEF AtServer, cpOnlyVars
  <2>2. UNCHANGED <<task, reactor, toUdp, fromUdp>>
    BY <2>1 DEF vars, udpVars, reactorVars, threadVars
  <2>3. NearEnd' /\ ReplyTypes'
    BY <1>0, <2>1, NearEndRests
  <2>4. Network'
    BY <1>0, <2>1, <2>2, NetworkRests
  <2>5. FarEnd'
    BY <1>0, <1>3, FarEndServer
  <2>6. Nothing'
    BY <1>0, <2>1, <2>2 DEF Nothing, Bound
  <2>7. QED
    BY <2>3, <2>4, <2>5, <2>6 DEF Placed
<1>4. ASSUME NEW i \in 1..Len(there), ArriveThere(i) PROVE Placed'
  <2>1. UNCHANGED <<vars, back, cpOut, cpBindings, cpSender, linkVars, esVars>>
    BY <1>4 DEF ArriveThere
  <2>2. UNCHANGED <<task, reactor, toUdp, fromUdp>>
    BY <2>1 DEF vars, udpVars, reactorVars, threadVars
  <2>3. NearEnd' /\ ReplyTypes'
    BY <1>0, <2>1, NearEndRests
  <2>4. Network'
    BY <1>0, <1>4, NetworkThere
  <2>5. FarEnd'
    BY <1>0, <2>1, FarEndRests
  <2>6. Nothing'
    <3>1. toUdp # <<>>
      <4>1. Len(toUdp) # 0
        BY <1>0, LenProperties DEF Network
      <4>2. Len(<<>>) = 0
        OBVIOUS
      <4>3. QED
        BY <4>1, <4>2
    <3>2. QED
      BY <1>0, <2>2, <3>1 DEF Nothing
  <2>7. QED
    BY <2>3, <2>4, <2>5, <2>6 DEF Placed
<1>5. ASSUME NEW i \in 1..Len(back), ArriveBack(i) PROVE Placed'
  <2>1. UNCHANGED <<cpOut, cpBindings, cpSender, linkVars, esVars, task, reactor, toUdp>>
    BY <1>5 DEF ArriveBack, cpOnlyVars, reactorVars, threadVars
  <2>2. Network' /\ cpOut[i].data \in Packet
    BY <1>0, <1>5, NetworkBack
  <2>3. NearEnd'
    BY <1>0, <1>5, <2>2, NearEndBack
  <2>4. ReplyTypes'
    BY <1>0, <1>5, <2>2, ReplyTypesBack
  <2>5. FarEnd'
    BY <1>0, <2>1, FarEndRests
  <2>6. Nothing'
    <3>1. cpOut # <<>>
      <4>1. Len(cpOut) # 0
        BY <1>0, LenProperties DEF Network
      <4>2. Len(<<>>) = 0
        OBVIOUS
      <4>3. QED
        BY <4>1, <4>2
    <3>2. QED
      BY <1>0, <2>1, <3>1 DEF Nothing
  <2>7. QED
    BY <2>2, <2>3, <2>4, <2>5, <2>6 DEF Placed
<1>6. CASE UNCHANGED chainVars
  <2>1. UNCHANGED <<vars, there, back, cpOnlyVars, linkVars, esVars>>
    BY <1>6 DEF chainVars
  <2>2. UNCHANGED <<task, reactor, toUdp, fromUdp, cpIn, cpOut, cpBindings, cpSender>>
    BY <2>1 DEF vars, udpVars, reactorVars, threadVars, cpOnlyVars
  <2>3. NearEnd' /\ ReplyTypes'
    BY <1>0, <2>1, NearEndRests
  <2>4. Network'
    BY <1>0, <2>1, <2>2, NetworkRests
  <2>5. FarEnd'
    BY <1>0, <2>1, <2>2, FarEndRests
  <2>6. Nothing'
    BY <1>0, <2>2 DEF Nothing, Bound
  <2>7. QED
    BY <2>3, <2>4, <2>5, <2>6 DEF Placed
<1>7. QED
  BY <1>1, <1>2, <1>3, <1>4, <1>5, <1>6, ChainSteps

\* The data are where Piped says they are.
LEMMA PipedKept ==
    ASSUME Setting, Placed, Placed', Piped, [ChainNext]_chainVars
    PROVE  Piped'
<1>0. /\ NearEnd /\ Network /\ ReplyTypes /\ FarEnd /\ Nothing
      /\ NearEnd' /\ Network' /\ ReplyTypes' /\ FarEnd'
  BY DEF Placed
<1>1. PICK b \in Nat, k \in Kinds : DownTo(b, k) /\ UpFrom(b) /\ (E2 => k = "between")
  BY DEF Piped
<1>2. ASSUME DownTo(b, k)', UpFrom(b)', E2' => E2 PROVE Piped'
  BY <1>1, <1>2 DEF Piped
<1>3. CASE AtServerProxy(Near)
  <2>1. (E0' => E0) /\ (E1' => E1) /\ (E2' => E2) /\ (E3' => E3)
    BY <1>0, <1>3, FallsNear, FlagsFall
  <2>2. DownTo(b, k)'
    BY <1>0, <1>1, <1>3, <2>1, DownNear
  <2>3. UpFrom(b)'
    BY <1>0, <1>1, <1>3, <2>1, UpNear
  <2>4. QED
    BY <1>2, <2>1, <2>2, <2>3
<1>4. CASE AtClientProxy(Far)
  <2>1. (E0' => E0) /\ (E1' => E1) /\ (E2' => E2) /\ (E3' => E3)
    BY <1>0, <1>4, FallsFar, FlagsFall
  <2>2. DownTo(b, k)'
    BY <1>0, <1>1, <1>4, <2>1, DownFar
  <2>3. Held \in Seq(ChainUnits)
    BY <1>0, HeldPieces
  <2>4. UpFrom(b)'
    BY <1>0, <1>1, <1>4, <2>1, <2>3, UpFar
  <2>5. QED
    BY <1>2, <2>1, <2>2, <2>4
<1>5. CASE AtServer(Server)
  <2>1. (E0' => E0) /\ (E1' => E1) /\ (E2' => E2) /\ (E3' => E3)
    BY <1>0, <1>5, FallsServer, FlagsFall
  <2>2. QED
    BY <1>0, <1>5, <2>1, ServerPiped
<1>6. ASSUME NEW i \in 1..Len(there), ArriveThere(i) PROVE Piped'
  <2>1. (E0' => E0) /\ (E1' => E1) /\ (E2' => E2) /\ (E3' => E3)
    BY <1>0, <1>6, FallsThere, FlagsFall
  <2>2. UpFrom(b)'
    BY <1>0, <1>1, <1>6, <2>1, UpThere
  <2>3. UNCHANGED <<outbox, Returning, Answers>>
    BY <1>6 DEF ArriveThere, vars, udpVars, reactorVars, linkVars, Returning, Replying, Answers, Bound, Data, Coming, LastOf, UpTo
  <2>4. DownTo(b, k)'
    BY <1>1, <2>1, <2>3, DownRests
  <2>5. QED
    BY <1>2, <2>1, <2>2, <2>4
<1>7. ASSUME NEW i \in 1..Len(back), ArriveBack(i) PROVE Piped'
  <2>1. (E0' => E0) /\ (E1' => E1) /\ (E2' => E2) /\ (E3' => E3)
    BY <1>0, <1>7, FallsBack, FlagsFall
  <2>2. DownTo(b, k)'
    BY <1>0, <1>1, <1>7, <2>1, DownReturns
  <2>3. UNCHANGED <<sentUnits, Unanswered, Going, Held>>
    BY <1>7 DEF ArriveBack, clientVars, reactorVars, threadVars, cpOnlyVars, linkVars, esVars,
                Unanswered, Unread, Bound, Going, Data, Coming, LastOf, UpTo, Held, Buffered, Prefix
  <2>4. UpFrom(b)'
    BY <1>1, <2>1, <2>3, UpRests
  <2>5. QED
    BY <1>2, <2>1, <2>2, <2>4
<1>8. CASE UNCHANGED chainVars
  <2>1. UNCHANGED <<vars, there, back, cpIn, cpOut, cpBindings, linkVars, esVars>>
    BY <1>8 DEF chainVars, cpOnlyVars
  <2>2. UNCHANGED <<link, outbox, Returning, Answers>>
    BY <2>1 DEF vars, clientVars, udpVars, reactorVars, linkVars, Returning, Replying, Answers, Bound, Data, Coming, LastOf, UpTo
  <2>3. UNCHANGED <<sentUnits, Unanswered, Going, Held>>
    BY <2>1 DEF vars, clientVars, udpVars, threadVars, linkVars, esVars,
                Unanswered, Unread, Bound, Going, Data, Coming, LastOf, UpTo, Held, Buffered, Prefix
  <2>4. Falls
    BY <2>1, <2>2 DEF linkVars, esVars, Falls, Skipped, Gone, Left, Shut, Refused, Bound
  <2>5. (E0' => E0) /\ (E1' => E1) /\ (E2' => E2) /\ (E3' => E3)
    BY <2>4, FlagsFall
  <2>6. DownTo(b, k)' /\ UpFrom(b)'
    BY <1>1, <2>2, <2>3, <2>5, DownRests, UpRests
  <2>7. QED
    BY <1>2, <2>5, <2>6
<1>9. QED
  BY <1>3, <1>4, <1>5, <1>6, <1>7, <1>8, ChainSteps

LEMMA ChainedKept == ASSUME Setting, Chained, [ChainNext]_chainVars PROVE Chained'
BY PlacedKept, PipedKept DEF Chained

-----------------------------------------------------------------------------
(* The beginning *)

LEMMA NothingYet ==
    ASSUME NEW e, NEW f, NEW g, NEW h
    PROVE  Down(<<>>, <<>>, <<>>, 0, "between", e, f) /\ Up(<<>>, <<>>, <<>>, 0, 0, g, h)
<1>1. \A d : Carries(<<>>, 0, 0, d) /\ Framed(<<>>, "between", "between")
  BY DEF Carries, Framed, KindAt
<1>2. \A d : Echo(<<>>, 0, "between", 0, "between", d)
  BY <1>1, ContentEmpty DEF Echo
<1>3. 0 \in Nat /\ "between" \in Kinds
  BY DEF Kinds
<1>4. QED
  BY <1>1, <1>2, <1>3 DEF Down, Up

LEMMA StartsEmpty ==
    ASSUME Setting, ChainInit
    PROVE  Placed /\ DownTo(0, "between") /\ UpFrom(0)
<1>1. /\ Client \in Conns /\ \A S : <<>> \in Seq(S)
      /\ Init /\ there = <<>> /\ back = <<>>
  BY TheOne, EmptySeq DEF ChainInit
<1>2. /\ cpIn = <<>> /\ cpOut = <<>>
      /\ cpBindings = [k \in {Proxy} \cup {AnyZero} |-> None]
      /\ cpSender = [l \in Links |-> None]
      /\ cpLink = [l \in Links |-> "unused"]
      /\ cpToServer = [l \in Links |-> <<>>] /\ cpFromServer = [l \in Links |-> <<>>]
  BY DEF ChainInit, CP!Init, CP!Endpoints
<1>3. /\ esListening = TRUE /\ esTask = [l \in Links |-> "none"]
      /\ esTaken = [l \in Links |-> 0] /\ esChunk = [l \in Links |-> <<>>]
  BY DEF ChainInit, ES!ServerInit
<1>4. /\ outbox[Client] = <<>> /\ inbox[Client] = <<>> /\ sentUnits[Client] = 0 /\ task[Client] = "none"
      /\ toUdp = <<>> /\ fromUdp = <<>> /\ reply = <<>> /\ todo = {} /\ reactor = "select"
      /\ sessions = [k \in Keys |-> None]
  BY <1>1 DEF Init
<1>5. NearEnd
  <2>1. IInv
    BY <1>1, InitHolds
  <2>2. KeysInv
    BY <1>1 DEF Init, KeysInv, OwnKeys, ForwardingIsRegistered
  <2>3. OwnKey /\ ToSend
    BY <1>4 DEF OwnKey, ToSend
  <2>4. QED
    BY <2>1, <2>2, <2>3 DEF NearEnd
<1>6. HasLast(<<>>)
  BY DEF HasLast, UpTo
<1>7. Network
  BY <1>1, <1>2, <1>4, <1>6 DEF Network
<1>8. ReplyTypes
  BY <1>1, <1>4 DEF ReplyTypes
<1>9. Bound = None
  BY <1>2 DEF Bound
<1>10. FarEnd
  <2>1. FarTypes
    BY <1>1, <1>2, <1>3 DEF FarTypes
  <2>2. OneLink
    BY <1>2, <1>3, <1>9 DEF OneLink
  <2>3. EchoThreads
    BY <1>2, <1>3 DEF EchoThreads
  <2>4. QED
    BY <2>1, <2>2, <2>3 DEF FarEnd
<1>11. Nothing
  BY <1>2, <1>4, <1>9 DEF Nothing
<1>12. Placed
  BY <1>5, <1>7, <1>8, <1>10, <1>11 DEF Placed
<1>13. <<>> \o <<>> = <<>> /\ FlattenSeq(<<>>) = <<>> /\ Data(<<>>) = <<>> /\ Coming(<<>>, <<>>) = <<>>
  <2>1. <<>> \o <<>> = <<>>
    BY EmptySeq, ConcatEmptySeq
  <2>2. FlattenSeq(<<>>) = <<>>
    BY DEF FlattenSeq
  <2>3. Data(<<>>) = <<>>
    BY DEF Data
  <2>4. Coming(<<>>, <<>>) = <<>>
    <3>1. Coming(<<>>, <<>>) \in Seq({}) /\ \A s \in Seq({}) : s = <<>>
      <4>1. <<>> \in Seq(Nat) /\ <<>> \in Seq({}) /\ Len(<<>>) = Len(<<>>)
        BY EmptySeq
      <4>2. Coming(<<>>, <<>>) \in Seq({})
        BY <1>6, <4>1, ComingType
      <4>3. ASSUME NEW s \in Seq({}), s # <<>> PROVE FALSE
        BY <4>3, TakeFirst
      <4>4. QED
        BY <4>2, <4>3
    <3>2. QED
      BY <3>1
  <2>5. QED
    BY <2>1, <2>2, <2>3, <2>4
<1>14. Returning = <<>> /\ Answers = <<>>
  BY <1>1, <1>2, <1>4, <1>9, <1>13 DEF Returning, Replying, Answers
<1>15. Unanswered = <<>> /\ Going = <<>> /\ Held = <<>>
  BY <1>1, <1>2, <1>4, <1>9, <1>13 DEF Unanswered, Going, Held, Buffered
<1>16. DownTo(0, "between")
  BY <1>4, <1>14, NothingYet DEF DownTo
<1>17. UpFrom(0)
  BY <1>4, <1>15, NothingYet DEF UpFrom
<1>18. QED
  BY <1>12, <1>16, <1>17

LEMMA InitChained == ASSUME Setting, ChainInit PROVE Chained
BY StartsEmpty DEF Chained, Piped, Kinds

\* The inductive invariant holds in every state of a chain with one client, on a network
\* that may lose datagrams.
THEOREM ChainInvariant == ASSUME Setting PROVE ChainSpec => []Chained
<1>1. ChainInit => Chained
  BY InitChained
<1>2. Chained /\ [ChainNext]_chainVars => Chained'
  BY ChainedKept
<1>3. QED
  BY <1>1, <1>2, PTL DEF ChainSpec

-----------------------------------------------------------------------------
(* What the client is sent *)

\* What has been written to the client, as far as it is numbered, is behind what it has written.
OutIs(exact) ==
    /\ outbox[Client] \in Seq(ChainUnits)
    /\ \E m \in 0..sentUnits[Client], i \in Kinds : Echo(outbox[Client], 0, "between", m, i, exact)

LEMMA OutIsEcho == Setting /\ Chained => OutIs(E0) /\ sentUnits[Client] \in Nat
<1> SUFFICES ASSUME Setting, Chained PROVE OutIs(E0) /\ sentUnits[Client] \in Nat
  OBVIOUS
<1>1. NearEnd /\ ReplyTypes
  BY DEF Chained, Placed
<1>2. PICK s \in Nat : s = sentUnits[Client]
  BY <1>1, HeldPieces
<1>3. PICK b \in Nat, k \in Kinds : DownTo(b, k) /\ UpFrom(b)
  BY DEF Chained, Piped
<1>4. PICK m \in Nat, n \in Nat, i \in Kinds, j \in Kinds :
          /\ Echo(outbox[Client], 0, "between", m, i, E0)
          /\ Echo(Returning, m, i, n, j, E1) /\ Echo(Answers, n, j, b, k, E1)
  BY <1>3 DEF DownTo, Down
<1>5. m <= n /\ n <= b
  BY <1>4 DEF Echo, Carries
<1>6. PICK p \in Nat, q \in Nat : Carries(Unanswered, b, p, E2) /\ Carries(Going, p, q, E3) /\ Carries(Held, q, s, E3)
  BY <1>2, <1>3 DEF UpFrom, Up
<1>7. b <= p /\ p <= q /\ q <= s
  BY <1>6 DEF Carries
<1>8. m \in 0..s
  BY <1>5, <1>7
<1>9. QED
  BY <1>1, <1>2, <1>4, <1>8 DEF OutIs, ReplyTypes

\* The numbers a client has been sent are behind those it has written, and rise.
Rising(t, m) == /\ \A i \in 1..Len(t) : t[i] \in 1..m
                /\ \A i, j \in 1..Len(t) : i < j => t[i] < t[j]

LEMMA NumbersRise ==
    ASSUME NEW o \in Seq(ChainUnits), NEW s \in Nat, NEW m \in 0..s, NEW k, NEW i, NEW e, Echo(o, 0, k, m, i, e)
    PROVE  Rising(Numbers(o), s)
<1>1. PICK c \in Seq(ChainUnits) : c = Content(o)
  BY EmptySeq, ContentConcat
<1>2. Carries(c, 0, m, e)
  BY <1>1 DEF Echo
<1>3. Len(c) \in Nat /\ Numbers(o) = [n \in 1..Len(c) |-> c[n][2]]
  BY <1>1, LenProperties DEF Numbers
<1>4. PICK t : t = Numbers(o)
  OBVIOUS
<1>5. Len(t) = Len(c) /\ \A n \in 1..Len(c) : t[n] = c[n][2]
  BY <1>3, <1>4
<1>6. \A n \in 1..Len(c) : c[n][2] \in 1..s
  <2> TAKE n \in 1..Len(c)
  <2>1. c[n][2] \in 0 + 1 .. m
    BY <1>2 DEF Carries
  <2>2. QED
    BY <2>1
<1>7. \A n, j \in 1..Len(c) : n < j => c[n][2] < c[j][2]
  BY <1>2 DEF Carries
<1>8. Rising(t, s)
  BY <1>5, <1>6, <1>7 DEF Rising
<1>9. QED
  BY <1>4, <1>8

\* A client that is sent d gets its numbers behind those it has got.
LEMMA NumbersGrow ==
    ASSUME NEW o \in Seq(ChainUnits), NEW d \in Seq(ChainUnits)
    PROVE  /\ Len(Numbers(o)) \in Nat /\ Len(Numbers(o \o d)) \in Nat
           /\ SubSeq(Numbers(o \o d), 1, Len(Numbers(o))) = Numbers(o)
<1>1. PICK c \in Seq(ChainUnits), e \in Seq(ChainUnits) : c = Content(o) /\ e = Content(d)
  BY EmptySeq, ContentConcat
<1>2. PICK f \in Seq(ChainUnits) : f = c \o e /\ f = Content(o \o d)
  BY <1>1, ContentConcat, ConcatProperties
<1>3. /\ Len(c) \in Nat /\ Len(e) \in Nat /\ Len(f) = Len(c) + Len(e)
      /\ \A i \in 1..Len(c) : i \in 1..Len(f) /\ f[i] = c[i]
  <2>1. /\ Len(c) \in Nat /\ Len(e) \in Nat /\ Len(c \o e) = Len(c) + Len(e)
        /\ \A i \in 1..Len(c) : i \in 1..Len(c \o e) /\ (c \o e)[i] = c[i]
    BY ConcatParts
  <2>2. QED
    BY <1>2, <2>1
<1>4. PICK t, u : t = Numbers(o) /\ u = Numbers(o \o d)
  OBVIOUS
<1>5. t = [n \in 1..Len(c) |-> c[n][2]] /\ u = [n \in 1..Len(f) |-> f[n][2]]
  BY <1>1, <1>2, <1>4 DEF Numbers
<1>6. Len(t) = Len(c) /\ Len(u) = Len(f)
  BY <1>3, <1>5
<1>a. PICK S : S = {u[n] : n \in 1..Len(f)}
  OBVIOUS
<1>7. t \in Seq(S) /\ \A i \in 1..Len(c) : u[i] \in S /\ t[i] = u[i]
  <2>1. \A i \in 1..Len(c) : t[i] = u[i] /\ u[i] \in S
    BY <1>3, <1>5, <1>a
  <2>2. t \in [1..Len(c) -> S]
    BY <1>5, <2>1
  <2>3. t \in Seq(S)
    BY <1>3, <2>2, IsASeq
  <2>4. QED
    BY <2>1, <2>3
<1>8. SubSeq(u, 1, Len(c)) = t
  <2>1. 1 \in Int /\ Len(c) \in Int /\ \A i \in 1..Len(c) : u[i] \in S
    <3>1. 1 \in Int /\ Len(c) \in Int
      BY <1>3
    <3>2. \A i \in 1..Len(c) : u[i] \in S
      BY <1>7, Zenon
    <3>3. QED
      BY <3>1, <3>2, Zenon
  <2>2. PICK v : v = SubSeq(u, 1, Len(c))
    OBVIOUS
  <2>3. /\ v \in Seq(S) /\ Len(v) = IF 1 <= Len(c) THEN Len(c) - 1 + 1 ELSE 0
        /\ \A i \in 1 .. Len(c) - 1 + 1 : v[i] = u[1 + i - 1]
    BY <2>1, <2>2, SubSeqProperties
  <2>4. Len(c) - 1 + 1 = Len(c) /\ (~(1 <= Len(c)) => Len(c) = 0) /\ \A i \in 1..Len(c) : 1 + i - 1 = i
    BY <1>3
  <2>5. Len(v) = Len(t) /\ \A i \in 1..Len(t) : v[i] = t[i]
    BY <1>6, <1>7, <2>3, <2>4
  <2>6. QED
    BY <1>7, <2>2, <2>3, <2>5, SeqEqual
<1>9. QED
  BY <1>3, <1>4, <1>6, <1>8

\* A step lets the client write, or writes to it, or does neither.
LEMMA WritesOrIsSent ==
    ASSUME Setting, NearEnd, Near
    PROVE  UNCHANGED outbox \/ UNCHANGED sentUnits
<1>0. /\ Client \in Conns /\ \A c \in Conns : c = Client
      /\ TypeOK /\ OnePlace /\ sentUnits \in [Conns -> 0..MaxUnits]
  BY TheOne DEF NearEnd, IInv, TypeOK, ClientTypes
<1>1. ASSUME NEW c \in Conns, ClientSend(c) PROVE UNCHANGED outbox
  BY <1>1 DEF ClientSend
<1>2. ASSUME NEW c \in Conns, ClientClose(c) PROVE UNCHANGED sentUnits
  BY <1>2 DEF ClientClose
<1>3. ASSUME NEW c \in Conns, SessionThread(c) PROVE UNCHANGED sentUnits
  BY <1>3 DEF SessionThread, CheckCancelled, Read, ReadTimeout, ReadClosed, Forward, EraseBegins, EraseEnds, SessionStep, clientVars
<1>4. CASE ~\E c \in Conns : ClientSend(c) \/ ClientClose(c) \/ SessionThread(c)
  <2>1. Rests(Client)
    BY <1>0, <1>4, NearIsNext, OtherStepsRest
  <2>2. QED
    BY <2>1 DEF Rests
<1>5. QED
  BY <1>1, <1>2, <1>3, <1>4

\* What a step does to what the client has written and has been sent.
LEMMA OutGrows ==
    ASSUME Setting, Chained, [ChainNext]_chainVars
    PROVE  \/ UNCHANGED <<outbox[Client], sentUnits[Client]>>
           \/ UNCHANGED outbox[Client] /\ sentUnits'[Client] = sentUnits[Client] + 1
           \/ /\ UNCHANGED sentUnits[Client]
              /\ \E d \in Seq(ChainUnits) : outbox'[Client] = outbox[Client] \o d
<1>0. NearEnd /\ ReplyTypes /\ Nothing
  BY DEF Chained, Placed
<1>1. CASE Near
  <2>1. UNCHANGED outbox \/ \E n \in 0..Len(reply) : outbox' = [outbox EXCEPT ![Client] = @ \o Prefix(reply, n)]
    BY <1>0, <1>1, NearReplies
  <2>2. UNCHANGED sentUnits[Client] \/ sentUnits'[Client] = sentUnits[Client] + 1
    BY <1>0, <1>1, NearData
  <2>3. UNCHANGED outbox \/ UNCHANGED sentUnits
    BY <1>0, <1>1, WritesOrIsSent
  <2>4. ASSUME NEW n \in 0..Len(reply), outbox' = [outbox EXCEPT ![Client] = @ \o Prefix(reply, n)]
        PROVE  \E d \in Seq(ChainUnits) : outbox'[Client] = outbox[Client] \o d
    <3>1. reply \in Seq(ChainUnits)
      BY <1>0, PacketTypes, EmptySeq DEF ReplyTypes
    <3>2. PICK d \in Seq(ChainUnits) : d = Prefix(reply, n)
      BY <3>1, <2>4, PrefixType DEF Prefix
    <3>3. Client \in DOMAIN outbox
      BY <1>0, TheOne DEF NearEnd, IInv, TypeOK, ClientTypes
    <3>4. outbox'[Client] = outbox[Client] \o d
      BY <2>4, <3>2, <3>3
    <3>5. QED
      BY <3>4
  <2>5. QED
    BY <2>1, <2>2, <2>3, <2>4
<1>2. CASE UNCHANGED <<outbox, sentUnits>>
  BY <1>2
<1>3. Near \/ UNCHANGED <<outbox, sentUnits>>
  <2>1. AtServerProxy(Near) => Near
    BY DEF AtServerProxy
  <2>2. AtClientProxy(Far) \/ AtServer(Server) \/ (UNCHANGED chainVars) => UNCHANGED <<outbox, sentUnits>>
    BY DEF AtClientProxy, AtServer, chainVars, vars, clientVars
  <2>3. ASSUME NEW i, ArriveThere(i) PROVE UNCHANGED <<outbox, sentUnits>>
    BY <2>3 DEF ArriveThere, vars, clientVars
  <2>4. ASSUME NEW i, ArriveBack(i) PROVE UNCHANGED <<outbox, sentUnits>>
    BY <2>4 DEF ArriveBack, clientVars
  <2>5. QED
    BY <2>1, <2>2, <2>3, <2>4, ChainSteps
<1>4. QED
  BY <1>1, <1>2, <1>3

\* Every step is one of an ordered channel.
LEMMA RoundTripStep ==
    ASSUME Setting, Chained, Chained', [ChainNext]_chainVars
    PROVE  [RoundTrip!Send \/ RoundTrip!DeliverSome]_<<sentUnits[Client], Numbers(outbox[Client])>>
<1>0. sentUnits[Client] \in Nat /\ OutIs(E0)
  BY OutIsEcho
<1>1. (sentUnits[Client] \in Nat /\ OutIs(E0))'
  BY OutIsEcho, PTL
<1>2. CASE UNCHANGED <<outbox[Client], sentUnits[Client]>>
  BY <1>2 DEF Numbers, Content
<1>3. CASE UNCHANGED outbox[Client] /\ sentUnits'[Client] = sentUnits[Client] + 1
  <2>1. sentUnits'[Client] > sentUnits[Client]
    BY <1>0, <1>3
  <2>2. UNCHANGED Numbers(outbox[Client])
    BY <1>3 DEF Numbers, Content
  <2>3. QED
    BY <2>1, <2>2 DEF RoundTrip!Send
<1>4. ASSUME UNCHANGED sentUnits[Client], NEW d \in Seq(ChainUnits), outbox'[Client] = outbox[Client] \o d
      PROVE  [RoundTrip!Send \/ RoundTrip!DeliverSome]_<<sentUnits[Client], Numbers(outbox[Client])>>
  <2>1. PICK o \in Seq(ChainUnits), s \in Nat : o = outbox[Client] /\ s = sentUnits[Client]
    BY <1>0 DEF OutIs
  <2>2. PICK p \in Seq(ChainUnits) : p = o \o d /\ p = outbox'[Client]
    BY <1>4, <2>1, ConcatProperties
  <2>3. PICK t, u : t = Numbers(o) /\ u = Numbers(p)
    OBVIOUS
  <2>4. Len(t) \in Nat /\ Len(u) \in Nat /\ SubSeq(u, 1, Len(t)) = t
    BY <2>2, <2>3, NumbersGrow
  <2>5. PICK m \in 0..s, i \in Kinds : Echo(p, 0, "between", m, i, E0')
    BY <1>1, <1>4, <2>1, <2>2 DEF OutIs
  <2>6. Rising(u, s)
    BY <2>3, <2>5, NumbersRise
  <2>7. \A n \in Len(t) + 1 .. Len(u) : u[n] \in 1..s /\ (n = 1 \/ u[n - 1] < u[n])
    <3> TAKE n \in Len(t) + 1 .. Len(u)
    <3>1. n \in 1..Len(u) /\ (n = 1 \/ (n - 1 \in 1..Len(u) /\ n - 1 < n))
      BY <2>4
    <3>2. QED
      BY <2>6, <3>1 DEF Rising
  <2>8. Numbers(outbox[Client]) = t /\ Numbers(outbox[Client])' = u
    <3>1. Numbers(outbox[Client])' = Numbers(outbox'[Client])
      BY DEF Numbers, Content
    <3>2. QED
      BY <2>1, <2>2, <2>3, <3>1
  <2>9. CASE u = t
    BY <1>4, <2>8, <2>9
  <2>10. CASE u # t
    <3>1. RoundTrip!DeliverSome
      BY <1>4, <2>1, <2>4, <2>7, <2>8, <2>10 DEF RoundTrip!DeliverSome
    <3>2. QED
      BY <3>1
  <2>11. QED
    BY <2>9, <2>10
<1>5. QED
  BY <1>2, <1>3, <1>4, OutGrows

LEMMA RoundTripBegins == ASSUME Setting, ChainInit PROVE RoundTrip!Init
<1>1. Client \in Conns
  BY TheOne
<1>2. outbox[Client] = <<>> /\ sentUnits[Client] = 0
  BY <1>1 DEF ChainInit, Init
<1>3. Numbers(<<>>) = <<>>
  <2>1. Len(Content(<<>>)) = 0
    BY ContentEmpty
  <2>2. QED
    BY <2>1 DEF Numbers
<1>4. QED
  BY <1>2, <1>3 DEF RoundTrip!Init

\* From the client to the server and back the chain is an ordered channel that may lose, whatever
\* the reads have cut, the network and the calls of the server proxy and of the server have
\* lost, and whoever closes or is stopped: what the client is sent are units it has written, each at most once and in their order.
THEOREM RoundTripIsAlwaysOrdered == ASSUME Setting PROVE ChainSpec => RoundTripIsOrdered
<1>1. ChainInit => RoundTrip!Init
  BY RoundTripBegins
<1>2. Chained /\ Chained' /\ [ChainNext]_chainVars
        => [RoundTrip!Send \/ RoundTrip!DeliverSome]_<<sentUnits[Client], Numbers(outbox[Client])>>
  BY RoundTripStep
<1>3. QED
  BY <1>1, <1>2, ChainInvariant, PTL DEF ChainSpec, RoundTripIsOrdered, RoundTrip!RelaySpec

\* A stream without a gap, in whole frames.
LEMMA WholeFrames ==
    ASSUME NEW o \in Seq(ChainUnits), NEW m \in Nat, NEW i, Echo(o, 0, "between", m, i, TRUE)
    PROVE  /\ Content(o) = [n \in 1..Len(Content(o)) |-> <<Client, n>>]
           /\ \A n \in 1..Len(o) :
                /\ o[n] = Opening <=> n = 1 \/ o[n - 1] = Closing
                /\ o[n] = Closing => ~IsMark(o[n - 1])
<1>1. PICK c \in Seq(ChainUnits) : c = Content(o)
  BY EmptySeq, ContentConcat
<1>2. Carries(c, 0, m, TRUE) /\ Framed(o, "between", i)
  BY <1>1 DEF Echo
<1>3. Len(c) \in Nat /\ c = [n \in 1..Len(c) |-> c[n]]
  BY LenProperties
<1>4. \A n \in 1..Len(c) : c[n] = <<Client, n>>
  <2> TAKE n \in 1..Len(c)
  <2>1. c[n] = <<Client, c[n][2]>> /\ c[n][2] = 0 + n
    BY <1>2 DEF Carries
  <2>2. QED
    BY <2>1
<1>5. c = [n \in 1..Len(c) |-> <<Client, n>>]
  BY <1>3, <1>4
<1>6. Opening # Closing
  BY DEF Opening, Closing
<1>7. ASSUME NEW n \in 1..Len(o)
      PROVE  /\ o[n] = Opening <=> n = 1 \/ o[n - 1] = Closing
             /\ o[n] = Closing => ~IsMark(o[n - 1])
  <2>1. Follows(KindAt(o, "between", n - 1), o[n])
    BY <1>2 DEF Framed
  <2>2. KindAt(o, "between", n - 1) = IF n = 1 THEN "between" ELSE KindOf(o[n - 1])
    <3>1. n - 1 = 0 <=> n = 1
      OBVIOUS
    <3>2. QED
      BY <3>1 DEF KindAt
  <2>3. /\ KindOf(o[n - 1]) = "between" <=> o[n - 1] = Closing
        /\ KindOf(o[n - 1]) = "within" <=> ~IsMark(o[n - 1])
    BY <1>6 DEF KindOf, IsMark
  <2>4. QED
    BY <2>1, <2>2, <2>3 DEF Follows
<1>8. QED
  BY <1>1, <1>5, <1>7

\* If nothing has been lost, what the client has been sent is the beginning of a row of whole,
\* non-empty "echo [...]" that hold what it has written, from its first unit on, however the
\* reads of the server and of both proxies have cut it - for writes that are not partial and
\* datagrams that are sent and received whole.
THEOREM EchoIsAlwaysFramed == ASSUME Setting, Clean PROVE ChainSpec => []EchoIsFramed
<1>1. Chained => EchoIsFramed
  <2> SUFFICES ASSUME Chained, Lossless, NEW c \in Conns
               PROVE  /\ Content(outbox[c]) = [i \in 1..Len(Content(outbox[c])) |-> <<c, i>>]
                      /\ \A i \in 1..Len(outbox[c]) :
                           /\ outbox[c][i] = Opening <=> i = 1 \/ outbox[c][i - 1] = Closing
                           /\ outbox[c][i] = Closing => ~IsMark(outbox[c][i - 1])
    BY DEF EchoIsFramed
  <2>1. OutIs(E0) /\ sentUnits[Client] \in Nat
    BY OutIsEcho
  <2>2. E0 = TRUE
    BY DEF E0
  <2>3. PICK o \in Seq(ChainUnits), m \in 0..sentUnits[Client], i \in Kinds :
            o = outbox[Client] /\ Echo(o, 0, "between", m, i, TRUE)
    BY <2>1, <2>2 DEF OutIs
  <2>4. m \in Nat
    BY <2>1
  <2>5. c = Client
    BY TheOne
  <2>6. QED
    BY <2>3, <2>4, <2>5, WholeFrames
<1>2. QED
  BY <1>1, ChainInvariant, PTL
=============================================================================
