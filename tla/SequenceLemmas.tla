--------------------------- MODULE SequenceLemmas ---------------------------
(***************************************************************************)
(* Facts about sequences and induction that the proofs about the page's    *)
(* lists and the parser need.                                              *)
(***************************************************************************)
EXTENDS Filtering, SequencesExt, FiniteSetTheorems, SequenceTheorems, TLAPS

-----------------------------------------------------------------------------
(* Induction.  A property is given as the set of the numbers that have it.    *)

\* A set of natural numbers that is not empty has a least element.
LEMMA Least ==
    ASSUME NEW S \in SUBSET Nat, S # {}
    PROVE  \E m \in S : \A n \in S : m <= n
<1> DEFINE T == {1 .. n : n \in S}
<1>1. T \subseteq FiniteSubsetsOf(Nat) /\ T # {}
  <2>1. \A n \in S : 1 .. n \in SUBSET Nat /\ IsFiniteSet(1 .. n)
    BY FS_Interval
  <2> QED BY <2>1 DEF FiniteSubsetsOf
<1>2. PICK x \in T : \A y \in T : <<y, x>> \notin StrictSubsetOrdering(Nat)
  <2> HIDE DEF T
  <2> QED BY <1>1, FS_StrictSubsetOrderingWellFounded, WFMin
<1>3. PICK m \in S : x = 1 .. m
  OBVIOUS
<1>4. ASSUME NEW n \in S PROVE m <= n
  <2> SUFFICES ASSUME n < m PROVE FALSE
    OBVIOUS
  <2>1. 1 .. n \subseteq 1 .. m /\ m \in 1 .. m /\ m \notin 1 .. n
    OBVIOUS
  <2>2. <<1 .. n, x>> \in StrictSubsetOrdering(Nat)
    BY <1>3, <2>1 DEF StrictSubsetOrdering
  <2> QED BY <1>2, <2>2
<1> QED BY <1>4

\* What holds of 0, and of a number's successor with the number, holds of all.
LEMMA Induction ==
    ASSUME NEW S, 0 \in S, \A n \in Nat : n \in S => n + 1 \in S
    PROVE  Nat \subseteq S
<1> SUFFICES ASSUME Nat \ S # {} PROVE FALSE
  OBVIOUS
<1>1. PICK m \in Nat \ S : \A n \in Nat \ S : m <= n
  BY Least
<1>2. m # 0
  OBVIOUS
<1>3. m - 1 \in Nat /\ m - 1 \in S
  BY <1>1, <1>2
<1> QED BY <1>3

-----------------------------------------------------------------------------
(* Sequences of anything *)

IsSequence(s) == s \in Seq({s[i] : i \in DOMAIN s})

LEMMA SequenceBasics ==
    ASSUME NEW s, IsSequence(s)
    PROVE  Len(s) \in Nat /\ DOMAIN s = 1 .. Len(s)
BY LenProperties DEF IsSequence

LEMMA MembersMakeSequence ==
    ASSUME NEW S, NEW s \in Seq(S)
    PROVE  IsSequence(s)
<1> DEFINE T == {s[i] : i \in DOMAIN s}
<1>1. Len(s) \in Nat /\ DOMAIN s = 1 .. Len(s) /\ s \in [1 .. Len(s) -> S]
  BY LenProperties
<1>2. s \in [1 .. Len(s) -> T]
  BY <1>1
<1>3. s \in Seq(T)
  BY <1>1, <1>2
<1> QED BY <1>3 DEF IsSequence

LEMMA EmptyIsSequence == IsSequence(<< >>)
BY MembersMakeSequence, EmptySeq

LEMMA AppendToSequence ==
    ASSUME NEW s, IsSequence(s), NEW e
    PROVE  /\ IsSequence(Append(s, e))
           /\ Len(Append(s, e)) = Len(s) + 1
           /\ DOMAIN Append(s, e) = 1 .. Len(s) + 1
           /\ \A i \in DOMAIN s : Append(s, e)[i] = s[i]
           /\ Append(s, e)[Len(s) + 1] = e
<1> DEFINE T == {s[i] : i \in DOMAIN s} \cup {e}
<1>1. s \in [1 .. Len(s) -> T] /\ Len(s) \in Nat
  BY LenProperties DEF IsSequence
<1>2. s \in Seq(T)
  BY <1>1
<1>3. e \in T
  OBVIOUS
<1> HIDE DEF T
<1>4. Append(s, e) \in Seq(T) /\ Len(Append(s, e)) = Len(s) + 1
      /\ (\A i \in 1 .. Len(s) : Append(s, e)[i] = s[i]) /\ Append(s, e)[Len(s) + 1] = e
  BY <1>2, <1>3, AppendProperties
<1>5. IsSequence(Append(s, e))
  BY <1>4, MembersMakeSequence
<1> QED BY <1>4, <1>5, SequenceBasics

LEMMA ReplacedInSequence ==
    ASSUME NEW s, IsSequence(s), NEW r, DOMAIN r = DOMAIN s, r = [i \in DOMAIN r |-> r[i]]
    PROVE  IsSequence(r)
<1> DEFINE T == {r[i] : i \in DOMAIN r}
<1>1. Len(s) \in Nat /\ DOMAIN r = 1 .. Len(s)
  BY SequenceBasics
<1>2. r \in [1 .. Len(s) -> T]
  BY <1>1
<1>3. r \in Seq(T)
  BY <1>1, <1>2
<1> QED BY <1>3, MembersMakeSequence

LEMMA TailOfSequence ==
    ASSUME NEW s, IsSequence(s), s # << >>
    PROVE  /\ IsSequence(Tail(s)) /\ Len(Tail(s)) = Len(s) - 1
           /\ \A i \in DOMAIN Tail(s) : i + 1 \in DOMAIN s /\ Tail(s)[i] = s[i + 1]
           /\ 1 \in DOMAIN s /\ Head(s) = s[1]
<1> DEFINE T == {s[i] : i \in DOMAIN s}
<1>1. s \in Seq(T)
  BY DEF IsSequence
<1> HIDE DEF T
<1>2. /\ Tail(s) \in Seq(T) /\ Len(Tail(s)) = Len(s) - 1
      /\ \A i \in 1 .. Len(Tail(s)) : Tail(s)[i] = s[i + 1]
  BY <1>1, HeadTailProperties
<1>3. IsSequence(Tail(s))
  BY <1>2, MembersMakeSequence
<1>4. Len(s) # 0
  BY <1>1, EmptySeq
<1> QED BY <1>2, <1>3, <1>4, SequenceBasics

LEMMA EndOfSequence ==
    ASSUME NEW s, IsSequence(s), NEW i \in DOMAIN s
    PROVE  LET rest == SubSeq(s, i + 1, Len(s)) IN
           /\ IsSequence(rest)
           /\ \A j \in DOMAIN rest : i + j \in DOMAIN s /\ rest[j] = s[i + j]
<1> DEFINE T == {s[k] : k \in DOMAIN s}
           rest == SubSeq(s, i + 1, Len(s))
<1>1. Len(s) \in Nat /\ DOMAIN s = 1 .. Len(s)
  BY SequenceBasics
<1>2. \A k \in i + 1 .. Len(s) : s[k] \in T
  BY <1>1
<1> HIDE DEF T
<1>3. /\ rest \in Seq(T)
      /\ Len(rest) = IF i + 1 <= Len(s) THEN Len(s) - (i + 1) + 1 ELSE 0
      /\ \A j \in 1 .. Len(s) - (i + 1) + 1 : rest[j] = s[i + 1 + j - 1]
  BY <1>1, <1>2, SubSeqProperties
<1> HIDE DEF rest
<1>4. IsSequence(rest)
  BY <1>3, MembersMakeSequence
<1>5. DOMAIN rest = 1 .. Len(rest)
  BY <1>4, SequenceBasics
<1>6. ASSUME NEW j \in DOMAIN rest PROVE i + j \in DOMAIN s /\ rest[j] = s[i + j]
  <2>1. i \in Nat /\ j \in Nat /\ 1 <= j /\ j <= Len(s) - (i + 1) + 1
    BY <1>1, <1>3, <1>5
  <2>2. i + 1 + j - 1 = i + j /\ i + j \in 1 .. Len(s)
    BY <1>1, <2>1
  <2> QED BY <1>1, <1>3, <2>1, <2>2
<1> QED BY <1>4, <1>6 DEF rest

\* Two sequences with the same elements at the same places are the same.
LEMMA SameSequence ==
    ASSUME NEW s, IsSequence(s), NEW r, IsSequence(r), DOMAIN s = DOMAIN r,
           \A i \in DOMAIN s : s[i] = r[i]
    PROVE  s = r
<1>1. s = [i \in DOMAIN s |-> s[i]] /\ r = [i \in DOMAIN r |-> r[i]]
  <2>1. \A q : IsSequence(q) => q = [i \in DOMAIN q |-> q[i]]
    <3> TAKE q
    <3> DEFINE T == {q[i] : i \in DOMAIN q}
    <3> SUFFICES ASSUME q \in Seq(T) PROVE q = [i \in DOMAIN q |-> q[i]]
      BY DEF IsSequence
    <3> HIDE DEF T
    <3>1. q \in [1 .. Len(q) -> T]
      BY LenProperties
    <3> QED BY <3>1
  <2> QED BY <2>1
<1> QED BY <1>1

LEMMA PartOfSequence ==
    ASSUME NEW s, IsSequence(s), NEW a \in Nat \ {0}, NEW b \in Nat, b <= Len(s), a <= b + 1
    PROVE  LET part == SubSeq(s, a, b) IN
           /\ IsSequence(part) /\ Len(part) = b - a + 1 /\ DOMAIN part = 1 .. b - a + 1
           /\ \A j \in 1 .. b - a + 1 : part[j] = s[a - 1 + j]
<1> DEFINE T == {s[k] : k \in DOMAIN s}
           part == SubSeq(s, a, b)
<1>1. Len(s) \in Nat /\ DOMAIN s = 1 .. Len(s)
  BY SequenceBasics
<1>2. \A k \in a .. b : s[k] \in T
  BY <1>1
<1> HIDE DEF T
<1>3. /\ part \in Seq(T) /\ Len(part) = IF a <= b THEN b - a + 1 ELSE 0
      /\ \A j \in 1 .. b - a + 1 : part[j] = s[a + j - 1]
  BY <1>2, SubSeqProperties
<1> HIDE DEF part
<1>4. IsSequence(part) /\ Len(part) = b - a + 1
  BY <1>3, MembersMakeSequence
<1>5. DOMAIN part = 1 .. b - a + 1
  BY <1>4, SequenceBasics
<1>6. \A j \in 1 .. b - a + 1 : a + j - 1 = a - 1 + j
  OBVIOUS
<1> QED BY <1>3, <1>4, <1>5, <1>6 DEF part

LEMMA JoinedSequences ==
    ASSUME NEW s, IsSequence(s), NEW t, IsSequence(t)
    PROVE  /\ IsSequence(s \o t) /\ Len(s \o t) = Len(s) + Len(t)
           /\ DOMAIN (s \o t) = 1 .. Len(s) + Len(t)
           /\ \A i \in 1 .. Len(s) : (s \o t)[i] = s[i]
           /\ \A i \in 1 .. Len(t) : (s \o t)[Len(s) + i] = t[i]
<1> DEFINE T == {s[k] : k \in DOMAIN s} \cup {t[k] : k \in DOMAIN t}
           joined == s \o t
<1>1. Len(s) \in Nat /\ Len(t) \in Nat /\ DOMAIN s = 1 .. Len(s) /\ DOMAIN t = 1 .. Len(t)
  BY SequenceBasics
<1>2. s \in Seq(T) /\ t \in Seq(T)
  <2>1. s \in [1 .. Len(s) -> T] /\ t \in [1 .. Len(t) -> T]
    <3>1. /\ s \in Seq({s[k] : k \in DOMAIN s}) /\ t \in Seq({t[k] : k \in DOMAIN t})
      BY DEF IsSequence
    <3>2. /\ s \in [1 .. Len(s) -> {s[k] : k \in DOMAIN s}]
          /\ t \in [1 .. Len(t) -> {t[k] : k \in DOMAIN t}]
      BY <3>1, LenProperties
    <3> QED BY <3>2
  <2> QED BY <1>1, <2>1
<1> HIDE DEF T
<1>3. /\ joined \in Seq(T) /\ Len(joined) = Len(s) + Len(t)
      /\ \A i \in 1 .. Len(s) + Len(t) : joined[i] = IF i <= Len(s) THEN s[i] ELSE t[i - Len(s)]
  BY <1>2, ConcatProperties
<1> HIDE DEF joined
<1>4. IsSequence(joined) /\ DOMAIN joined = 1 .. Len(s) + Len(t)
  BY <1>3, MembersMakeSequence, SequenceBasics
<1>5. \A i \in 1 .. Len(s) : joined[i] = s[i]
  BY <1>1, <1>3
<1>6. ASSUME NEW i \in 1 .. Len(t) PROVE joined[Len(s) + i] = t[i]
  <2>1. Len(s) + i \in 1 .. Len(s) + Len(t) /\ ~(Len(s) + i <= Len(s)) /\ Len(s) + i - Len(s) = i
    BY <1>1
  <2> QED BY <1>3, <2>1
<1> QED BY <1>3, <1>4, <1>5, <1>6 DEF joined

\* Short tuples.
LEMMA TuplesAreSequences ==
    /\ \A x : IsSequence(<<x>>) /\ Len(<<x>>) = 1
    /\ \A x, y : IsSequence(<<x, y>>) /\ Len(<<x, y>>) = 2
    /\ \A x : Append(<< >>, x) = <<x>>
    /\ \A x, y : Append(<<x>>, y) = <<x, y>>
<1>1. ASSUME NEW x PROVE IsSequence(<<x>>) /\ Len(<<x>>) = 1
  <2>1. <<x>> \in Seq({x})
    OBVIOUS
  <2> QED BY <2>1, MembersMakeSequence
<1>2. ASSUME NEW x, NEW y PROVE IsSequence(<<x, y>>) /\ Len(<<x, y>>) = 2
  <2>1. <<x, y>> \in Seq({x, y})
    OBVIOUS
  <2> QED BY <2>1, MembersMakeSequence
<1>3. ASSUME NEW x PROVE Append(<< >>, x) = <<x>>
  OBVIOUS
<1>4. ASSUME NEW x, NEW y PROVE Append(<<x>>, y) = <<x, y>>
  <2> DEFINE u == Append(<<x>>, y)
  <2>1. IsSequence(u) /\ DOMAIN u = 1 .. 2 /\ u[1] = x /\ u[2] = y
    <3>1. /\ IsSequence(u) /\ DOMAIN u = 1 .. Len(<<x>>) + 1 /\ u[Len(<<x>>) + 1] = y
          /\ \A i \in DOMAIN <<x>> : u[i] = <<x>>[i]
      BY <1>1, AppendToSequence
    <3>2. 1 \in DOMAIN <<x>> /\ <<x>>[1] = x
      OBVIOUS
    <3> HIDE DEF u
    <3> QED BY <1>1, <3>1, <3>2
  <2>2. DOMAIN <<x, y>> = 1 .. 2 /\ <<x, y>>[1] = x /\ <<x, y>>[2] = y
    OBVIOUS
  <2> HIDE DEF u
  <2>3. \A i \in DOMAIN u : u[i] = <<x, y>>[i]
    BY <2>1, <2>2
  <2>4. u = <<x, y>>
    BY <1>2, <2>1, <2>2, <2>3, SameSequence
  <2> QED BY <2>4 DEF u
<1> QED BY <1>1, <1>2, <1>3, <1>4

\* Joining is associative.
LEMMA JoinedTwice ==
    ASSUME NEW a, IsSequence(a), NEW b, IsSequence(b), NEW c, IsSequence(c),
           NEW s, s = a \o b, NEW t, t = b \o c
    PROVE  s \o c = a \o t
<1> DEFINE u == s \o c
           v == a \o t
<1>1. /\ Len(a) \in Nat /\ Len(b) \in Nat /\ Len(c) \in Nat
      /\ IsSequence(s) /\ Len(s) = Len(a) + Len(b)
      /\ IsSequence(t) /\ Len(t) = Len(b) + Len(c)
      /\ \A k \in 1 .. Len(a) : s[k] = a[k]
      /\ \A k \in 1 .. Len(b) : s[Len(a) + k] = b[k]
      /\ \A k \in 1 .. Len(b) : t[k] = b[k]
      /\ \A k \in 1 .. Len(c) : t[Len(b) + k] = c[k]
  <2>1. Len(a) \in Nat /\ Len(b) \in Nat /\ Len(c) \in Nat
    BY SequenceBasics
  <2>2. /\ IsSequence(s) /\ Len(s) = Len(a) + Len(b)
        /\ \A k \in 1 .. Len(a) : s[k] = a[k]
        /\ \A k \in 1 .. Len(b) : s[Len(a) + k] = b[k]
    BY JoinedSequences
  <2>3. /\ IsSequence(t) /\ Len(t) = Len(b) + Len(c)
        /\ \A k \in 1 .. Len(b) : t[k] = b[k]
        /\ \A k \in 1 .. Len(c) : t[Len(b) + k] = c[k]
    BY JoinedSequences
  <2> QED BY <2>1, <2>2, <2>3
<1>6. IsSequence(s) /\ IsSequence(t)
  BY <1>1
<1>2. /\ IsSequence(u) /\ DOMAIN u = 1 .. Len(s) + Len(c)
      /\ IsSequence(v) /\ DOMAIN v = 1 .. Len(a) + Len(t)
      /\ \A k \in 1 .. Len(s) : u[k] = s[k]
      /\ \A k \in 1 .. Len(c) : u[Len(s) + k] = c[k]
      /\ \A k \in 1 .. Len(a) : v[k] = a[k]
      /\ \A k \in 1 .. Len(t) : v[Len(a) + k] = t[k]
  <2>1. /\ IsSequence(u) /\ DOMAIN u = 1 .. Len(s) + Len(c)
        /\ \A k \in 1 .. Len(s) : u[k] = s[k]
        /\ \A k \in 1 .. Len(c) : u[Len(s) + k] = c[k]
    BY <1>6, JoinedSequences
  <2>2. /\ IsSequence(v) /\ DOMAIN v = 1 .. Len(a) + Len(t)
        /\ \A k \in 1 .. Len(a) : v[k] = a[k]
        /\ \A k \in 1 .. Len(t) : v[Len(a) + k] = t[k]
    BY <1>6, JoinedSequences
  <2> HIDE DEF u, v
  <2> QED BY <2>1, <2>2
<1> HIDE DEF u, v
<1>3. ASSUME NEW k \in DOMAIN u PROVE u[k] = v[k]
  <2>1. CASE k <= Len(a)
    <3>1. k \in 1 .. Len(a) /\ k \in 1 .. Len(s)
      BY <1>1, <1>2, <2>1
    <3> QED BY <1>1, <1>2, <3>1
  <2>2. CASE ~(k <= Len(a)) /\ k <= Len(a) + Len(b)
    <3>1. PICK j \in 1 .. Len(b) : k = Len(a) + j
      <4>1. k - Len(a) \in 1 .. Len(b) /\ k = Len(a) + (k - Len(a))
        <5>1. k \in 1 .. Len(s) + Len(c) /\ Len(a) \in Nat /\ Len(b) \in Nat /\ Len(c) \in Nat
              /\ Len(s) = Len(a) + Len(b)
          BY <1>1, <1>2
        <5> QED BY <5>1, <2>2
      <4> QED BY <4>1
    <3>2. k \in 1 .. Len(s) /\ j \in 1 .. Len(t)
      BY <1>1, <1>2, <2>2
    <3>3. u[k] = s[Len(a) + j] /\ v[k] = t[j]
      BY <1>2, <3>1, <3>2
    <3> QED BY <1>1, <3>1, <3>3
  <2>3. CASE ~(k <= Len(a) + Len(b))
    <3>1. PICK j \in 1 .. Len(c) : k = Len(a) + Len(b) + j
      <4>1. k - (Len(a) + Len(b)) \in 1 .. Len(c) /\ k = Len(a) + Len(b) + (k - (Len(a) + Len(b)))
        BY <1>1, <1>2, <2>3
      <4> QED BY <4>1
    <3>2. Len(b) + j \in 1 .. Len(t) /\ k = Len(s) + j /\ k = Len(a) + (Len(b) + j)
      BY <1>1, <3>1
    <3>3. u[k] = c[j] /\ v[k] = t[Len(b) + j]
      BY <1>2, <3>1, <3>2
    <3> QED BY <1>1, <3>1, <3>3
  <2> QED BY <2>1, <2>2, <2>3
<1>4. DOMAIN u = DOMAIN v
  BY <1>1, <1>2
<1>5. u = v
  BY <1>2, <1>3, <1>4, SameSequence
<1> QED BY <1>5 DEF u, v

\* The first member.
LEMMA FirstOfSequence ==
    ASSUME NEW s, IsSequence(s), Len(s) \in Nat \ {0}
    PROVE  SubSeq(s, 1, 1) = <<s[1]>>
<1> DEFINE part == SubSeq(s, 1, 1)
<1>1. IsSequence(part) /\ DOMAIN part = 1 .. 1 - 1 + 1 /\ \A j \in 1 .. 1 - 1 + 1 : part[j] = s[1 - 1 + j]
  BY PartOfSequence
<1> HIDE DEF part
<1>2. DOMAIN part = 1 .. 1 /\ part[1] = s[1] /\ \A j \in 1 .. 1 : j = 1
  BY <1>1
<1>3. DOMAIN <<s[1]>> = 1 .. 1 /\ <<s[1]>>[1] = s[1] /\ IsSequence(<<s[1]>>)
  BY TuplesAreSequences
<1>4. \A j \in DOMAIN part : part[j] = <<s[1]>>[j]
  BY <1>2, <1>3
<1>5. part = <<s[1]>>
  BY <1>1, <1>2, <1>3, <1>4, SameSequence
<1> QED BY <1>5 DEF part

-----------------------------------------------------------------------------
(* Picking positions *)

Rank(P, i) == Cardinality({j \in P : j <= i})

\* The ranks of the positions are their numbers from 1 on, in order.
LEMMA Ranks ==
    ASSUME NEW P \in SUBSET Nat, IsFiniteSet(P)
    PROVE  /\ Cardinality(P) \in Nat
           /\ \A i \in P : Rank(P, i) \in 1 .. Cardinality(P)
           /\ \A i, k \in P : i < k => Rank(P, i) < Rank(P, k)
<1> DEFINE Below(i) == {j \in P : j <= i}
<1>1. Cardinality(P) \in Nat
  BY FS_CardinalityType
<1>2. ASSUME NEW i \in P
      PROVE  /\ IsFiniteSet(Below(i)) /\ Cardinality(Below(i)) \in Nat
             /\ Cardinality(Below(i)) <= Cardinality(P) /\ Cardinality(Below(i)) # 0
  <2>1. Below(i) \in SUBSET P /\ i \in Below(i)
    OBVIOUS
  <2> HIDE DEF Below
  <2>2. IsFiniteSet(Below(i)) /\ Cardinality(Below(i)) <= Cardinality(P)
    BY <2>1, FS_Subset
  <2> QED BY <2>1, <2>2, FS_CardinalityType, FS_EmptySet
<1>3. ASSUME NEW i \in P, NEW k \in P, i < k
      PROVE  Cardinality(Below(i)) < Cardinality(Below(k))
  <2>1. Below(i) \in SUBSET Below(k) /\ k \in Below(k) /\ k \notin Below(i)
    <3>1. i \in Nat /\ k \in Nat /\ k <= k /\ ~(k <= i)
      BY <1>3
    <3>2. \A j \in P : j <= i => j <= k
      BY <1>3, <3>1
    <3> QED BY <3>1, <3>2
  <2> HIDE DEF Below
  <2>2. /\ Cardinality(Below(i)) <= Cardinality(Below(k))
        /\ Cardinality(Below(i)) # Cardinality(Below(k))
    BY <1>2, <2>1, FS_Subset
  <2> QED BY <1>2, <2>2
<1> QED BY <1>1, <1>2, <1>3 DEF Rank

\* Every number has its position, every position its number.
LEMMA Numbered ==
    ASSUME NEW P \in SUBSET Nat, IsFiniteSet(P)
    PROVE  /\ \A n \in 1 .. Cardinality(P) : Nth(P, n) \in P /\ Rank(P, Nth(P, n)) = n
           /\ \A i \in P : Nth(P, Rank(P, i)) = i
<1> DEFINE N == 1 .. Cardinality(P)
           f == [i \in P |-> Rank(P, i)]
<1>1. Cardinality(P) \in Nat /\ IsFiniteSet(N) /\ Cardinality(N) = Cardinality(P)
  BY Ranks, FS_Interval
<1>2. \A i, k \in P : Rank(P, i) = Rank(P, k) => i = k
  <2> TAKE i, k \in P
  <2>1. i \in Nat /\ k \in Nat /\ Rank(P, i) \in Nat /\ Rank(P, k) \in Nat
    BY Ranks
  <2> QED BY <2>1, Ranks
<1>3. f \in Injection(P, N)
  BY <1>2, Ranks DEF Injection, IsInjective
<1>4. f \in Surjection(P, N)
  <2> HIDE DEF f, N
  <2> QED BY <1>1, <1>3, FS_Injection
<1>5. \A n \in N : \E i \in P : Rank(P, i) = n
  BY <1>4 DEF Surjection
<1>6. \A n \in N : Nth(P, n) \in P /\ Rank(P, Nth(P, n)) = n
  BY <1>5 DEF Nth, Rank
<1>7. \A i \in P : Nth(P, Rank(P, i)) = i
  BY <1>2, <1>6, Ranks
<1> QED BY <1>6, <1>7

\* What is picked is a sequence of what stands at the positions, in its order.
LEMMA Picked ==
    ASSUME NEW s, IsSequence(s), NEW P \in SUBSET DOMAIN s
    PROVE  /\ IsSequence(Pick(s, P)) /\ Len(Pick(s, P)) = Cardinality(P)
           /\ Len(Pick(s, P)) <= Len(s) /\ (P # DOMAIN s => Len(Pick(s, P)) < Len(s))
           /\ \A n \in DOMAIN Pick(s, P) : Nth(P, n) \in P /\ Pick(s, P)[n] = s[Nth(P, n)]
           /\ \A i \in P : \E n \in DOMAIN Pick(s, P) : Nth(P, n) = i
           /\ \A m, n \in DOMAIN Pick(s, P) : m < n => Nth(P, m) < Nth(P, n)
<1> DEFINE N == 1 .. Cardinality(P)
           T == {s[i] : i \in DOMAIN s}
<1>1. /\ Len(s) \in Nat /\ DOMAIN s = 1 .. Len(s)
      /\ IsFiniteSet(DOMAIN s) /\ Cardinality(DOMAIN s) = Len(s)
  <2>1. Len(s) \in Nat /\ DOMAIN s = 1 .. Len(s)
    BY SequenceBasics
  <2>2. /\ IsFiniteSet(1 .. Len(s))
        /\ Cardinality(1 .. Len(s)) = IF 1 > Len(s) THEN 0 ELSE Len(s) - 1 + 1
    BY <2>1, FS_Interval
  <2> QED BY <2>1, <2>2
<1>2. /\ P \in SUBSET Nat /\ IsFiniteSet(P) /\ Cardinality(P) \in Nat
      /\ Cardinality(P) <= Len(s) /\ (P # DOMAIN s => Cardinality(P) # Len(s))
  BY <1>1, FS_Subset, FS_CardinalityType
<1>3. /\ \A n \in N : Nth(P, n) \in P /\ Rank(P, Nth(P, n)) = n
      /\ \A i \in P : Rank(P, i) \in N /\ Nth(P, Rank(P, i)) = i
  BY <1>2, Numbered, Ranks
<1>4. Pick(s, P) \in [N -> T]
  <2>1. \A n \in N : s[Nth(P, n)] \in T
    BY <1>3
  <2> QED BY <2>1 DEF Pick
<1>5. Pick(s, P) \in Seq(T)
  <2> HIDE DEF T
  <2> QED BY <1>2, <1>4
<1>6. /\ IsSequence(Pick(s, P)) /\ DOMAIN Pick(s, P) = N
      /\ Len(Pick(s, P)) = Cardinality(P)
  <2> HIDE DEF T
  <2>1. IsSequence(Pick(s, P)) /\ DOMAIN Pick(s, P) = N
    BY <1>4, <1>5, MembersMakeSequence
  <2>2. Len(Pick(s, P)) \in Nat /\ 1 .. Len(Pick(s, P)) = 1 .. Cardinality(P)
    BY <2>1, SequenceBasics
  <2> QED BY <1>2, <2>1, <2>2
<1>7. ASSUME NEW m \in N, NEW n \in N, m < n PROVE Nth(P, m) < Nth(P, n)
  <2>1. Nth(P, m) \in Nat /\ Nth(P, n) \in Nat
    BY <1>2, <1>3
  <2>2. CASE Nth(P, n) < Nth(P, m)
    <3>1. n < m
      BY <1>2, <1>3, <2>2, Ranks
    <3> QED BY <1>2, <1>7, <3>1
  <2>3. CASE Nth(P, n) = Nth(P, m)
    <3>1. m = n
      BY <1>3, <2>3
    <3> QED BY <1>2, <1>7, <3>1
  <2> QED BY <2>1, <2>2, <2>3
<1>8. \A n \in N : Pick(s, P)[n] = s[Nth(P, n)]
  BY DEF Pick
<1> QED BY <1>1, <1>2, <1>3, <1>6, <1>7, <1>8

\* Without an element a sequence holds the others, each at most as often as before.
LEMMA WithoutElement ==
    ASSUME NEW s, IsSequence(s), NEW e
    PROVE  /\ IsSequence(Without(s, e)) /\ Len(Without(s, e)) <= Len(s)
           /\ (\E i \in DOMAIN s : s[i] = e) => Len(Without(s, e)) < Len(s)
           /\ ToSet(Without(s, e)) = ToSet(s) \ {e}
           /\ IsInjective(s) => IsInjective(Without(s, e))
<1> DEFINE P == {i \in DOMAIN s : s[i] # e}
           r == Pick(s, P)
<1>1. Without(s, e) = r
  BY DEF Without
<1>2. P \in SUBSET DOMAIN s /\ Len(s) \in Nat /\ DOMAIN s = 1 .. Len(s)
  BY SequenceBasics
<1>3. /\ IsSequence(r) /\ Len(r) <= Len(s) /\ (P # DOMAIN s => Len(r) < Len(s))
      /\ \A n \in DOMAIN r : Nth(P, n) \in P /\ r[n] = s[Nth(P, n)]
      /\ \A i \in P : \E n \in DOMAIN r : Nth(P, n) = i
      /\ \A m, n \in DOMAIN r : m < n => Nth(P, m) < Nth(P, n)
  <2> HIDE DEF P
  <2> QED BY <1>2, Picked
<1>4. DOMAIN r = 1 .. Len(r) /\ Len(r) \in Nat
  <2> HIDE DEF r
  <2> QED BY <1>3, SequenceBasics
<1>5. {r[n] : n \in DOMAIN r} = {s[i] : i \in DOMAIN s} \ {e}
  <2>1. \A n \in DOMAIN r : r[n] \in {s[i] : i \in DOMAIN s} \ {e}
    BY <1>3
  <2>2. ASSUME NEW i \in DOMAIN s, s[i] # e PROVE \E n \in DOMAIN r : r[n] = s[i]
    BY <1>3, <2>2
  <2> QED BY <2>1, <2>2
<1>6. ASSUME IsInjective(s) PROVE IsInjective(r)
  <2>1. ASSUME NEW m \in DOMAIN r, NEW n \in DOMAIN r, r[m] = r[n] PROVE m = n
    <3>1. Nth(P, m) = Nth(P, n) /\ Nth(P, m) \in Nat
      BY <1>2, <1>3, <1>6, <2>1 DEF IsInjective
    <3>2. ~(m < n) /\ ~(n < m)
      BY <1>3, <3>1
    <3> QED BY <1>4, <3>2
  <2> QED BY <2>1 DEF IsInjective
<1>7. (\E i \in DOMAIN s : s[i] = e) => P # DOMAIN s
  OBVIOUS
<1>8. ToSet(r) = ToSet(s) \ {e}
  BY <1>5 DEF ToSet
<1> HIDE DEF P, r
<1> QED BY <1>1, <1>3, <1>6, <1>7, <1>8
=============================================================================
