----------------------------- MODULE ListsProofs -----------------------------
(***************************************************************************)
(* Lemmas about lists.  What holds of the empty list and of a list that is  *)
(* one element longer than one it holds of, holds of every list: the set of *)
(* lists it holds of is all of them (ListInduction).                       *)
(***************************************************************************)
EXTENDS Lists, SequencesExt, FiniteSetTheorems, SequenceTheorems, WellFoundedInduction, TLAPS

LEMMA LeastExists ==
    ASSUME NEW S \in SUBSET Nat, S # {}
    PROVE  \E m \in S : \A n \in S : m <= n
<1> DEFINE R == OpToRel(<, Nat)
<1>1. IsWellFoundedOn(R, Nat)
  BY NatLessThanWellFounded, Zenon
<1>2. \A n, m \in S : <<n, m>> \in R <=> n < m
  BY DEF OpToRel
<1> HIDE DEF R
<1>3. PICK m \in S : \A n \in S : <<n, m>> \notin R
  BY <1>1, WFMin
<1>4. m \in Nat /\ \A n \in S : n \in Nat /\ ~ (n < m)
  BY <1>2, <1>3
<1>5. \A n \in S : m <= n
  BY <1>4
<1> QED BY <1>3, <1>5

LEMMA Induction ==
    ASSUME NEW T, 0 \in T, \A n \in Nat : n \in T => n + 1 \in T
    PROVE  \A n \in Nat : n \in T
<1> DEFINE Rest == Nat \ T
<1> SUFFICES ASSUME Rest # {} PROVE FALSE
  OBVIOUS
<1>1. PICK m \in Rest : \A n \in Rest : m <= n
  BY LeastExists
<1>2. m \in Nat /\ m # 0 /\ m - 1 \in Nat
  OBVIOUS
<1>3. m - 1 \notin Rest
  BY <1>1, <1>2
<1>4. (m - 1) + 1 \in T
  BY <1>2, <1>3
<1> QED BY <1>2, <1>4

LEMMA ListInduction ==
    ASSUME NEW S, NEW T, <<>> \in T,
           \A s \in Seq(S), e \in S : s \in T => Append(s, e) \in T
    PROVE  Seq(S) \subseteq T
<1> DEFINE L == {n \in Nat : \A s \in Seq(S) : Len(s) = n => s \in T}
<1>1. 0 \in L
  <2>1. \A s \in Seq(S) : Len(s) = 0 => s = <<>>
    OBVIOUS
  <2> QED BY <2>1
<1>2. ASSUME NEW n \in Nat, n \in L PROVE n + 1 \in L
  <2> SUFFICES ASSUME NEW s \in Seq(S), Len(s) = n + 1 PROVE s \in T
    OBVIOUS
  <2> DEFINE t == SubSeq(s, 1, n)  e == s[n + 1]
  <2>1. t \in Seq(S) /\ Len(t) = n /\ e \in S
    OBVIOUS
  <2>2. s = Append(t, e)
    OBVIOUS
  <2> HIDE DEF t, e
  <2> QED BY <1>2, <2>1, <2>2
<1> HIDE DEF L
<1>3. \A n \in Nat : n \in L
  BY <1>1, <1>2, Induction
<1> QED BY <1>3 DEF L

-----------------------------------------------------------------------------
(* What is kept.                                                           *)

\* f[i] is what is kept of the first i elements.
Keeps(f, s, V) ==
    f = [i \in 0..Len(s) |-> IF i = 0 THEN <<>>
                             ELSE IF s[i] \in V THEN Append(f[i - 1], s[i]) ELSE f[i - 1]]

LEMMA KeepsExists ==
    ASSUME NEW S, NEW s \in Seq(S), NEW V
    PROVE  \E f : Keeps(f, s, V)
<1> DEFINE Step(f, i) == IF i = 0 THEN <<>>
                         ELSE IF s[i] \in V THEN Append(f[i - 1], s[i]) ELSE f[i - 1]
           T == {n \in Nat : \E f : f = [i \in 0..n |-> Step(f, i)]}
<1>1. 0 \in T
  <2> DEFINE f == [i \in 0..0 |-> <<>>]
  <2>1. f = [i \in 0..0 |-> Step(f, i)]
    OBVIOUS
  <2> QED BY <2>1
<1>2. ASSUME NEW n \in Nat, n \in T PROVE n + 1 \in T
  <2>1. PICK f : f = [i \in 0..n |-> Step(f, i)]
    BY <1>2
  <2> DEFINE g == [i \in 0..(n + 1) |-> IF i = n + 1 THEN Step(f, i) ELSE f[i]]
  <2>2. ASSUME NEW i \in 0..(n + 1) PROVE g[i] = Step(g, i)
    <3>1. i # 0 => i - 1 \in 0..n /\ g[i - 1] = f[i - 1]
      OBVIOUS
    <3>2. CASE i = n + 1
      BY <3>1, <3>2
    <3>3. CASE i # n + 1
      <4>1. i \in 0..n /\ g[i] = f[i]
        BY <3>3
      <4>2. f[i] = Step(f, i)
        BY <2>1, <4>1
      <4> QED BY <3>1, <4>1, <4>2
    <3> QED BY <3>2, <3>3
  <2>3. g = [i \in 0..(n + 1) |-> Step(g, i)]
    BY <2>2
  <2> HIDE DEF g, Step
  <2> QED BY <2>3
<1> HIDE DEF T
<1>3. Len(s) \in T
  BY <1>1, <1>2, Induction
<1> QED BY <1>3 DEF T, Keeps

LEMMA AmongIs ==
    ASSUME NEW S, NEW s \in Seq(S), NEW V
    PROVE  \E f : Keeps(f, s, V) /\ Among(s, V) = f[Len(s)]
<1> DEFINE kept == CHOOSE f : Keeps(f, s, V)
<1>1. Keeps(kept, s, V)
  BY KeepsExists
<1>2. Among(s, V) = kept[Len(s)]
  BY DEF Among, Keeps
<1> QED BY <1>1, <1>2

LEMMA AmongEmpty ==
    ASSUME NEW V
    PROVE  Among(<<>>, V) = <<>>
<1>1. <<>> \in Seq({}) /\ Len(<<>>) = 0
  OBVIOUS
<1>2. PICK f : Keeps(f, <<>>, V) /\ Among(<<>>, V) = f[0]
  BY <1>1, AmongIs
<1> QED BY <1>1, <1>2 DEF Keeps

LEMMA AmongAppend ==
    ASSUME NEW S, NEW s \in Seq(S), NEW e \in S, NEW V
    PROVE  Among(Append(s, e), V) = IF e \in V THEN Append(Among(s, V), e) ELSE Among(s, V)
<1> DEFINE t == Append(s, e)
<1>1. t \in Seq(S) /\ Len(t) = Len(s) + 1 /\ t[Len(s) + 1] = e /\ \A i \in 1..Len(s) : t[i] = s[i]
  OBVIOUS
<1> HIDE DEF t
<1>2. PICK f : Keeps(f, s, V) /\ Among(s, V) = f[Len(s)]
  BY AmongIs
<1>3. PICK g : Keeps(g, t, V) /\ Among(t, V) = g[Len(t)]
  BY <1>1, AmongIs
<1> DEFINE T == {n \in Nat : n <= Len(s) => f[n] = g[n]}
<1>4. 0 \in T
  BY <1>1, <1>2, <1>3 DEF Keeps
<1>5. ASSUME NEW n \in Nat, n \in T PROVE n + 1 \in T
  <2> SUFFICES ASSUME n + 1 <= Len(s) PROVE f[n + 1] = g[n + 1]
    OBVIOUS
  <2>1. n + 1 \in 1..Len(s) /\ n + 1 \in 0..Len(s) /\ n + 1 \in 0..Len(t) /\ (n + 1) - 1 = n /\ n + 1 # 0
    BY <1>1
  <2>2. f[n + 1] = IF s[n + 1] \in V THEN Append(f[n], s[n + 1]) ELSE f[n]
    BY <1>2, <2>1 DEF Keeps
  <2>3. g[n + 1] = IF t[n + 1] \in V THEN Append(g[n], t[n + 1]) ELSE g[n]
    BY <1>3, <2>1 DEF Keeps
  <2> QED BY <1>1, <1>5, <2>1, <2>2, <2>3
<1> HIDE DEF T
<1>6. Len(s) \in T
  BY <1>4, <1>5, Induction
<1>7. f[Len(s)] = g[Len(s)]
  BY <1>6 DEF T
<1>8. Len(t) \in 0..Len(t) /\ Len(t) # 0 /\ Len(t) - 1 = Len(s)
  BY <1>1
<1>9. g[Len(t)] = IF t[Len(t)] \in V THEN Append(g[Len(s)], t[Len(t)]) ELSE g[Len(s)]
  BY <1>3, <1>8 DEF Keeps
<1> QED BY <1>1, <1>2, <1>3, <1>7, <1>9 DEF t

LEMMA AmongType ==
    ASSUME NEW S, NEW V
    PROVE  \A s \in Seq(S) : /\ Among(s, V) \in Seq(S \cap V)
                             /\ Len(Among(s, V)) <= Len(s)
<1> DEFINE T == {s \in Seq(S) : Among(s, V) \in Seq(S \cap V) /\ Len(Among(s, V)) <= Len(s)}
<1>1. <<>> \in T
  <2>1. <<>> \in Seq(S) /\ <<>> \in Seq(S \cap V) /\ Len(<<>>) <= Len(<<>>)
    OBVIOUS
  <2>2. Among(<<>>, V) = <<>>
    BY AmongEmpty
  <2> QED BY <2>1, <2>2
<1>2. ASSUME NEW s \in Seq(S), NEW e \in S, s \in T PROVE Append(s, e) \in T
  <2> DEFINE a == Among(s, V)
  <2>1. a \in Seq(S \cap V) /\ Len(a) <= Len(s)
    BY <1>2
  <2>2. Among(Append(s, e), V) = IF e \in V THEN Append(a, e) ELSE a
    BY AmongAppend
  <2>3. Append(s, e) \in Seq(S) /\ Len(Append(s, e)) = Len(s) + 1
    OBVIOUS
  <2> HIDE DEF a
  <2>4. e \in V => Append(a, e) \in Seq(S \cap V) /\ Len(Append(a, e)) = Len(a) + 1
    BY <2>1, AppendProperties
  <2> QED BY <2>1, <2>2, <2>3, <2>4
<1> HIDE DEF T
<1>3. Seq(S) \subseteq T
  BY <1>1, <1>2, ListInduction
<1> QED BY <1>3 DEF T

LEMMA AmongIn ==
    ASSUME NEW S, NEW V, NEW s \in Seq(S)
    PROVE  Among(s, V) \in Seq(S)
<1>1. Among(s, V) \in Seq(S \cap V)
  BY AmongType
<1> QED BY <1>1, SeqMonotonic

LEMMA AmongSame ==
    ASSUME NEW S, NEW V, NEW W, S \cap V = S \cap W
    PROVE  \A s \in Seq(S) : Among(s, V) = Among(s, W)
<1> DEFINE T == {s \in Seq(S) : Among(s, V) = Among(s, W)}
<1>1. <<>> \in T
  BY AmongEmpty
<1>2. ASSUME NEW s \in Seq(S), NEW e \in S, s \in T PROVE Append(s, e) \in T
  <2>1. e \in V <=> e \in W
    OBVIOUS
  <2>2. Append(s, e) \in Seq(S) /\ Among(s, V) = Among(s, W)
    BY <1>2
  <2>3. Among(Append(s, e), V) = IF e \in V THEN Append(Among(s, V), e) ELSE Among(s, V)
    BY AmongAppend
  <2>4. Among(Append(s, e), W) = IF e \in W THEN Append(Among(s, W), e) ELSE Among(s, W)
    BY AmongAppend
  <2> QED BY <2>1, <2>2, <2>3, <2>4
<1> HIDE DEF T
<1>3. Seq(S) \subseteq T
  BY <1>1, <1>2, ListInduction
<1> QED BY <1>3 DEF T

LEMMA AmongAll ==
    ASSUME NEW S, NEW V, S \subseteq V
    PROVE  \A s \in Seq(S) : Among(s, V) = s
<1> DEFINE T == {s \in Seq(S) : Among(s, V) = s}
<1>1. <<>> \in T
  BY AmongEmpty
<1>2. ASSUME NEW s \in Seq(S), NEW e \in S, s \in T PROVE Append(s, e) \in T
  BY <1>2, AmongAppend
<1> HIDE DEF T
<1>3. Seq(S) \subseteq T
  BY <1>1, <1>2, ListInduction
<1> QED BY <1>3 DEF T

LEMMA AmongNone ==
    ASSUME NEW S, NEW V, S \cap V = {}
    PROVE  \A s \in Seq(S) : Among(s, V) = <<>>
<1> DEFINE T == {s \in Seq(S) : Among(s, V) = <<>>}
<1>1. <<>> \in T
  BY AmongEmpty
<1>2. ASSUME NEW s \in Seq(S), NEW e \in S, s \in T PROVE Append(s, e) \in T
  BY <1>2, AmongAppend
<1> HIDE DEF T
<1>3. Seq(S) \subseteq T
  BY <1>1, <1>2, ListInduction
<1> QED BY <1>3 DEF T

\* What is kept of what was kept.
LEMMA AmongTwice ==
    ASSUME NEW S, NEW V, NEW W
    PROVE  \A s \in Seq(S) : Among(Among(s, V), W) = Among(s, V \cap W)
<1> DEFINE T == {s \in Seq(S) : Among(Among(s, V), W) = Among(s, V \cap W)}
<1>1. <<>> \in T
  BY AmongEmpty
<1>2. ASSUME NEW s \in Seq(S), NEW e \in S, s \in T PROVE Append(s, e) \in T
  <2> DEFINE a == Among(s, V)
  <2>1. a \in Seq(S) /\ Append(s, e) \in Seq(S) /\ Among(a, W) = Among(s, V \cap W)
    BY <1>2, AmongIn
  <2>2. Among(Append(s, e), V) = IF e \in V THEN Append(a, e) ELSE a
    BY AmongAppend
  <2>3. Among(Append(s, e), V \cap W)
           = IF e \in V \cap W THEN Append(Among(s, V \cap W), e) ELSE Among(s, V \cap W)
    BY AmongAppend
  <2> HIDE DEF a
  <2>4. Among(Append(a, e), W) = IF e \in W THEN Append(Among(a, W), e) ELSE Among(a, W)
    BY <2>1, AmongAppend
  <2>5. Among(Among(Append(s, e), V), W) = Among(Append(s, e), V \cap W)
    <3>1. CASE e \in V
      <4>1. Among(Append(s, e), V) = Append(a, e) /\ (e \in V \cap W <=> e \in W)
        BY <2>2, <3>1
      <4> QED BY <2>1, <2>3, <2>4, <4>1, Zenon
    <3>2. CASE e \notin V
      BY <2>1, <2>2, <2>3, <3>2
    <3> QED BY <3>1, <3>2
  <2> QED BY <2>1, <2>5
<1> HIDE DEF T
<1>3. Seq(S) \subseteq T
  BY <1>1, <1>2, ListInduction
<1> QED BY <1>3 DEF T

\* What is kept of two lists one after the other.
LEMMA AmongConcat ==
    ASSUME NEW S, NEW V, NEW s \in Seq(S)
    PROVE  \A t \in Seq(S) : Among(s \o t, V) = Among(s, V) \o Among(t, V)
<1> DEFINE T == {t \in Seq(S) : Among(s \o t, V) = Among(s, V) \o Among(t, V)}
<1>0. Among(s, V) \in Seq(S)
  BY AmongIn
<1>1. <<>> \in T
  BY <1>0, AmongEmpty
<1>2. ASSUME NEW t \in Seq(S), NEW e \in S, t \in T PROVE Append(t, e) \in T
  <2>1. Among(t, V) \in Seq(S) /\ s \o t \in Seq(S)
    BY AmongIn
  <2>2. s \o Append(t, e) = Append(s \o t, e)
    OBVIOUS
  <2>3. Among(s, V) \o Append(Among(t, V), e) = Append(Among(s, V) \o Among(t, V), e)
    BY <1>0, <2>1
  <2>4. Append(t, e) \in Seq(S)
    OBVIOUS
  <2>5. Among(Append(s \o t, e), V) = IF e \in V THEN Append(Among(s \o t, V), e) ELSE Among(s \o t, V)
    BY <2>1, AmongAppend
  <2>6. Among(Append(t, e), V) = IF e \in V THEN Append(Among(t, V), e) ELSE Among(t, V)
    BY AmongAppend
  <2> QED BY <1>2, <2>2, <2>3, <2>4, <2>5, <2>6
<1> HIDE DEF T
<1>3. Seq(S) \subseteq T
  BY <1>1, <1>2, ListInduction
<1> QED BY <1>3 DEF T

-----------------------------------------------------------------------------
(* The end of a list.                                                      *)

LEMMA SuffixIs ==
    ASSUME NEW S, NEW s \in Seq(S), NEW t \in Seq(S)
    PROVE  IsSuffix(s, t) <=> /\ Len(s) <= Len(t)
                              /\ \A i \in 1..Len(s) : s[i] = t[Len(t) - Len(s) + i]
<1> DEFINE r == Reverse(s)  q == Reverse(t)
<1>1. /\ r \in Seq(S) /\ Len(r) = Len(s) /\ \A i \in 1..Len(s) : r[i] = s[Len(s) - i + 1]
      /\ q \in Seq(S) /\ Len(q) = Len(t) /\ \A i \in 1..Len(t) : q[i] = t[Len(t) - i + 1]
  BY DEF Reverse
<1> HIDE DEF r, q
<1>2. ASSUME Len(s) <= Len(t)
      PROVE  SubSeq(r, 1, Len(s)) = SubSeq(q, 1, Len(s)) <=> \A i \in 1..Len(s) : r[i] = q[i]
  <2>1. /\ SubSeq(r, 1, Len(s)) \in Seq(S) /\ Len(SubSeq(r, 1, Len(s))) = Len(s)
        /\ SubSeq(q, 1, Len(s)) \in Seq(S) /\ Len(SubSeq(q, 1, Len(s))) = Len(s)
        /\ \A i \in 1..Len(s) : SubSeq(r, 1, Len(s))[i] = r[i] /\ SubSeq(q, 1, Len(s))[i] = q[i]
    BY <1>1, <1>2
  <2> QED BY <2>1
<1>3. ASSUME Len(s) <= Len(t)
      PROVE  (\A i \in 1..Len(s) : r[i] = q[i]) <=> \A i \in 1..Len(s) : s[i] = t[Len(t) - Len(s) + i]
  <2>1. ASSUME \A i \in 1..Len(s) : r[i] = q[i], NEW i \in 1..Len(s) PROVE s[i] = t[Len(t) - Len(s) + i]
    <3> DEFINE j == Len(s) - i + 1
    <3>1. j \in 1..Len(s) /\ j \in 1..Len(t) /\ Len(s) - j + 1 = i /\ Len(t) - j + 1 = Len(t) - Len(s) + i
      BY <1>3
    <3> HIDE DEF j
    <3> QED BY <1>1, <2>1, <3>1
  <2>2. ASSUME \A i \in 1..Len(s) : s[i] = t[Len(t) - Len(s) + i], NEW i \in 1..Len(s) PROVE r[i] = q[i]
    <3> DEFINE j == Len(s) - i + 1
    <3>1. j \in 1..Len(s) /\ i \in 1..Len(t) /\ Len(t) - Len(s) + j = Len(t) - i + 1
      BY <1>3
    <3>2. r[i] = s[j] /\ q[i] = t[Len(t) - i + 1]
      BY <1>1, <3>1
    <3> HIDE DEF j
    <3> QED BY <2>2, <3>1, <3>2
  <2> QED BY <2>1, <2>2
<1>4. IsSuffix(s, t) <=> Len(s) <= Len(t) /\ SubSeq(r, 1, Len(s)) = SubSeq(q, 1, Len(s))
  BY <1>1 DEF IsSuffix, IsPrefix, r, q
<1> QED BY <1>2, <1>3, <1>4

LEMMA SuffixSplits ==
    ASSUME NEW S, NEW s \in Seq(S), NEW t \in Seq(S)
    PROVE  IsSuffix(s, t) <=> \E u \in Seq(S) : t = u \o s
<1>1. ASSUME NEW u \in Seq(S), t = u \o s PROVE IsSuffix(s, t)
  <2>1. Len(t) = Len(u) + Len(s) /\ \A i \in 1..Len(s) : t[Len(u) + i] = s[i]
    BY <1>1
  <2>2. Len(s) <= Len(t) /\ Len(t) - Len(s) = Len(u)
    BY <2>1
  <2> QED BY <2>1, <2>2, SuffixIs
<1>2. ASSUME IsSuffix(s, t) PROVE \E u \in Seq(S) : t = u \o s
  <2> DEFINE u == SubSeq(t, 1, Len(t) - Len(s))
  <2>1. Len(s) <= Len(t) /\ \A i \in 1..Len(s) : s[i] = t[Len(t) - Len(s) + i]
    BY <1>2, SuffixIs
  <2>2. u \in Seq(S) /\ Len(u) = Len(t) - Len(s) /\ \A i \in 1..Len(u) : u[i] = t[i]
    BY <2>1
  <2> HIDE DEF u
  <2>3. u \o s \in Seq(S) /\ Len(u \o s) = Len(t)
    BY <2>1, <2>2
  <2>4. ASSUME NEW i \in 1..Len(t) PROVE (u \o s)[i] = t[i]
    <3>1. CASE i <= Len(u)
      BY <2>2, <3>1
    <3>2. CASE i > Len(u)
      <4>1. i - Len(u) \in 1..Len(s) /\ (u \o s)[i] = s[i - Len(u)]
        BY <2>1, <2>2, <3>2
      <4>2. Len(t) - Len(s) + (i - Len(u)) = i
        BY <2>2
      <4> QED BY <2>1, <4>1, <4>2
    <3> QED BY <2>2, <3>1, <3>2
  <2>5. u \o s = t
    BY <2>3, <2>4, SeqEqual
  <2> QED BY <2>2, <2>5
<1> QED BY <1>1, <1>2

LEMMA SuffixAppend ==
    ASSUME NEW S, NEW s \in Seq(S), NEW t \in Seq(S), NEW e \in S, IsSuffix(s, t)
    PROVE  IsSuffix(Append(s, e), Append(t, e))
<1>1. PICK u \in Seq(S) : t = u \o s
  BY SuffixSplits
<1>2. Append(t, e) = u \o Append(s, e)
  <2>1. Append(t, e) = t \o <<e>> /\ Append(s, e) = s \o <<e>>
    BY AppendIsConcat, Zenon
  <2>2. <<e>> \in Seq(S)
    OBVIOUS
  <2>3. (u \o s) \o <<e>> = u \o (s \o <<e>>)
    BY <2>2, ConcatAssociative
  <2> QED BY <1>1, <2>1, <2>3, Zenon
<1>3. Append(t, e) \in Seq(S) /\ Append(s, e) \in Seq(S)
  OBVIOUS
<1> QED BY <1>2, <1>3, SuffixSplits

LEMMA SuffixTransitive ==
    ASSUME NEW S, NEW r \in Seq(S), NEW s \in Seq(S), NEW t \in Seq(S), IsSuffix(r, s), IsSuffix(s, t)
    PROVE  IsSuffix(r, t)
<1>1. PICK u \in Seq(S) : s = u \o r
  BY SuffixSplits
<1>2. PICK v \in Seq(S) : t = v \o s
  BY SuffixSplits
<1>3. t = (v \o u) \o r /\ v \o u \in Seq(S)
  BY <1>1, <1>2
<1> QED BY <1>3, SuffixSplits

\* What is kept of the end is the end of what is kept.
LEMMA SuffixAmong ==
    ASSUME NEW S, NEW s \in Seq(S), NEW t \in Seq(S), NEW V, IsSuffix(s, t)
    PROVE  IsSuffix(Among(s, V), Among(t, V))
<1>1. PICK u \in Seq(S) : t = u \o s
  BY SuffixSplits
<1>2. Among(t, V) = Among(u, V) \o Among(s, V)
  BY <1>1, AmongConcat
<1>3. Among(t, V) \in Seq(S) /\ Among(u, V) \in Seq(S) /\ Among(s, V) \in Seq(S)
  BY AmongIn
<1> QED BY <1>2, <1>3, SuffixSplits

LEMMA SuffixSelf ==
    ASSUME NEW S, NEW s \in Seq(S)
    PROVE  IsSuffix(s, s) /\ IsSuffix(<<>>, s)
<1>1. s = <<>> \o s /\ s = s \o <<>> /\ <<>> \in Seq(S)
  OBVIOUS
<1> QED BY <1>1, SuffixSplits

-----------------------------------------------------------------------------
(* Sums.                                                                   *)

\* f[i] is the sum of the first i numbers.
Sums(f, ns) == f = [i \in 0..Len(ns) |-> IF i = 0 THEN 0 ELSE f[i - 1] + ns[i]]

LEMMA SumsExists ==
    ASSUME NEW ns \in Seq(Int)
    PROVE  \E f : Sums(f, ns)
<1> DEFINE Step(f, i) == IF i = 0 THEN 0 ELSE f[i - 1] + ns[i]
           T == {n \in Nat : \E f : f = [i \in 0..n |-> Step(f, i)]}
<1>1. 0 \in T
  <2> DEFINE f == [i \in 0..0 |-> 0]
  <2>1. f = [i \in 0..0 |-> Step(f, i)]
    OBVIOUS
  <2> QED BY <2>1
<1>2. ASSUME NEW n \in Nat, n \in T PROVE n + 1 \in T
  <2>1. PICK f : f = [i \in 0..n |-> Step(f, i)]
    BY <1>2
  <2> DEFINE g == [i \in 0..(n + 1) |-> IF i = n + 1 THEN Step(f, i) ELSE f[i]]
  <2>2. ASSUME NEW i \in 0..(n + 1) PROVE g[i] = Step(g, i)
    <3>1. i # 0 => i - 1 \in 0..n /\ g[i - 1] = f[i - 1]
      OBVIOUS
    <3>2. CASE i = n + 1
      BY <3>1, <3>2
    <3>3. CASE i # n + 1
      <4>1. i \in 0..n /\ g[i] = f[i]
        BY <3>3
      <4>2. f[i] = Step(f, i)
        BY <2>1, <4>1
      <4> QED BY <3>1, <4>1, <4>2
    <3> QED BY <3>2, <3>3
  <2>3. g = [i \in 0..(n + 1) |-> Step(g, i)]
    BY <2>2
  <2> HIDE DEF g, Step
  <2> QED BY <2>3
<1> HIDE DEF T
<1>3. Len(ns) \in T
  BY <1>1, <1>2, Induction
<1> QED BY <1>3 DEF T, Sums

LEMMA TotalIs ==
    ASSUME NEW ns \in Seq(Int)
    PROVE  \E f : Sums(f, ns) /\ Total(ns) = f[Len(ns)]
<1> DEFINE sum == CHOOSE f : Sums(f, ns)
<1>1. Sums(sum, ns)
  BY SumsExists
<1>2. Total(ns) = sum[Len(ns)]
  BY DEF Total, Sums
<1> QED BY <1>1, <1>2

LEMMA TotalEmpty == Total(<<>>) = 0
<1>1. <<>> \in Seq(Int) /\ Len(<<>>) = 0
  OBVIOUS
<1>2. PICK f : Sums(f, <<>>) /\ Total(<<>>) = f[0]
  BY <1>1, TotalIs
<1> QED BY <1>1, <1>2 DEF Sums

LEMMA TotalAppend ==
    ASSUME NEW ns \in Seq(Int), NEW n \in Int
    PROVE  Total(Append(ns, n)) = Total(ns) + n
<1> DEFINE t == Append(ns, n)
<1>1. t \in Seq(Int) /\ Len(t) = Len(ns) + 1 /\ t[Len(ns) + 1] = n /\ \A i \in 1..Len(ns) : t[i] = ns[i]
  OBVIOUS
<1> HIDE DEF t
<1>2. PICK f : Sums(f, ns) /\ Total(ns) = f[Len(ns)]
  BY TotalIs
<1>3. PICK g : Sums(g, t) /\ Total(t) = g[Len(t)]
  BY <1>1, TotalIs
<1> DEFINE T == {k \in Nat : k <= Len(ns) => f[k] = g[k]}
<1>4. 0 \in T
  BY <1>1, <1>2, <1>3 DEF Sums
<1>5. ASSUME NEW k \in Nat, k \in T PROVE k + 1 \in T
  <2> SUFFICES ASSUME k + 1 <= Len(ns) PROVE f[k + 1] = g[k + 1]
    OBVIOUS
  <2>1. k + 1 \in 1..Len(ns) /\ k + 1 \in 0..Len(ns) /\ k + 1 \in 0..Len(t) /\ (k + 1) - 1 = k /\ k + 1 # 0
    BY <1>1
  <2>2. f[k + 1] = f[k] + ns[k + 1]
    BY <1>2, <2>1 DEF Sums
  <2>3. g[k + 1] = g[k] + t[k + 1]
    BY <1>3, <2>1 DEF Sums
  <2> QED BY <1>1, <1>5, <2>1, <2>2, <2>3
<1> HIDE DEF T
<1>6. Len(ns) \in T
  BY <1>4, <1>5, Induction
<1>7. f[Len(ns)] = g[Len(ns)]
  BY <1>6 DEF T
<1>8. Len(t) \in 0..Len(t) /\ Len(t) # 0 /\ Len(t) - 1 = Len(ns)
  BY <1>1
<1>9. g[Len(t)] = g[Len(ns)] + t[Len(t)]
  BY <1>3, <1>8 DEF Sums
<1> QED BY <1>1, <1>2, <1>3, <1>7, <1>9 DEF t

LEMMA TotalType == \A ns \in Seq(Int) : Total(ns) \in Int
<1> DEFINE T == {ns \in Seq(Int) : Total(ns) \in Int}
<1>1. <<>> \in T
  BY TotalEmpty
<1>2. ASSUME NEW s \in Seq(Int), NEW e \in Int, s \in T PROVE Append(s, e) \in T
  <2>1. Total(Append(s, e)) = Total(s) + e /\ Append(s, e) \in Seq(Int)
    BY TotalAppend
  <2> QED BY <1>2, <2>1
<1> HIDE DEF T
<1>3. Seq(Int) \subseteq T
  BY <1>1, <1>2, ListInduction
<1> QED BY <1>3 DEF T

-----------------------------------------------------------------------------
(* Lists without repetition.                                                *)

\* No two elements have the same key.
NoTwice(s, key) == \A i, j \in 1..Len(s) : key[s[i]] = key[s[j]] => i = j

\* What r has s has.
From(r, s) == \A i \in 1..Len(r) : \E j \in 1..Len(s) : r[i] = s[j]

LEMMA AppendIs ==
    ASSUME NEW S, NEW s \in Seq(S), NEW e \in S
    PROVE  /\ Append(s, e) \in Seq(S) /\ Len(Append(s, e)) = Len(s) + 1 /\ Append(s, e)[Len(s) + 1] = e
           /\ \A i \in 1..Len(s) : Append(s, e)[i] = s[i]
           /\ Len(s) \in Nat
OBVIOUS

LEMMA AppendNoTwice ==
    ASSUME NEW S, NEW s \in Seq(S), NEW e \in S, NEW key
    PROVE  NoTwice(Append(s, e), key) <=>
              NoTwice(s, key) /\ \A i \in 1..Len(s) : key[s[i]] # key[e]
<1> DEFINE t == Append(s, e)
<1>1. Len(t) = Len(s) + 1 /\ t[Len(s) + 1] = e /\ (\A i \in 1..Len(s) : t[i] = s[i]) /\ Len(s) \in Nat
  BY AppendIs
<1> HIDE DEF t
<1>2. ASSUME NoTwice(t, key) PROVE NoTwice(s, key) /\ \A i \in 1..Len(s) : key[s[i]] # key[e]
  BY <1>1, <1>2 DEF NoTwice
<1>3. ASSUME NoTwice(s, key), \A i \in 1..Len(s) : key[s[i]] # key[e] PROVE NoTwice(t, key)
  BY <1>1, <1>3 DEF NoTwice
<1> QED BY <1>2, <1>3 DEF t

\* f[i] is what is kept of the first i elements.
KeepsFirst(f, s, key) ==
    f = [i \in 0..Len(s) |->
          IF i = 0 THEN <<>>
          ELSE IF \E j \in 1..(i - 1) : key[s[j]] = key[s[i]] THEN f[i - 1] ELSE Append(f[i - 1], s[i])]

LEMMA KeepsFirstExists ==
    ASSUME NEW S, NEW s \in Seq(S), NEW key
    PROVE  \E f : KeepsFirst(f, s, key)
<1> DEFINE Old(i) == \E j \in 1..(i - 1) : key[s[j]] = key[s[i]]
           Step(f, i) == IF i = 0 THEN <<>>
                         ELSE IF Old(i) THEN f[i - 1] ELSE Append(f[i - 1], s[i])
           T == {n \in Nat : \E f : f = [i \in 0..n |-> Step(f, i)]}
<1> HIDE DEF Old
<1>1. 0 \in T
  <2> DEFINE f == [i \in 0..0 |-> <<>>]
  <2>1. f = [i \in 0..0 |-> Step(f, i)]
    OBVIOUS
  <2> QED BY <2>1
<1>2. ASSUME NEW n \in Nat, n \in T PROVE n + 1 \in T
  <2>1. PICK f : f = [i \in 0..n |-> Step(f, i)]
    BY <1>2
  <2> DEFINE g == [i \in 0..(n + 1) |-> IF i = n + 1 THEN Step(f, i) ELSE f[i]]
  <2>2. ASSUME NEW i \in 0..(n + 1) PROVE g[i] = Step(g, i)
    <3>1. i # 0 => i - 1 \in 0..n /\ g[i - 1] = f[i - 1]
      OBVIOUS
    <3>2. CASE i = n + 1
      BY <3>1, <3>2
    <3>3. CASE i # n + 1
      <4>1. i \in 0..n /\ g[i] = f[i]
        BY <3>3
      <4>2. f[i] = Step(f, i)
        BY <2>1, <4>1
      <4> QED BY <3>1, <4>1, <4>2
    <3> QED BY <3>2, <3>3
  <2>3. g = [i \in 0..(n + 1) |-> Step(g, i)]
    BY <2>2
  <2> HIDE DEF g, Step
  <2> QED BY <2>3
<1> HIDE DEF T
<1>3. Len(s) \in T
  BY <1>1, <1>2, Induction
<1> QED BY <1>3 DEF T, KeepsFirst, Old

\* Of the elements with one key the first is kept.
LEMMA FirstsAre ==
    ASSUME NEW S, NEW s \in Seq(S), NEW key
    PROVE  /\ Firsts(s, key) \in Seq(S) /\ NoTwice(Firsts(s, key), key) /\ From(Firsts(s, key), s)
           /\ \A j \in 1..Len(s) : \E i \in 1..Len(Firsts(s, key)) : key[Firsts(s, key)[i]] = key[s[j]]
<1> DEFINE f == CHOOSE f : KeepsFirst(f, s, key)
           Old(i) == \E j \in 1..(i - 1) : key[s[j]] = key[s[i]]
           Elements(r, n) == \A i \in 1..Len(r) : \E j \in 1..n : r[i] = s[j]
           Keys(r, n) == \A j \in 1..n : \E i \in 1..Len(r) : key[r[i]] = key[s[j]]
           Good(n) == f[n] \in Seq(S) /\ NoTwice(f[n], key) /\ Elements(f[n], n) /\ Keys(f[n], n)
           T == {n \in Nat : n <= Len(s) => Good(n)}
<1>1. KeepsFirst(f, s, key)
  BY KeepsFirstExists
<1>2. Firsts(s, key) = f[Len(s)]
  BY <1>1 DEF Firsts, KeepsFirst
<1>3. /\ f[0] = <<>>
      /\ \A i \in 1..Len(s) : f[i] = IF Old(i) THEN f[i - 1] ELSE Append(f[i - 1], s[i])
  <2>1. Len(s) \in Nat /\ \A i \in 1..Len(s) : i # 0 /\ i \in 0..Len(s)
    OBVIOUS
  <2>2. 0 \in 0..Len(s)
    OBVIOUS
  <2> HIDE DEF f
  <2> QED BY <1>1, <2>1, <2>2 DEF KeepsFirst
<1> HIDE DEF f
<1>4. 0 \in T
  <2>1. f[0] \in Seq(S) /\ Len(f[0]) = 0
    BY <1>3
  <2>2. NoTwice(f[0], key) /\ Elements(f[0], 0) /\ Keys(f[0], 0)
    BY <2>1 DEF NoTwice
  <2> QED BY <2>1, <2>2
<1>5. ASSUME NEW n \in Nat, n \in T PROVE n + 1 \in T
  <2> SUFFICES ASSUME n + 1 <= Len(s) PROVE Good(n + 1)
    OBVIOUS
  <2>1. n + 1 \in 1..Len(s) /\ s[n + 1] \in S /\ (n + 1) - 1 = n /\ Good(n)
    BY <1>5
  <2> DEFINE r == f[n]  e == s[n + 1]
  <2>2. r \in Seq(S) /\ NoTwice(r, key) /\ Elements(r, n) /\ Keys(r, n) /\ e \in S
    BY <2>1
  <2>3. f[n + 1] = IF Old(n + 1) THEN r ELSE Append(r, e)
    BY <1>3, <2>1
  <2>4. Old(n + 1) <=> \E j \in 1..n : key[s[j]] = key[e]
    BY <2>1
  <2> HIDE DEF r, e, Old
  <2>5. CASE Old(n + 1)
    <3>1. PICK j \in 1..n : key[s[j]] = key[e]
      BY <2>4, <2>5
    <3>2. PICK i \in 1..Len(r) : key[r[i]] = key[s[j]]
      BY <2>2, <3>1
    <3>3. \A k \in 1..(n + 1) : k \in 1..n \/ k = n + 1
      OBVIOUS
    <3>4. Keys(r, n + 1)
      BY <2>2, <3>1, <3>2, <3>3 DEF e
    <3>5. Elements(r, n + 1)
      BY <2>2
    <3> QED BY <2>2, <2>3, <2>5, <3>4, <3>5
  <2>6. CASE ~ Old(n + 1)
    <3> DEFINE t == Append(r, e)
    <3>1. t \in Seq(S) /\ Len(t) = Len(r) + 1 /\ t[Len(r) + 1] = e /\ (\A i \in 1..Len(r) : t[i] = r[i])
          /\ Len(r) \in Nat
      BY <2>2, AppendIs
    <3>2. \A i \in 1..Len(r) : key[r[i]] # key[e]
      <4>1. ASSUME NEW i \in 1..Len(r), key[r[i]] = key[e] PROVE FALSE
        <5>1. PICK j \in 1..n : r[i] = s[j]
          BY <2>2
        <5> QED BY <2>4, <2>6, <4>1, <5>1
      <4> QED BY <4>1
    <3>3. NoTwice(t, key)
      BY <2>2, <3>2, AppendNoTwice
    <3> HIDE DEF t
    <3>4. \A i \in 1..Len(t) : i \in 1..Len(r) \/ i = Len(r) + 1
      BY <3>1
    <3>5. Elements(t, n + 1)
      <4>1. ASSUME NEW i \in 1..Len(t) PROVE \E j \in 1..(n + 1) : t[i] = s[j]
        <5>1. CASE i \in 1..Len(r)
          <6>1. PICK j \in 1..n : r[i] = s[j]
            BY <2>2, <5>1
          <6> QED BY <3>1, <5>1, <6>1
        <5>2. CASE i = Len(r) + 1
          BY <3>1, <5>2 DEF e
        <5> QED BY <3>4, <5>1, <5>2
      <4> QED BY <4>1
    <3>6. ASSUME NEW j \in 1..(n + 1) PROVE \E i \in 1..Len(t) : key[t[i]] = key[s[j]]
      <4>1. CASE j = n + 1
        <5>1. Len(r) + 1 \in 1..Len(t)
          BY <3>1
        <5> QED BY <3>1, <4>1, <5>1 DEF e
      <4>2. CASE j # n + 1
        <5>1. j \in 1..n
          BY <4>2
        <5>2. PICK i \in 1..Len(r) : key[r[i]] = key[s[j]]
          BY <2>2, <5>1
        <5>3. i \in 1..Len(t)
          BY <3>1
        <5> QED BY <3>1, <5>2, <5>3
      <4> QED BY <4>1, <4>2
    <3>7. f[n + 1] = t
      BY <2>3, <2>6 DEF t
    <3>8. Keys(t, n + 1)
      BY <3>6
    <3> HIDE DEF Keys, Elements
    <3> QED BY <3>1, <3>3, <3>5, <3>7, <3>8
  <2> QED BY <2>5, <2>6
<1> HIDE DEF T
<1>6. Len(s) \in T
  BY <1>4, <1>5, Induction
<1>7. Good(Len(s))
  BY <1>6 DEF T
<1> DEFINE r == Firsts(s, key)
<1>8. r \in Seq(S) /\ NoTwice(r, key) /\ Elements(r, Len(s)) /\ Keys(r, Len(s))
  BY <1>2, <1>7
<1> HIDE DEF r
<1>9. From(r, s)
  BY <1>8 DEF From
<1>10. \A j \in 1..Len(s) : \E i \in 1..Len(r) : key[r[i]] = key[s[j]]
  BY <1>8
<1> QED BY <1>8, <1>9, <1>10, Zenon DEF r

\* What is kept of a list that has nothing twice has nothing twice.
LEMMA AmongElements ==
    ASSUME NEW S, NEW V
    PROVE  \A s \in Seq(S) : /\ From(Among(s, V), s)
                             /\ \A i \in 1..Len(Among(s, V)) : Among(s, V)[i] \in V
                             /\ \A j \in 1..Len(s) : s[j] \in V => \E i \in 1..Len(Among(s, V)) : Among(s, V)[i] = s[j]
<1> DEFINE Has(s, r) == /\ From(r, s)
                        /\ \A i \in 1..Len(r) : r[i] \in V
                        /\ \A j \in 1..Len(s) : s[j] \in V => \E i \in 1..Len(r) : r[i] = s[j]
           T == {s \in Seq(S) : Has(s, Among(s, V))}
<1>1. <<>> \in T
  <2>1. <<>> \in Seq(S) /\ Len(<<>>) = 0 /\ Among(<<>>, V) = <<>>
    BY AmongEmpty
  <2> QED BY <2>1 DEF From
<1>2. ASSUME NEW s \in Seq(S), NEW e \in S, s \in T PROVE Append(s, e) \in T
  <2> DEFINE t == Append(s, e)  r == Among(s, V)  q == Among(t, V)
  <2>1. t \in Seq(S) /\ Len(t) = Len(s) + 1 /\ t[Len(s) + 1] = e /\ (\A i \in 1..Len(s) : t[i] = s[i])
        /\ Len(s) \in Nat
    BY AppendIs
  <2>2. q = (IF e \in V THEN Append(r, e) ELSE r) /\ r \in Seq(S)
    BY AmongAppend, AmongIn
  <2>3. Has(s, r)
    BY <1>2
  <2> HIDE DEF t, r, q
  <2>4. \A i \in 1..Len(t) : i \in 1..Len(s) \/ i = Len(s) + 1
    BY <2>1
  <2>5. \A i \in 1..Len(s) : i \in 1..Len(t)
    BY <2>1
  <2>6. Len(s) + 1 \in 1..Len(t)
    BY <2>1
  <2>7. CASE e \notin V
    <3>1. q = r
      BY <2>2, <2>7
    <3>2. From(r, t)
      BY <2>1, <2>3, <2>5 DEF From
    <3>3. \A j \in 1..Len(t) : t[j] \in V => \E i \in 1..Len(r) : r[i] = t[j]
      BY <2>1, <2>3, <2>4, <2>7
    <3>4. Has(t, q)
      BY <2>3, <3>1, <3>2, <3>3
    <3> QED BY <2>1, <3>4 DEF t, q
  <2>8. CASE e \in V
    <3>1. q = Append(r, e)
      BY <2>2, <2>8
    <3>2. Len(q) = Len(r) + 1 /\ q[Len(r) + 1] = e /\ (\A i \in 1..Len(r) : q[i] = r[i]) /\ Len(r) \in Nat
      BY <2>2, <3>1, AppendIs
    <3>3. \A i \in 1..Len(q) : i \in 1..Len(r) \/ i = Len(r) + 1
      BY <3>2
    <3>4. Len(r) + 1 \in 1..Len(q) /\ \A i \in 1..Len(r) : i \in 1..Len(q)
      BY <3>2
    <3>5. From(q, t)
      <4>1. ASSUME NEW i \in 1..Len(q) PROVE \E j \in 1..Len(t) : q[i] = t[j]
        <5>1. CASE i = Len(r) + 1
          BY <2>1, <2>6, <3>2, <5>1
        <5>2. CASE i \in 1..Len(r)
          <6>1. PICK j \in 1..Len(s) : r[i] = s[j]
            BY <2>3, <5>2 DEF From
          <6> QED BY <2>1, <2>5, <3>2, <5>2, <6>1
        <5> QED BY <3>3, <5>1, <5>2
      <4> QED BY <4>1 DEF From
    <3>6. \A i \in 1..Len(q) : q[i] \in V
      BY <2>3, <2>8, <3>2, <3>3
    <3>7. ASSUME NEW j \in 1..Len(t), t[j] \in V PROVE \E i \in 1..Len(q) : q[i] = t[j]
      <4>1. CASE j = Len(s) + 1
        BY <2>1, <3>2, <3>4, <4>1
      <4>2. CASE j \in 1..Len(s)
        <5>1. PICK i \in 1..Len(r) : r[i] = s[j]
          BY <2>1, <2>3, <3>7, <4>2
        <5> QED BY <2>1, <3>2, <3>4, <4>2, <5>1
      <4> QED BY <2>4, <4>1, <4>2
    <3>8. Has(t, q)
      BY <3>5, <3>6, <3>7
    <3> QED BY <2>1, <3>8 DEF t, q
  <2> QED BY <2>7, <2>8
<1> HIDE DEF Has
<1>3. Seq(S) \subseteq T
  BY <1>1, <1>2, ListInduction
<1> QED BY <1>3 DEF Has

LEMMA AmongNoTwice ==
    ASSUME NEW S, NEW V, NEW key
    PROVE  \A s \in Seq(S) : NoTwice(s, key) => NoTwice(Among(s, V), key)
<1> DEFINE T == {s \in Seq(S) : NoTwice(s, key) => NoTwice(Among(s, V), key)}
<1>1. <<>> \in T
  BY AmongEmpty
<1>2. ASSUME NEW s \in Seq(S), NEW e \in S, s \in T PROVE Append(s, e) \in T
  <2> DEFINE t == Append(s, e)  r == Among(s, V)
  <2>1. t \in Seq(S) /\ (NoTwice(t, key) <=> NoTwice(s, key) /\ \A i \in 1..Len(s) : key[s[i]] # key[e])
    BY AppendIs, AppendNoTwice
  <2>2. Among(t, V) = (IF e \in V THEN Append(r, e) ELSE r) /\ r \in Seq(S) /\ From(r, s)
    BY AmongAppend, AmongIn, AmongElements
  <2>3. NoTwice(Append(r, e), key) <=> NoTwice(r, key) /\ \A i \in 1..Len(r) : key[r[i]] # key[e]
    BY <2>2, AppendNoTwice
  <2>4. NoTwice(s, key) => NoTwice(r, key)
    BY <1>2
  <2> HIDE DEF t, r
  <2>5. ASSUME NoTwice(t, key) PROVE NoTwice(Among(t, V), key)
    <3>1. \A i \in 1..Len(r) : key[r[i]] # key[e]
      BY <2>1, <2>2, <2>5 DEF From
    <3> QED BY <2>1, <2>2, <2>3, <2>4, <2>5, <3>1
  <2> QED BY <2>1, <2>5 DEF t
<1> HIDE DEF T
<1>3. Seq(S) \subseteq T
  BY <1>1, <1>2, ListInduction
<1> QED BY <1>3 DEF T

\* A part of a list.
LEMMA PartIs ==
    ASSUME NEW S, NEW s \in Seq(S), NEW m \in 1..(Len(s) + 1), NEW n \in 0..Len(s), m <= n + 1
    PROVE  /\ SubSeq(s, m, n) \in Seq(S) /\ Len(SubSeq(s, m, n)) = n - m + 1
           /\ \A i \in 1..(n - m + 1) : SubSeq(s, m, n)[i] = s[m + i - 1]
           /\ From(SubSeq(s, m, n), s)
<1> DEFINE r == SubSeq(s, m, n)
<1>1. r \in Seq(S) /\ Len(r) = n - m + 1 /\ \A i \in 1..(n - m + 1) : r[i] = s[m + i - 1]
  BY SubSeqProperties
<1> HIDE DEF r
<1>2. \A i \in 1..(n - m + 1) : m + i - 1 \in 1..Len(s)
  OBVIOUS
<1>3. From(r, s)
  BY <1>1, <1>2 DEF From
<1> QED BY <1>1, <1>3 DEF r

LEMMA TailIs ==
    ASSUME NEW S, NEW s \in Seq(S), NEW n \in 0..Len(s)
    PROVE  /\ SubSeq(s, n + 1, Len(s)) \in Seq(S) /\ Len(SubSeq(s, n + 1, Len(s))) = Len(s) - n
           /\ \A i \in 1..(Len(s) - n) : SubSeq(s, n + 1, Len(s))[i] = s[n + 1 + i - 1]
<1> DEFINE m == n + 1  l == Len(s)
<1>1. m \in 1..(Len(s) + 1) /\ l \in 0..Len(s) /\ m <= l + 1 /\ l - m + 1 = Len(s) - n
  OBVIOUS
<1> HIDE DEF m, l
<1>2. /\ SubSeq(s, m, l) \in Seq(S) /\ Len(SubSeq(s, m, l)) = l - m + 1
      /\ \A i \in 1..(l - m + 1) : SubSeq(s, m, l)[i] = s[m + i - 1]
  BY <1>1, PartIs
<1>3. /\ SubSeq(s, m, l) \in Seq(S) /\ Len(SubSeq(s, m, l)) = Len(s) - n
      /\ \A i \in 1..(Len(s) - n) : SubSeq(s, m, l)[i] = s[m + i - 1]
  BY <1>1, <1>2
<1> QED BY <1>3, Zenon DEF m, l

LEMMA PartNoTwice ==
    ASSUME NEW S, NEW s \in Seq(S), NEW m \in 1..(Len(s) + 1), NEW n \in 0..Len(s), m <= n + 1,
           NEW key, NoTwice(s, key)
    PROVE  NoTwice(SubSeq(s, m, n), key)
<1> DEFINE r == SubSeq(s, m, n)
<1>1. Len(r) = n - m + 1 /\ \A i \in 1..(n - m + 1) : r[i] = s[m + i - 1]
  BY PartIs
<1> HIDE DEF r
<1>2. \A i \in 1..(n - m + 1) : m + i - 1 \in 1..Len(s)
  OBVIOUS
<1>3. ASSUME NEW i \in 1..Len(r), NEW j \in 1..Len(r), key[r[i]] = key[r[j]] PROVE i = j
  <2>1. i \in 1..(n - m + 1) /\ j \in 1..(n - m + 1)
    BY <1>1
  <2>2. key[s[m + i - 1]] = key[s[m + j - 1]] /\ m + i - 1 \in 1..Len(s) /\ m + j - 1 \in 1..Len(s)
    BY <1>1, <1>2, <1>3, <2>1
  <2>3. m + i - 1 = m + j - 1
    BY <2>2, Zenon DEF NoTwice
  <2> QED BY <2>1, <2>3
<1>4. NoTwice(r, key)
  BY <1>3 DEF NoTwice
<1> QED BY <1>4 DEF r

LEMMA ConcatNoTwice ==
    ASSUME NEW S, NEW s \in Seq(S), NEW t \in Seq(S), NEW key, NoTwice(s, key), NoTwice(t, key),
           \A i \in 1..Len(s), j \in 1..Len(t) : key[s[i]] # key[t[j]]
    PROVE  NoTwice(s \o t, key)
<1> DEFINE u == s \o t
<1>1. /\ Len(u) = Len(s) + Len(t) /\ Len(s) \in Nat /\ Len(t) \in Nat
      /\ \A i \in 1..Len(s) : u[i] = s[i]
      /\ \A i \in 1..Len(t) : u[Len(s) + i] = t[i]
  OBVIOUS
<1> HIDE DEF u
<1>2. ASSUME NEW i \in 1..Len(u)
      PROVE  i \in 1..Len(s) \/ \E k \in 1..Len(t) : i = Len(s) + k
  <2>1. i > Len(s) => i - Len(s) \in 1..Len(t) /\ i = Len(s) + (i - Len(s))
    BY <1>1
  <2>2. CASE i > Len(s)
    BY <2>1, <2>2
  <2>3. CASE ~ (i > Len(s))
    BY <1>1, <2>3
  <2> QED BY <2>2, <2>3
<1>3. ASSUME NEW i \in 1..Len(u), NEW j \in 1..Len(u), key[u[i]] = key[u[j]] PROVE i = j
  <2>1. CASE i \in 1..Len(s) /\ j \in 1..Len(s)
    BY <1>1, <1>3, <2>1 DEF NoTwice
  <2>2. CASE i \in 1..Len(s) /\ \E k \in 1..Len(t) : j = Len(s) + k
    BY <1>1, <1>3, <2>2
  <2>3. CASE j \in 1..Len(s) /\ \E k \in 1..Len(t) : i = Len(s) + k
    BY <1>1, <1>3, <2>3
  <2>4. CASE (\E k \in 1..Len(t) : i = Len(s) + k) /\ (\E k \in 1..Len(t) : j = Len(s) + k)
    <3>1. PICK k \in 1..Len(t), l \in 1..Len(t) : i = Len(s) + k /\ j = Len(s) + l
      BY <2>4
    <3>2. key[t[k]] = key[t[l]]
      BY <1>1, <1>3, <3>1
    <3> QED BY <3>1, <3>2 DEF NoTwice
  <2> QED BY <1>2, <2>1, <2>2, <2>3, <2>4
<1>4. NoTwice(u, key)
  BY <1>3 DEF NoTwice
<1> QED BY <1>4 DEF u

\* Lists one after the other.
Joins(f, ss) == f = [i \in 1..Len(ss) |-> IF i = 1 THEN ss[i] ELSE f[i - 1] \o ss[i]]

LEMMA JoinsExists ==
    ASSUME NEW S, NEW ss \in Seq(Seq(S))
    PROVE  \E f : Joins(f, ss)
<1> DEFINE Step(f, i) == IF i = 1 THEN ss[i] ELSE f[i - 1] \o ss[i]
           T == {n \in Nat : \E f : f = [i \in 1..n |-> Step(f, i)]}
<1>1. 0 \in T
  <2> DEFINE f == [i \in 1..0 |-> <<>>]
  <2>1. f = [i \in 1..0 |-> Step(f, i)]
    OBVIOUS
  <2> QED BY <2>1
<1>2. ASSUME NEW n \in Nat, n \in T PROVE n + 1 \in T
  <2>1. PICK f : f = [i \in 1..n |-> Step(f, i)]
    BY <1>2
  <2> DEFINE g == [i \in 1..(n + 1) |-> IF i = n + 1 THEN Step(f, i) ELSE f[i]]
  <2>2. ASSUME NEW i \in 1..(n + 1) PROVE g[i] = Step(g, i)
    <3>1. i # 1 => i - 1 \in 1..n /\ g[i - 1] = f[i - 1]
      OBVIOUS
    <3>2. CASE i = n + 1
      BY <3>1, <3>2
    <3>3. CASE i # n + 1
      <4>1. i \in 1..n /\ g[i] = f[i]
        BY <3>3
      <4>2. f[i] = Step(f, i)
        BY <2>1, <4>1
      <4> QED BY <3>1, <4>1, <4>2
    <3> QED BY <3>2, <3>3
  <2>3. g = [i \in 1..(n + 1) |-> Step(g, i)]
    BY <2>2
  <2> HIDE DEF g, Step
  <2> QED BY <2>3
<1> HIDE DEF T
<1>3. Len(ss) \in T
  BY <1>1, <1>2, Induction
<1> QED BY <1>3 DEF T, Joins

\* Lists that have nothing twice, and nothing in common.
Apart(ss, key) ==
    /\ \A i \in 1..Len(ss) : NoTwice(ss[i], key)
    /\ \A i, j \in 1..Len(ss) : i # j =>
          \A k \in 1..Len(ss[i]), l \in 1..Len(ss[j]) : key[ss[i][k]] # key[ss[j][l]]

LEMMA FlattenSeqIs ==
    ASSUME NEW S, NEW ss \in Seq(Seq(S)), NEW key, Apart(ss, key)
    PROVE  /\ FlattenSeq(ss) \in Seq(S) /\ NoTwice(FlattenSeq(ss), key)
           /\ \A i \in 1..Len(FlattenSeq(ss)) : \E k \in 1..Len(ss) : \E l \in 1..Len(ss[k]) :
                 FlattenSeq(ss)[i] = ss[k][l]
<1> USE DEF Apart
<1>1. CASE Len(ss) = 0
  <2>1. FlattenSeq(ss) = <<>> /\ <<>> \in Seq(S) /\ Len(<<>>) = 0
    BY <1>1 DEF FlattenSeq
  <2> QED BY <2>1 DEF NoTwice
<1>2. CASE Len(ss) # 0
  <2> DEFINE f == CHOOSE f : Joins(f, ss)
  <2>1. Joins(f, ss)
    BY JoinsExists
  <2>2. FlattenSeq(ss) = f[Len(ss)]
    BY <1>2, <2>1 DEF FlattenSeq, Joins
  <2> HIDE DEF f
  <2>3. \A i \in 1..Len(ss) : f[i] = IF i = 1 THEN ss[i] ELSE f[i - 1] \o ss[i]
    BY <2>1 DEF Joins
  <2> DEFINE Elements(r, n) == \A i \in 1..Len(r) : \E k \in 1..n : \E l \in 1..Len(ss[k]) : r[i] = ss[k][l]
             Good(n) == f[n] \in Seq(S) /\ NoTwice(f[n], key) /\ Elements(f[n], n)
             T == {n \in Nat : n + 1 <= Len(ss) => Good(n + 1)}
  <2>4. 0 \in T
    <3>1. 1 \in 1..Len(ss) /\ f[1] = ss[1] /\ ss[1] \in Seq(S)
      BY <1>2, <2>3
    <3>2. 1 \in 1..1
      OBVIOUS
    <3>3. NoTwice(f[1], key) /\ Elements(f[1], 1)
      BY <3>1, <3>2
    <3>4. Good(1)
      BY <3>1, <3>3
    <3> HIDE DEF Good
    <3> QED BY <3>4
  <2>5. ASSUME NEW m \in Nat, m \in T PROVE m + 1 \in T
    <3> DEFINE n == m + 1
    <3> SUFFICES ASSUME n + 1 <= Len(ss) PROVE Good(n + 1)
      OBVIOUS
    <3>0. n \in Nat /\ n >= 1 /\ n + 1 \in 1..Len(ss) /\ n + 1 # 1 /\ (n + 1) - 1 = n /\ n <= Len(ss)
      BY <2>5
    <3>1. Good(n)
      <4> HIDE DEF Good
      <4> QED BY <2>5, <3>0 DEF T
    <3> HIDE DEF n
    <3> DEFINE r == f[n]  t == ss[n + 1]  u == r \o t
    <3>2. f[n + 1] = u /\ r \in Seq(S) /\ t \in Seq(S) /\ NoTwice(r, key) /\ NoTwice(t, key) /\ Elements(r, n)
      <4>1. r \in Seq(S) /\ NoTwice(r, key) /\ Elements(r, n)
        BY <3>1
      <4>2. t \in Seq(S) /\ NoTwice(t, key)
        BY <3>0
      <4>3. f[n + 1] = u
        BY <2>3, <3>0
      <4> QED BY <4>1, <4>2, <4>3
    <3>3. \A i \in 1..Len(r), j \in 1..Len(t) : key[r[i]] # key[t[j]]
      <4> SUFFICES ASSUME NEW i \in 1..Len(r), NEW j \in 1..Len(t) PROVE key[r[i]] # key[t[j]]
        OBVIOUS
      <4>1. PICK k \in 1..n : \E l \in 1..Len(ss[k]) : r[i] = ss[k][l]
        BY <3>2
      <4>2. k \in 1..Len(ss) /\ k # n + 1
        BY <3>0
      <4> QED BY <3>0, <4>1, <4>2
    <3>4. u \in Seq(S) /\ NoTwice(u, key)
      <4>1. u \in Seq(S)
        BY <3>2
      <4> HIDE DEF r, t
      <4>2. NoTwice(r \o t, key)
        BY <3>2, <3>3, ConcatNoTwice
      <4> QED BY <4>1, <4>2
    <3>5. Elements(u, n + 1)
      <4>1. /\ Len(u) = Len(r) + Len(t) /\ Len(r) \in Nat /\ Len(t) \in Nat
            /\ \A i \in 1..Len(r) : u[i] = r[i]
            /\ \A i \in 1..Len(t) : u[Len(r) + i] = t[i]
        <5> HIDE DEF r, t, Elements
        <5>1. r \in Seq(S) /\ t \in Seq(S)
          BY <3>2
        <5> QED BY <5>1
      <4> HIDE DEF u, r
      <4> SUFFICES ASSUME NEW i \in 1..Len(u)
                   PROVE  \E k \in 1..(n + 1) : \E l \in 1..Len(ss[k]) : u[i] = ss[k][l]
        OBVIOUS
      <4>2. CASE i <= Len(r)
        <5>1. i \in 1..Len(r)
          BY <4>1, <4>2
        <5>2. PICK k \in 1..n : \E l \in 1..Len(ss[k]) : r[i] = ss[k][l]
          BY <3>2, <5>1
        <5>3. k \in 1..(n + 1)
          BY <3>0
        <5>4. \E l \in 1..Len(ss[k]) : u[i] = ss[k][l]
          BY <4>1, <5>1, <5>2
        <5> QED BY <5>3, <5>4
      <4>3. CASE i > Len(r)
        <5>1. i - Len(r) \in 1..Len(t) /\ i = Len(r) + (i - Len(r))
          BY <4>1, <4>3
        <5>2. u[i] = ss[n + 1][i - Len(r)]
          BY <4>1, <5>1
        <5>3. n + 1 \in 1..(n + 1)
          BY <3>0
        <5>4. \E l \in 1..Len(ss[n + 1]) : u[i] = ss[n + 1][l]
          BY <5>1, <5>2
        <5> QED BY <5>3, <5>4
      <4> QED BY <4>1, <4>2, <4>3
    <3> HIDE DEF u, r, t, Elements
    <3> QED BY <3>2, <3>4, <3>5
  <2> HIDE DEF T
  <2>6. \A n \in Nat : n \in T
    BY <2>4, <2>5, Induction
  <2>7. PICK m \in Nat : m + 1 = Len(ss)
    <3>1. Len(ss) - 1 \in Nat /\ (Len(ss) - 1) + 1 = Len(ss)
      BY <1>2
    <3> QED BY <3>1
  <2>8. Good(m + 1)
    <3>1. m + 1 <= Len(ss) /\ m \in T
      BY <2>6, <2>7
    <3> HIDE DEF Good
    <3> QED BY <3>1 DEF T
  <2>9. Good(Len(ss))
    <3> HIDE DEF Good
    <3> QED BY <2>7, <2>8, Zenon
  <2> DEFINE q == FlattenSeq(ss)
  <2>10. q \in Seq(S) /\ NoTwice(q, key) /\ Elements(q, Len(ss))
    BY <2>2, <2>9
  <2> QED BY <2>10
<1> QED BY <1>1, <1>2

\* As many keys as elements.
LEMMA KeysCount ==
    ASSUME NEW S, NEW s \in Seq(S), NEW key, NoTwice(s, key)
    PROVE  Cardinality(Range([i \in DOMAIN s |-> key[s[i]]])) = Len(s)
<1> DEFINE f == [i \in DOMAIN s |-> key[s[i]]]
<1>1. Len(s) \in Nat /\ DOMAIN s = 1..Len(s)
  OBVIOUS
<1>2. DOMAIN f = 1..Len(s) /\ \A i \in 1..Len(s) : f[i] = key[s[i]]
  BY <1>1
<1>3. f = [i \in 1..Len(s) |-> f[i]]
  BY <1>1
<1> HIDE DEF f
<1>4. f \in [1..Len(s) -> Range(f)] /\ \A t \in Range(f) : \E i \in 1..Len(s) : f[i] = t
  BY <1>2, <1>3 DEF Range
<1>5. \A i, j \in 1..Len(s) : f[i] = f[j] => i = j
  BY <1>2 DEF NoTwice
<1>6. ExistsBijection(1..Len(s), Range(f))
  BY <1>2, <1>4, <1>5 DEF ExistsBijection, Bijection, Injection, Surjection, IsInjective
<1>7. Cardinality(Range(f)) = Len(s)
  BY <1>1, <1>6, FS_CountingElements
<1> QED BY <1>7 DEF f

\* The beginning of a list, and what comes after it.
LEMMA BeginningIs ==
    ASSUME NEW S, NEW s \in Seq(S), NEW n \in 0..Len(s)
    PROVE  /\ SubSeq(s, 1, n) \in Seq(S) /\ Len(SubSeq(s, 1, n)) = n
           /\ \A i \in 1..n : SubSeq(s, 1, n)[i] = s[i]
           /\ From(SubSeq(s, 1, n), s) /\ IsPrefix(SubSeq(s, 1, n), s)
           /\ \A key : NoTwice(s, key) => NoTwice(SubSeq(s, 1, n), key)
<1> DEFINE r == SubSeq(s, 1, n)
<1>1. Len(s) \in Nat /\ 1 \in 1..(Len(s) + 1) /\ 1 <= n + 1 /\ n \in Nat /\ n - 1 + 1 = n
  OBVIOUS
<1>2. /\ r \in Seq(S) /\ Len(r) = n /\ From(r, s)
      /\ \A i \in 1..n : r[i] = s[1 + i - 1]
  BY <1>1, PartIs
<1>3. \A i \in 1..n : 1 + i - 1 = i
  OBVIOUS
<1>4. \A key : NoTwice(s, key) => NoTwice(r, key)
  BY <1>1, PartNoTwice
<1>5. IsPrefix(r, s)
  <2>1. SubSeq(r, 1, Len(r)) = r
    BY <1>2
  <2> QED BY <1>1, <1>2, <2>1 DEF IsPrefix
<1> HIDE DEF r
<1>6. \A i \in 1..n : r[i] = s[i]
  BY <1>2, <1>3
<1> QED BY <1>2, <1>4, <1>5, <1>6 DEF r

LEMMA BeginningSplits ==
    ASSUME NEW S, NEW s \in Seq(S), NEW n \in 0..Len(s)
    PROVE  \E t \in Seq(S) : s = SubSeq(s, 1, n) \o t
<1> DEFINE r == SubSeq(s, 1, n)  t == SubSeq(s, n + 1, Len(s))  u == r \o t
<1>1. /\ Len(s) \in Nat /\ n \in Nat /\ n <= Len(s)
      /\ n + 1 \in 1..(Len(s) + 1) /\ Len(s) \in 0..Len(s) /\ n + 1 <= Len(s) + 1
      /\ Len(s) - (n + 1) + 1 = Len(s) - n
  OBVIOUS
<1>2. r \in Seq(S) /\ Len(r) = n /\ \A i \in 1..n : r[i] = s[i]
  BY BeginningIs
<1>3. /\ t \in Seq(S) /\ Len(t) = Len(s) - n
      /\ \A i \in 1..(Len(s) - n) : t[i] = s[n + 1 + i - 1]
  BY TailIs
<1> HIDE DEF r, t
<1>4. u \in Seq(S) /\ Len(u) = Len(r) + Len(t)
      /\ \A i \in 1..Len(u) : u[i] = IF i <= Len(r) THEN r[i] ELSE t[i - Len(r)]
  BY <1>2, <1>3, ConcatProperties
<1>5. Len(u) = Len(s)
  BY <1>1, <1>2, <1>3, <1>4
<1> HIDE DEF u
<1>6. ASSUME NEW i \in 1..Len(s) PROVE u[i] = s[i]
  <2>1. i \in 1..Len(u)
    BY <1>5
  <2>2. CASE i <= n
    <3>1. i \in 1..n
      BY <1>1, <2>2
    <3>2. u[i] = r[i]
      BY <1>2, <1>4, <2>1, <2>2
    <3> QED BY <1>2, <3>1, <3>2
  <2>3. CASE ~ (i <= n)
    <3>1. i - n \in 1..(Len(s) - n) /\ n + 1 + (i - n) - 1 = i
      BY <1>1, <2>3
    <3>2. u[i] = t[i - n]
      BY <1>2, <1>4, <2>1, <2>3
    <3> QED BY <1>3, <3>1, <3>2
  <2> QED BY <2>2, <2>3
<1>7. u = s
  BY <1>4, <1>5, <1>6, SeqEqual
<1>8. s = r \o t
  BY <1>7 DEF u
<1> QED BY <1>3, <1>8 DEF r

LEMMA EndIs ==
    ASSUME NEW S, NEW s \in Seq(S), NEW n \in 0..Len(s)
    PROVE  /\ SubSeq(s, n + 1, Len(s)) \in Seq(S) /\ Len(SubSeq(s, n + 1, Len(s))) = Len(s) - n
           /\ IsSuffix(SubSeq(s, n + 1, Len(s)), s)
<1> DEFINE t == SubSeq(s, n + 1, Len(s))
<1>1. Len(s) \in Nat /\ n + 1 \in 1..(Len(s) + 1) /\ Len(s) \in 0..Len(s) /\ n + 1 <= Len(s) + 1
      /\ Len(s) - (n + 1) + 1 = Len(s) - n
  OBVIOUS
<1>2. /\ t \in Seq(S) /\ Len(t) = Len(s) - n
      /\ \A i \in 1..(Len(s) - n) : t[i] = s[n + 1 + i - 1]
  BY TailIs
<1> HIDE DEF t
<1>3. ASSUME NEW i \in 1..Len(t) PROVE t[i] = s[Len(s) - Len(t) + i]
  <2>1. n + 1 + i - 1 = Len(s) - Len(t) + i
    BY <1>1, <1>2
  <2> QED BY <1>2, <2>1
<1>4. Len(t) <= Len(s)
  BY <1>1, <1>2
<1>5. IsSuffix(t, s)
  BY <1>2, <1>3, <1>4, SuffixIs
<1> QED BY <1>2, <1>5 DEF t
=============================================================================
