--------------------------- MODULE Selection_proof ---------------------------
(***************************************************************************)
(* What Select returns.  A claim about every prefix of a sequence is       *)
(* proved of the shortest one that it could fail for: the provers cannot   *)
(* instantiate an induction theorem.                                       *)
(***************************************************************************)
EXTENDS Selection, WellFoundedInduction, TLAPS

\* Any set of natural numbers has a least one.
LEMMA Least == ASSUME NEW S \in SUBSET Nat, S # {} PROVE \E m \in S : \A k \in S : m <= k
<1>0. IsWellFoundedOn(OpToRel(<, Nat), Nat) BY NatLessThanWellFounded
<1> DEFINE R == OpToRel(<, Nat)
<1>1. \A k, m \in Nat : k < m => <<k, m>> \in R BY DEF OpToRel
<1>2. PICK m \in S : \A k \in S : ~ (<<k, m>> \in R)
  <2> HIDE DEF R
  <2>0. IsWellFoundedOn(R, Nat) BY <1>0 DEF R
  <2> QED BY <2>0, WFMin
<1>3. \A k \in S : ~(k < m) BY <1>1, <1>2
<1> QED BY <1>3

\* The next element, and what has been selected with it.
Extended(g, s, S, n) == IF s[n] \in S THEN Append(g[n - 1], s[n]) ELSE g[n - 1]
Selects(g, s, S, m) == g = [n \in 0..m |-> IF n = 0 THEN <<>> ELSE Extended(g, s, S, n)]

LEMMA SelectionExists ==
  ASSUME NEW s, NEW S, Len(s) \in Nat PROVE \A n \in 0..Len(s) : \E g : Selects(g, s, S, n)
<1> DEFINE Bad == {n \in 0..Len(s) : ~ \E g : Selects(g, s, S, n)}
<1> SUFFICES ASSUME Bad # {} PROVE FALSE OBVIOUS
<1>1. PICK n \in Bad : \A j \in Bad : n <= j
  <2>1. Bad \in SUBSET Nat OBVIOUS
  <2> HIDE DEF Bad
  <2> QED BY <2>1, Least
<1>2. n # 0
  <2>1. Selects([i \in 0..0 |-> <<>>], s, S, 0) BY DEF Selects
  <2> QED BY <1>1, <2>1
<1>3. PICK g : Selects(g, s, S, n - 1) BY <1>1, <1>2
<1> DEFINE h == [i \in 0..n |-> IF i = n THEN Extended(g, s, S, n) ELSE g[i]]
<1>4. Selects(h, s, S, n)
  <2>1. \A i \in 0..(n - 1) : g[i] = IF i = 0 THEN <<>> ELSE Extended(g, s, S, i)
    BY <1>1, <1>2, <1>3 DEF Selects
  <2>2. n \in Nat /\ n - 1 \in 0..n /\ n - 1 # n BY <1>1, <1>2
  <2>3. h[n] = Extended(h, s, S, n) BY <2>2 DEF Extended
  <2>4. ASSUME NEW i \in 0..(n - 1) PROVE h[i] = IF i = 0 THEN <<>> ELSE Extended(h, s, S, i)
    <3>1. h[i] = g[i] BY <2>2
    <3>2. i # 0 => h[i - 1] = g[i - 1] BY <2>2
    <3> HIDE DEF h
    <3> QED BY <2>1, <3>1, <3>2 DEF Extended
  <2>5. h = [i \in 0..n |-> h[i]] OBVIOUS
  <2>6. \A i \in 0..n : h[i] = IF i = 0 THEN <<>> ELSE Extended(h, s, S, i)
    <3> HIDE DEF h
    <3> QED BY <1>2, <2>2, <2>3, <2>4
  <2> HIDE DEF h
  <2> QED BY <2>5, <2>6 DEF Selects
<1> QED BY <1>1, <1>4

LEMMA SelectIs ==
  ASSUME NEW s, NEW S, Len(s) \in Nat
  PROVE  \E g : Selects(g, s, S, Len(s)) /\ Select(s, S) = g[Len(s)]
<1>0. Len(s) \in 0..Len(s) OBVIOUS
<1>1. \E g : Selects(g, s, S, Len(s)) BY <1>0, SelectionExists
<1> DEFINE G == CHOOSE g : Selects(g, s, S, Len(s))
<1>2. Selects(G, s, S, Len(s)) BY <1>1
<1>3. Select(s, S) = G[Len(s)] BY DEF Select, Selects, Extended
<1> QED BY <1>2, <1>3

\* Nothing is selected of nothing.
LEMMA SelectNone == ASSUME NEW S PROVE Select(<<>>, S) = <<>>
<1>1. Len(<<>>) = 0 /\ Len(<<>>) \in Nat OBVIOUS
<1>2. PICK g : Selects(g, <<>>, S, 0) /\ Select(<<>>, S) = g[0] BY <1>1, SelectIs
<1> QED BY <1>2 DEF Selects

\* The elements of a longer sequence are those of the shorter one, and the last one.
LEMMA SelectAppend ==
  ASSUME NEW T, NEW s \in Seq(T), NEW x \in T, NEW S
  PROVE  Select(Append(s, x), S) = IF x \in S THEN Append(Select(s, S), x) ELSE Select(s, S)
<1> DEFINE r == Append(s, x)
<1>1. /\ r \in Seq(T) /\ Len(s) \in Nat /\ Len(r) = Len(s) + 1 /\ r[Len(s) + 1] = x
      /\ \A i \in 1..Len(s) : r[i] = s[i]
  OBVIOUS
<1> HIDE DEF r
<1>2. PICK g : Selects(g, s, S, Len(s)) /\ Select(s, S) = g[Len(s)] BY <1>1, SelectIs
<1>3. PICK h : Selects(h, r, S, Len(r)) /\ Select(r, S) = h[Len(r)] BY <1>1, SelectIs
<1>4. \A n \in 0..Len(s) : g[n] = IF n = 0 THEN <<>> ELSE Extended(g, s, S, n) BY <1>2 DEF Selects
<1>5. \A n \in 0..Len(r) : h[n] = IF n = 0 THEN <<>> ELSE Extended(h, r, S, n) BY <1>3 DEF Selects
<1>6. \A n \in 0..Len(s) : g[n] = h[n]
  <2> DEFINE Bad == {n \in 0..Len(s) : g[n] # h[n]}
  <2> SUFFICES ASSUME Bad # {} PROVE FALSE OBVIOUS
  <2>1. PICK n \in Bad : \A k \in Bad : n <= k
    <3>1. Bad \in SUBSET Nat OBVIOUS
    <3> HIDE DEF Bad
    <3> QED BY <3>1, Least
  <2>2. n \in 0..Len(s) /\ n \in 0..Len(r) BY <1>1, <2>1
  <2>3. n # 0 BY <1>4, <1>5, <2>1, <2>2
  <2>4. n - 1 \in 0..Len(s) /\ n - 1 \notin Bad /\ n \in 1..Len(s) BY <2>1, <2>2, <2>3
  <2>5. g[n - 1] = h[n - 1] /\ s[n] = r[n] BY <1>1, <2>4
  <2>6. g[n] = Extended(g, s, S, n) /\ h[n] = Extended(h, r, S, n) BY <1>4, <1>5, <2>2, <2>3
  <2>7. Extended(g, s, S, n) = Extended(h, r, S, n) BY <2>5 DEF Extended
  <2> QED BY <2>1, <2>6, <2>7
<1>7. h[Len(s) + 1] = Extended(h, r, S, Len(s) + 1) BY <1>1, <1>5
<1>8. h[Len(s)] = g[Len(s)] /\ Len(s) + 1 - 1 = Len(s) BY <1>1, <1>6
<1>9. Extended(h, r, S, Len(s) + 1) = IF x \in S THEN Append(g[Len(s)], x) ELSE g[Len(s)]
  BY <1>1, <1>8 DEF Extended
<1> QED BY <1>1, <1>2, <1>3, <1>7, <1>9 DEF r

\* Every prefix selects a sequence.
LEMMA PrefixType ==
  ASSUME NEW T, NEW s \in Seq(T), NEW S, NEW g, Selects(g, s, S, Len(s))
  PROVE  /\ Len(s) \in Nat /\ g[0] = <<>>
         /\ \A n \in 1..Len(s) : g[n] = Extended(g, s, S, n)
         /\ \A n \in 0..Len(s) : g[n] \in Seq(S \cap T)
<1>1. Len(s) \in Nat /\ \A i \in 1..Len(s) : s[i] \in T OBVIOUS
<1>3. \A n \in 0..Len(s) : g[n] = IF n = 0 THEN <<>> ELSE Extended(g, s, S, n) BY DEF Selects
<1>4. \A n \in 0..Len(s) : g[n] \in Seq(S \cap T)
  <2> DEFINE Bad == {n \in 0..Len(s) : g[n] \notin Seq(S \cap T)}
  <2> SUFFICES ASSUME Bad # {} PROVE FALSE OBVIOUS
  <2>1. PICK n \in Bad : \A k \in Bad : n <= k
    <3>1. Bad \in SUBSET Nat OBVIOUS
    <3> HIDE DEF Bad
    <3> QED BY <3>1, Least
  <2>2. n # 0
    <3>1. 0 \in 0..Len(s) BY <1>1
    <3>2. g[0] = <<>> BY <1>3, <3>1
    <3>3. <<>> \in Seq(S \cap T) OBVIOUS
    <3>4. 0 \notin Bad BY <3>2, <3>3
    <3> QED BY <2>1, <3>4
  <2>3. n - 1 \in 0..Len(s) /\ n - 1 \notin Bad /\ n \in 1..Len(s) BY <1>1, <2>1, <2>2
  <2>4. g[n - 1] \in Seq(S \cap T) /\ s[n] \in T BY <1>1, <2>3
  <2>5. s[n] \in S => Append(g[n - 1], s[n]) \in Seq(S \cap T) BY <2>4
  <2>6. g[n] = Extended(g, s, S, n) BY <1>3, <2>1, <2>2
  <2> QED BY <2>1, <2>4, <2>5, <2>6 DEF Extended
<1> QED BY <1>1, <1>3, <1>4

\* What is selected is a sequence of elements of both sets.
LEMMA SelectType ==
  ASSUME NEW T, NEW s \in Seq(T), NEW S
  PROVE  Select(s, S) \in Seq(S \cap T)
<1>1. Len(s) \in Nat OBVIOUS
<1>2. PICK g : Selects(g, s, S, Len(s)) /\ Select(s, S) = g[Len(s)] BY <1>1, SelectIs
<1>3. \A n \in 0..Len(s) : g[n] \in Seq(S \cap T) BY <1>2, PrefixType
<1> QED BY <1>1, <1>2, <1>3

\* The selection keeps any order that the elements come in.
LEMMA SelectOrdered ==
  ASSUME NEW T, NEW s \in Seq(T), NEW S, NEW R,
         \A i, j \in 1..Len(s) : i < j => <<s[i], s[j]>> \in R
  PROVE  \A i, j \in 1..Len(Select(s, S)) : i < j => <<Select(s, S)[i], Select(s, S)[j]>> \in R
<1>1. Len(s) \in Nat OBVIOUS
<1>2. PICK g : Selects(g, s, S, Len(s)) /\ Select(s, S) = g[Len(s)] BY <1>1, SelectIs
<1>3. /\ Len(s) \in Nat /\ g[0] = <<>>
      /\ \A n \in 1..Len(s) : g[n] = Extended(g, s, S, n)
      /\ \A n \in 0..Len(s) : g[n] \in Seq(S \cap T)
  BY <1>2, PrefixType
<1> DEFINE Ordered(n) == /\ \A i, j \in 1..Len(g[n]) : i < j => <<g[n][i], g[n][j]>> \in R
                         /\ \A i \in 1..Len(g[n]) : \E k \in 1..n : g[n][i] = s[k]
           Bad == {n \in 0..Len(s) : ~Ordered(n)}
<1>4. \A n \in 0..Len(s) : Ordered(n)
  <2> SUFFICES ASSUME Bad # {} PROVE FALSE OBVIOUS
  <2>1. PICK n \in Bad : \A k \in Bad : n <= k
    <3>1. Bad \in SUBSET Nat OBVIOUS
    <3> HIDE DEF Bad
    <3> QED BY <3>1, Least
  <2>2. n # 0
    <3>1. Ordered(0) BY <1>3
    <3> QED BY <2>1, <3>1
  <2>3. n - 1 \in 0..Len(s) /\ n - 1 \notin Bad /\ n \in 1..Len(s)
    <3> HIDE DEF Ordered
    <3> QED BY <1>1, <2>1, <2>2
  <2>4. Ordered(n - 1) BY <2>3
  <2> DEFINE p == g[n - 1]
             q == g[n]
             m == n - 1
  <2>5. p \in Seq(S \cap T) /\ q = (IF s[n] \in S THEN Append(p, s[n]) ELSE p) BY <1>3, <2>3 DEF Extended
  <2>6. /\ \A i, j \in 1..Len(p) : i < j => <<p[i], p[j]>> \in R
        /\ \A i \in 1..Len(p) : \E k \in 1..m : p[i] = s[k]
    BY <2>4
  <2>7. m \in Nat /\ n = m + 1 /\ n \in 1..Len(s) BY <2>3
  <2>8. ~Ordered(n) BY <2>1
  <2>9. ~(/\ \A i, j \in 1..Len(q) : i < j => <<q[i], q[j]>> \in R
          /\ \A i \in 1..Len(q) : \E k \in 1..n : q[i] = s[k])
    BY <2>8
  <2> HIDE DEF Bad, Ordered, p, q, m
  <2>10. CASE s[n] \notin S
    <3>1. q = p BY <2>5, <2>10
    <3>2. \A k \in 1..m : k \in 1..n BY <2>7
    <3> QED BY ONLY <3>1, <3>2, <2>6, <2>9
  <2>11. CASE s[n] \in S
    <3>1. q = Append(p, s[n]) BY <2>5, <2>11
    <3>2. Len(p) \in Nat BY <2>5
    <3>3. s[n] \in S \cap T BY <2>7, <2>11
    <3>4. Len(q) = Len(p) + 1 /\ q[Len(p) + 1] = s[n] /\ \A i \in 1..Len(p) : q[i] = p[i]
      BY ONLY <2>5, <3>1, <3>3
    <3>5. \A i \in 1..Len(p) : <<p[i], s[n]>> \in R
      <4>1. ASSUME NEW i \in 1..Len(p) PROVE <<p[i], s[n]>> \in R
        <5>1. PICK k \in 1..m : p[i] = s[k] BY <2>6
        <5>2. k \in 1..Len(s) /\ k < n BY <2>7
        <5> QED BY <2>7, <5>1, <5>2
      <4> QED BY <4>1
    <3>6. ASSUME NEW i \in 1..Len(q), NEW j \in 1..Len(q), i < j PROVE <<q[i], q[j]>> \in R
      <4>1. i \in 1..Len(p) /\ (j \in 1..Len(p) \/ j = Len(p) + 1) BY ONLY <3>2, <3>4, <3>6
      <4> QED BY ONLY <2>6, <3>4, <3>5, <3>6, <4>1
    <3>7. ASSUME NEW i \in 1..Len(q) PROVE \E k \in 1..n : q[i] = s[k]
      <4>1. i \in 1..Len(p) \/ i = Len(p) + 1 BY ONLY <3>2, <3>4, <3>7
      <4>2. n \in 1..n /\ \A k \in 1..m : k \in 1..n BY ONLY <2>7
      <4> QED BY ONLY <2>6, <3>4, <4>1, <4>2
    <3> QED BY <2>9, <3>6, <3>7
  <2> QED BY <2>10, <2>11
<1> HIDE DEF Bad
<1>5. Ordered(Len(s)) BY <1>1, <1>4
<1> QED BY <1>2, <1>5

\* The sequences are selected from at the same places, and there t is what f makes of s.
Corresponds(s, S, t, T, f) ==
  /\ Len(t) = Len(s)
  /\ \A i \in 1..Len(s) : (s[i] \in S <=> t[i] \in T) /\ (s[i] \in S => t[i] = f[s[i]])

\* Then what is selected of the one is what f makes of what is selected of the other.
LEMMA SelectMapped ==
  ASSUME NEW A, NEW B, NEW s \in Seq(A), NEW t \in Seq(B), NEW S, NEW T, NEW f,
         Corresponds(s, S, t, T, f)
  PROVE  /\ Len(Select(t, T)) = Len(Select(s, S))
         /\ \A i \in 1..Len(Select(s, S)) : Select(t, T)[i] = f[Select(s, S)[i]]
<1>0. /\ Len(t) = Len(s)
      /\ \A i \in 1..Len(s) : (s[i] \in S <=> t[i] \in T) /\ (s[i] \in S => t[i] = f[s[i]])
  BY DEF Corresponds
<1>1. Len(s) \in Nat /\ Len(t) \in Nat OBVIOUS
<1>2. PICK g : Selects(g, s, S, Len(s)) /\ Select(s, S) = g[Len(s)] BY <1>1, SelectIs
<1>3. PICK h : Selects(h, t, T, Len(t)) /\ Select(t, T) = h[Len(t)] BY <1>1, SelectIs
<1>4. /\ Len(s) \in Nat /\ g[0] = <<>>
      /\ \A n \in 1..Len(s) : g[n] = Extended(g, s, S, n)
      /\ \A n \in 0..Len(s) : g[n] \in Seq(S \cap A)
  BY <1>2, PrefixType
<1>5. /\ Len(t) \in Nat /\ h[0] = <<>>
      /\ \A n \in 1..Len(t) : h[n] = Extended(h, t, T, n)
      /\ \A n \in 0..Len(t) : h[n] \in Seq(T \cap B)
  BY <1>3, PrefixType
<1> DEFINE Like(n) == Len(h[n]) = Len(g[n]) /\ \A i \in 1..Len(g[n]) : h[n][i] = f[g[n][i]]
           Bad == {n \in 0..Len(s) : ~Like(n)}
<1>6. \A n \in 0..Len(s) : Like(n)
  <2> SUFFICES ASSUME Bad # {} PROVE FALSE OBVIOUS
  <2>1. PICK n \in Bad : \A k \in Bad : n <= k
    <3>1. Bad \in SUBSET Nat OBVIOUS
    <3> HIDE DEF Bad
    <3> QED BY <3>1, Least
  <2>2. n # 0
    <3>1. Like(0) BY <1>4, <1>5
    <3> QED BY <2>1, <3>1
  <2>3. n - 1 \in 0..Len(s) /\ n - 1 \notin Bad /\ n \in 1..Len(s) BY <1>1, <2>1, <2>2
  <2>4. Like(n - 1) /\ ~Like(n) BY <2>1, <2>3
  <2> DEFINE p == g[n - 1]
             r == h[n - 1]
             v == s[n]
             w == t[n]
  <2>5. p \in Seq(S \cap A) /\ g[n] = (IF v \in S THEN Append(p, v) ELSE p) BY <1>4, <2>3 DEF Extended
  <2>6. r \in Seq(T \cap B) /\ h[n] = (IF w \in T THEN Append(r, w) ELSE r) BY <1>0, <1>5, <2>3 DEF Extended
  <2>7. Len(r) = Len(p) /\ \A i \in 1..Len(p) : r[i] = f[p[i]] BY <2>4
  <2>8. v \in A /\ w \in B /\ (v \in S <=> w \in T) /\ (v \in S => w = f[v]) BY <1>0, <2>3
  <2> HIDE DEF Bad, p, r, v, w
  <2>9. CASE v \notin S
    <3>1. g[n] = p /\ h[n] = r BY <2>5, <2>6, <2>8, <2>9
    <3> QED BY <2>4, <2>7, <3>1
  <2>10. CASE v \in S
    <3>1. g[n] = Append(p, v) /\ h[n] = Append(r, w) BY <2>5, <2>6, <2>8, <2>10
    <3>2. Len(p) \in Nat /\ v \in S \cap A /\ w \in T \cap B BY <2>5, <2>8, <2>10
    <3>3. /\ Len(Append(p, v)) = Len(p) + 1 /\ Append(p, v)[Len(p) + 1] = v
          /\ \A i \in 1..Len(p) : Append(p, v)[i] = p[i]
      BY ONLY <2>5, <3>2
    <3>4. /\ Len(Append(r, w)) = Len(r) + 1 /\ Append(r, w)[Len(r) + 1] = w
          /\ \A i \in 1..Len(r) : Append(r, w)[i] = r[i]
      BY ONLY <2>6, <3>2
    <3>5. ASSUME NEW i \in 1..Len(g[n]) PROVE h[n][i] = f[g[n][i]]
      <4>1. i \in 1..Len(p) \/ i = Len(p) + 1 BY <3>1, <3>2, <3>3
      <4> QED BY ONLY <2>7, <2>8, <2>10, <3>1, <3>3, <3>4, <4>1
    <3>6. Len(h[n]) = Len(g[n]) BY ONLY <2>7, <3>1, <3>3, <3>4
    <3> QED BY <2>4, <3>5, <3>6
  <2> QED BY <2>9, <2>10
<1> HIDE DEF Bad
<1>7. Like(Len(s)) BY <1>1, <1>6
<1> QED BY <1>0, <1>1, <1>2, <1>3, <1>7
=============================================================================
