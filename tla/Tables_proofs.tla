----------------------------- MODULE Tables_proofs -----------------------------
(***************************************************************************)
(* The shield for every text, whatever hits its layers find on it, and for *)
(* every reply, wherever it is cut; the promise registry and its standing  *)
(* queries for every documents they are read from.                         *)
(*                                                                         *)
(* What is computed recursively is reasoned about by induction over sets:  *)
(* a set of naturals that holds 0 and the successor of each of its members *)
(* holds all, as the rest would have a least member.  With it the folds    *)
(* and flattenings of the community modules unfold one element at a time.  *)
(***************************************************************************)
EXTENDS ShieldStream, StandingQueries, SequenceTheorems, FiniteSetTheorems, WellFoundedInduction, TLAPS

LEMMA LeastNatural ==
  ASSUME NEW T \in SUBSET Nat, T # {}
  PROVE  \E x \in T : \A y \in T : x <= y
<1> DEFINE R == OpToRel(<, Nat)
<1>1. IsWellFoundedOn(R, Nat)
  BY NatLessThanWellFounded
<1>2. PICK x \in T : \A y \in T : <<y, x>> \notin R
  <2> HIDE DEF R
  <2> QED BY <1>1, WFMin, Zenon
<1>3. \A y \in T : ~(y < x)
  BY <1>2 DEF OpToRel
<1>4. ASSUME NEW y \in T PROVE x <= y
  <2>1. x \in Nat /\ y \in Nat /\ ~(y < x)
    BY <1>3
  <2> QED BY <2>1
<1> QED BY <1>4

LEMMA NatSetInduction ==
  ASSUME NEW S, 0 \in S, \A n \in Nat : n \in S => n + 1 \in S
  PROVE  \A n \in Nat : n \in S
<1> SUFFICES ASSUME Nat \ S # {} PROVE FALSE
  OBVIOUS
<1>1. PICK x \in Nat \ S : \A y \in Nat \ S : x <= y
  BY LeastNatural
<1>2. x # 0 /\ x \in Nat /\ x \notin S
  BY <1>1
<1>3. x - 1 \in Nat /\ (x - 1) + 1 = x
  BY <1>2
<1>4. x - 1 \in S
  BY <1>1, <1>3
<1> QED BY <1>2, <1>3, <1>4

LEMMA TakeFacts ==
  ASSUME NEW A, NEW t \in Seq(A), NEW n \in 0..Len(t)
  PROVE  /\ SubSeq(t, 1, n) \in Seq(A)
         /\ Len(SubSeq(t, 1, n)) = n
         /\ \A j \in 1..n : SubSeq(t, 1, n)[j] = t[j]
<1>1. Len(t) \in Nat
  BY LenProperties
<1>2. n \in Int /\ \A j \in 1..n : t[j] \in A
  BY <1>1, ElementOfSeq
<1>3. /\ SubSeq(t, 1, n) \in Seq(A)
      /\ Len(SubSeq(t, 1, n)) = IF 1 <= n THEN n - 1 + 1 ELSE 0
      /\ \A j \in 1..(n - 1 + 1) : SubSeq(t, 1, n)[j] = t[1 + j - 1]
  BY <1>2, SubSeqProperties
<1>4. n - 1 + 1 = n /\ (~(1 <= n) => n = 0) /\ \A j \in 1..n : 1 + j - 1 = j
  BY <1>1
<1> QED BY <1>3, <1>4

------------------------------------------------------------------------------
(****************************************************************************)
(* Flattening.                                                               *)
(****************************************************************************)
\* The partial results of a flattening.
IsFlattening(f, seqs, n) ==
  /\ f[1] = seqs[1]
  /\ \A i \in 2..n : f[i] = f[i - 1] \o seqs[i]

FlatStep(f, seqs, i) == IF i = 1 THEN seqs[i] ELSE f[i - 1] \o seqs[i]

\* The first m partial results are those of the steps.
FlatUpto(S, seqs, m, f) ==
  f \in [1..Len(seqs) -> Seq(S)] /\ \A i \in 1..m : f[i] = FlatStep(f, seqs, i)
FlatReaches(S, seqs, m) == m <= Len(seqs) => \E f : FlatUpto(S, seqs, m, f)

LEMMA FlatOneMore ==
  ASSUME NEW S, NEW seqs \in Seq(Seq(S)), NEW m \in Nat, m + 1 <= Len(seqs),
         NEW f, FlatUpto(S, seqs, m, f)
  PROVE  \E g : FlatUpto(S, seqs, m + 1, g)
<1> DEFINE n == Len(seqs)
<1>1. n \in Nat /\ \A i \in 1..n : seqs[i] \in Seq(S)
  BY LenProperties, ElementOfSeq
<1>2. f \in [1..n -> Seq(S)] /\ \A i \in 1..m : f[i] = FlatStep(f, seqs, i)
  BY DEF FlatUpto
<1>3. m + 1 <= n
  OBVIOUS
<1>4. SUFFICES \E g \in [1..n -> Seq(S)] : \A i \in 1..(m + 1) : g[i] = FlatStep(g, seqs, i)
  BY DEF FlatUpto
<1> HIDE DEF n
<1>5. FlatStep(f, seqs, m + 1) \in Seq(S)
  <2>1. m + 1 \in 1..n /\ (m + 1 # 1 => (m + 1) - 1 \in 1..n)
    BY <1>1, <1>3
  <2>2. seqs[m + 1] \in Seq(S) /\ (m + 1 # 1 => f[(m + 1) - 1] \in Seq(S))
    BY <1>1, <1>2, <2>1
  <2>3. m + 1 # 1 => f[(m + 1) - 1] \o seqs[m + 1] \in Seq(S)
    BY <2>2, ConcatProperties
  <2> QED BY <2>2, <2>3 DEF FlatStep
<1> DEFINE g == [i \in 1..n |-> IF i = m + 1 THEN FlatStep(f, seqs, m + 1) ELSE f[i]]
<1>6. g \in [1..n -> Seq(S)]
  BY <1>2, <1>5
<1>7. ASSUME NEW i \in 1..(m + 1) PROVE g[i] = FlatStep(g, seqs, i)
  <2>1. i \in 1..n /\ (i # 1 => i - 1 \in 1..n /\ i - 1 # m + 1)
    BY <1>1, <1>3
  <2>2. i # 1 => g[i - 1] = f[i - 1]
    BY <2>1
  <2>3. FlatStep(g, seqs, i) = FlatStep(f, seqs, i)
    BY <2>2 DEF FlatStep
  <2>4. i # m + 1 => i \in 1..m
    OBVIOUS
  <2>5. i # m + 1 => g[i] = f[i] /\ f[i] = FlatStep(f, seqs, i)
    BY <1>2, <2>1, <2>4
  <2>6. i = m + 1 => g[i] = FlatStep(f, seqs, i)
    BY <2>1
  <2> QED BY <2>3, <2>5, <2>6
<1> HIDE DEF g
<1> QED BY <1>6, <1>7

LEMMA FlatFunction ==
  ASSUME NEW S, NEW seqs \in Seq(Seq(S)), Len(seqs) # 0
  PROVE  \E f \in [1..Len(seqs) -> Seq(S)] :
           /\ IsFlattening(f, seqs, Len(seqs))
           /\ FlattenSeq(seqs) = f[Len(seqs)]
<1> DEFINE n == Len(seqs)
           Good == {m \in Nat : FlatReaches(S, seqs, m)}
<1>1. n \in Nat /\ 1 \in 1..n /\ n \in 1..n
  BY LenProperties
<1>2. FlattenSeq(seqs) = (CHOOSE f : f = [i \in 1..n |-> FlatStep(f, seqs, i)])[n]
  BY DEF FlattenSeq, FlatStep
<1>3. 0 \in Good
  <2>1. [i \in 1..n |-> <<>>] \in [1..n -> Seq(S)]
    BY EmptySeq
  <2>2. FlatUpto(S, seqs, 0, [i \in 1..n |-> <<>>])
    BY <2>1 DEF FlatUpto
  <2> QED BY <2>2 DEF FlatReaches
<1>4. ASSUME NEW m \in Nat, m \in Good PROVE m + 1 \in Good
  <2>1. FlatReaches(S, seqs, m)
    BY <1>4
  <2>2. ASSUME m + 1 <= n PROVE \E f : FlatUpto(S, seqs, m + 1, f)
    <3>1. m <= n
      BY <1>1, <2>2
    <3>2. PICK f : FlatUpto(S, seqs, m, f)
      BY <2>1, <3>1 DEF FlatReaches
    <3> QED BY <2>2, <3>2, FlatOneMore
  <2>3. FlatReaches(S, seqs, m + 1)
    BY <2>2 DEF FlatReaches
  <2> QED BY <2>3
<1>5. n \in Good
  <2> HIDE DEF Good
  <2> QED BY <1>1, <1>3, <1>4, NatSetInduction
<1>6. PICK f : FlatUpto(S, seqs, n, f)
  BY <1>1, <1>5 DEF FlatReaches
<1>7. f \in [1..n -> Seq(S)] /\ \A i \in 1..n : f[i] = FlatStep(f, seqs, i)
  BY <1>6 DEF FlatUpto
<1>8. f = [i \in 1..n |-> FlatStep(f, seqs, i)]
  BY <1>7
<1> DEFINE h == CHOOSE f_1 : f_1 = [i \in 1..n |-> FlatStep(f_1, seqs, i)]
<1>9. h = [i \in 1..n |-> FlatStep(h, seqs, i)]
  BY <1>8
<1>10. FlattenSeq(seqs) = h[n]
  BY <1>2
<1> HIDE DEF h
<1>11. \A i \in 1..n : h[i] = FlatStep(h, seqs, i)
  BY <1>9
<1> DEFINE Same == {m \in Nat : \A i \in 1..n : i <= m => h[i] = f[i]}
<1>12. 0 \in Same
  BY <1>1
<1>13. ASSUME NEW m \in Nat, m \in Same PROVE m + 1 \in Same
  <2> SUFFICES ASSUME NEW i \in 1..n, i <= m + 1 PROVE h[i] = f[i]
    OBVIOUS
  <2>1. i # 1 => i - 1 \in 1..n /\ i - 1 <= m
    BY <1>1
  <2>2. i # 1 => h[i - 1] = f[i - 1]
    BY <1>13, <2>1
  <2>3. FlatStep(h, seqs, i) = FlatStep(f, seqs, i)
    BY <2>2 DEF FlatStep
  <2> QED BY <1>7, <1>11, <2>3
<1>14. n \in Same
  <2> HIDE DEF Same
  <2> QED BY <1>1, <1>12, <1>13, NatSetInduction
<1>15. FlattenSeq(seqs) = f[n]
  BY <1>1, <1>10, <1>14
<1>16. IsFlattening(f, seqs, n)
  <2>1. f[1] = FlatStep(f, seqs, 1)
    BY <1>1, <1>7
  <2>2. f[1] = seqs[1]
    BY <2>1 DEF FlatStep
  <2>3. ASSUME NEW i \in 2..n PROVE f[i] = f[i - 1] \o seqs[i]
    <3>1. i \in 1..n /\ i # 1
      BY <1>1
    <3> QED BY <1>7, <3>1 DEF FlatStep
  <2> QED BY <2>2, <2>3 DEF IsFlattening
<1> QED BY <1>7, <1>15, <1>16

LEMMA FlatEmpty ==
  FlattenSeq(<<>>) = <<>>
BY EmptySeq DEF FlattenSeq

LEMMA FlatAppend ==
  ASSUME NEW S, NEW seqs \in Seq(Seq(S)), NEW s \in Seq(S)
  PROVE  FlattenSeq(Append(seqs, s)) = FlattenSeq(seqs) \o s
<1> DEFINE n == Len(seqs)
           w == Append(seqs, s)
<1>1. /\ w \in Seq(Seq(S)) /\ Len(w) = n + 1 /\ w[n + 1] = s /\ n \in Nat
      /\ \A i \in 1..n : w[i] = seqs[i]
  BY AppendProperties, LenProperties
<1> HIDE DEF w, n
<1>2. Len(w) # 0
  BY <1>1
<1>3. PICK g \in [1..Len(w) -> Seq(S)] : IsFlattening(g, w, Len(w)) /\ FlattenSeq(w) = g[Len(w)]
  BY <1>1, <1>2, FlatFunction
<1>4. CASE n = 0
  <2>1. seqs = <<>> /\ FlattenSeq(seqs) = <<>>
    BY <1>4, EmptySeq, FlatEmpty DEF n
  <2>2. FlattenSeq(w) = s
    BY <1>1, <1>3, <1>4 DEF IsFlattening
  <2>3. <<>> \o s = s
    BY ConcatEmptySeq
  <2> QED BY <2>1, <2>2, <2>3 DEF w
<1>5. CASE n # 0
  <2>1. PICK f \in [1..n -> Seq(S)] : IsFlattening(f, seqs, n) /\ FlattenSeq(seqs) = f[n]
    BY <1>5, FlatFunction DEF n
  <2> DEFINE Same == {m \in Nat : \A i \in 1..n : i <= m => g[i] = f[i]}
  <2>2. 0 \in Same
    OBVIOUS
  <2>3. ASSUME NEW m \in Nat, m \in Same PROVE m + 1 \in Same
    <3> SUFFICES ASSUME NEW i \in 1..n, i <= m + 1 PROVE g[i] = f[i]
      OBVIOUS
    <3>1. CASE i = 1
      <4>1. f[1] = seqs[1] /\ g[1] = w[1] /\ w[1] = seqs[1]
        BY <1>1, <1>3, <2>1, <3>1 DEF IsFlattening
      <4> QED BY <3>1, <4>1
    <3>2. CASE i # 1
      <4>1. i \in 2..n /\ i \in 2..Len(w) /\ i - 1 \in 1..n /\ i - 1 <= m
        BY <1>1, <3>2
      <4>2. g[i - 1] = f[i - 1]
        BY <2>3, <4>1
      <4>3. g[i] = g[i - 1] \o w[i] /\ f[i] = f[i - 1] \o seqs[i] /\ w[i] = seqs[i]
        BY <1>1, <1>3, <2>1, <4>1 DEF IsFlattening
      <4> QED BY <4>2, <4>3
    <3> QED BY <3>1, <3>2
  <2>4. n \in Same
    <3> HIDE DEF Same
    <3> QED BY <1>1, <2>2, <2>3, NatSetInduction
  <2>5. n \in 1..n
    BY <1>1, <1>5
  <2>6. g[n] = f[n]
    BY <2>4, <2>5
  <2>7. n + 1 \in 2..Len(w) /\ (n + 1) - 1 = n
    BY <1>1, <1>5
  <2>8. g[n + 1] = g[n] \o w[n + 1]
    BY <1>3, <2>7 DEF IsFlattening
  <2> QED BY <1>1, <1>3, <2>1, <2>6, <2>8 DEF w
<1> QED BY <1>4, <1>5

\* Every sequence is empty or something appended, so what holds of the empty one and stays
\* true under Append holds of all.
LEMMA SeqAppended ==
  ASSUME NEW S, NEW Q, <<>> \in Q, \A s \in Seq(S) : \A e \in S : s \in Q => Append(s, e) \in Q
  PROVE  \A s \in Seq(S) : s \in Q
<1> DEFINE Good == {n \in Nat : \A s \in Seq(S) : Len(s) = n => s \in Q}
<1>1. 0 \in Good
  <2>1. \A s \in Seq(S) : Len(s) = 0 => s = <<>>
    BY EmptySeq
  <2> QED BY <2>1
<1>2. ASSUME NEW n \in Nat, n \in Good PROVE n + 1 \in Good
  <2> SUFFICES ASSUME NEW s \in Seq(S), Len(s) = n + 1 PROVE s \in Q
    OBVIOUS
  <2>1. s # <<>>
    BY EmptySeq
  <2>2. PICK r \in Seq(S), e \in S : s = Append(r, e)
    BY <2>1, SequenceEmptyOrAppend
  <2>3. Len(s) = Len(r) + 1 /\ Len(r) \in Nat
    BY <2>2, AppendProperties, LenProperties
  <2>4. Len(r) = n
    BY <2>3
  <2> QED BY <1>2, <2>2, <2>4
<1>3. ASSUME NEW s \in Seq(S) PROVE s \in Q
  <2>1. Len(s) \in Nat
    BY LenProperties
  <2>2. Len(s) \in Good
    <3> HIDE DEF Good
    <3> QED BY <1>1, <1>2, <2>1, NatSetInduction
  <2> QED BY <2>2
<1> QED BY <1>3

LEMMA FlatType ==
  ASSUME NEW S
  PROVE  \A seqs \in Seq(Seq(S)) : FlattenSeq(seqs) \in Seq(S)
<1> DEFINE Q == {seqs \in Seq(Seq(S)) : FlattenSeq(seqs) \in Seq(S)}
<1>1. <<>> \in Q
  BY FlatEmpty, EmptySeq
<1>2. ASSUME NEW s \in Seq(Seq(S)), NEW e \in Seq(S), s \in Q PROVE Append(s, e) \in Q
  <2>1. FlattenSeq(Append(s, e)) = FlattenSeq(s) \o e /\ Append(s, e) \in Seq(Seq(S))
    BY FlatAppend, AppendProperties
  <2>2. FlattenSeq(s) \in Seq(S)
    BY <1>2
  <2>3. FlattenSeq(s) \o e \in Seq(S)
    BY <2>2, ConcatProperties
  <2> QED BY <2>1, <2>3
<1> HIDE DEF Q
<1>3. \A s \in Seq(Seq(S)) : s \in Q
  BY <1>1, <1>2, SeqAppended
<1> QED BY <1>3 DEF Q

LEMMA FlatConcat ==
  ASSUME NEW S, NEW s \in Seq(Seq(S))
  PROVE  \A t \in Seq(Seq(S)) : FlattenSeq(s \o t) = FlattenSeq(s) \o FlattenSeq(t)
<1> DEFINE Q == {t \in Seq(Seq(S)) : FlattenSeq(s \o t) = FlattenSeq(s) \o FlattenSeq(t)}
<1>0. FlattenSeq(s) \in Seq(S)
  BY FlatType
<1>1. <<>> \in Q
  <2>1. s \o <<>> = s /\ FlattenSeq(s) \o <<>> = FlattenSeq(s)
    BY <1>0, ConcatEmptySeq
  <2> QED BY <2>1, FlatEmpty, EmptySeq
<1>2. ASSUME NEW t \in Seq(Seq(S)), NEW e \in Seq(S), t \in Q PROVE Append(t, e) \in Q
  <2> DEFINE fs == FlattenSeq(s)
             ft == FlattenSeq(t)
  <2>1. FlattenSeq(Append(t, e)) = ft \o e /\ Append(t, e) \in Seq(Seq(S))
    BY FlatAppend, AppendProperties
  <2>2. s \o Append(t, e) = Append(s \o t, e) /\ s \o t \in Seq(Seq(S))
    <3>1. Append(t, e) = t \o <<e>> /\ <<e>> \in Seq(Seq(S))
      BY AppendIsConcat
    <3> DEFINE one == <<e>>
    <3>2. (s \o t) \o one = s \o (t \o one)
      <4>1. s \in Seq(Seq(S)) /\ t \in Seq(Seq(S)) /\ one \in Seq(Seq(S))
        BY <3>1
      <4> HIDE DEF one
      <4> QED BY ONLY <4>1, ConcatAssociative, SMTT(30)
    <3>3. s \o t \in Seq(Seq(S))
      BY ConcatProperties
    <3>4. Append(s \o t, e) = (s \o t) \o <<e>>
      BY <3>3, AppendIsConcat
    <3> QED BY <3>1, <3>2, <3>3, <3>4
  <2>3. FlattenSeq(Append(s \o t, e)) = FlattenSeq(s \o t) \o e
    BY <2>2, FlatAppend
  <2>4. FlattenSeq(s \o t) = fs \o ft
    BY <1>2
  <2>5. fs \in Seq(S) /\ ft \in Seq(S)
    BY FlatType
  <2> HIDE DEF fs, ft
  <2>6. (fs \o ft) \o e = fs \o (ft \o e)
    <3>1. e \in Seq(S)
      OBVIOUS
    <3> QED BY ONLY <2>5, <3>1, ConcatAssociative, SMTT(30)
  <2>7. FlattenSeq(s \o Append(t, e)) = fs \o FlattenSeq(Append(t, e))
    BY <2>1, <2>2, <2>3, <2>4, <2>6
  <2> QED BY <2>1, <2>7 DEF fs
<1> HIDE DEF Q
<1>3. \A t \in Seq(Seq(S)) : t \in Q
  BY <1>1, <1>2, SeqAppended
<1> QED BY <1>3 DEF Q

------------------------------------------------------------------------------
(****************************************************************************)
(* The order of the hits: each has as many before it as its place says.      *)
(****************************************************************************)
Below(hits, h) == {g \in hits : Before(g, h)}
Rank(hits, h) == Cardinality(Below(hits, h))

LEMMA FewerWithin ==
  ASSUME NEW T, IsFiniteSet(T), NEW S \in SUBSET T, S # T
  PROVE  IsFiniteSet(S) /\ Cardinality(S) \in Nat /\ Cardinality(S) < Cardinality(T)
<1>1. IsFiniteSet(S) /\ Cardinality(S) <= Cardinality(T) /\ Cardinality(T) # Cardinality(S)
  BY FS_Subset
<1>2. Cardinality(S) \in Nat /\ Cardinality(T) \in Nat
  BY <1>1, FS_CardinalityType
<1> QED BY <1>1, <1>2

LEMMA BeforeOrders ==
  ASSUME NEW hits, NEW length, HitsOn(hits, length)
  PROVE  /\ \A h \in hits : ~Before(h, h)
         /\ \A f, g, h \in hits : Before(f, g) /\ Before(g, h) => Before(f, h)
         /\ \A g, h \in hits : Before(g, h) => g.start <= h.start
<1>1. \A h \in hits : h.start \in Nat /\ h.end \in Nat /\ h.layer \in Nat /\ h.found \in Nat
  BY DEF HitsOn
<1>2. ASSUME NEW h \in hits PROVE ~Before(h, h)
  BY <1>1 DEF Before
<1>3. ASSUME NEW f \in hits, NEW g \in hits, NEW h \in hits, Before(f, g), Before(g, h)
      PROVE  Before(f, h)
  BY <1>1, <1>3 DEF Before
<1>4. ASSUME NEW g \in hits, NEW h \in hits, Before(g, h) PROVE g.start <= h.start
  BY <1>1, <1>4 DEF Before
<1> QED BY <1>2, <1>3, <1>4

LEMMA RankFacts ==
  ASSUME NEW hits, NEW length, HitsOn(hits, length)
  PROVE  /\ Cardinality(hits) \in Nat
         /\ \A h \in hits : Rank(hits, h) \in 0..(Cardinality(hits) - 1)
         /\ \A g, h \in hits : Before(g, h) => Rank(hits, g) < Rank(hits, h)
<1>1. IsFiniteSet(hits)
  BY DEF HitsOn
<1>2. Cardinality(hits) \in Nat
  BY <1>1, FS_CardinalityType
<1>3. \A h \in hits : /\ Below(hits, h) \subseteq hits /\ h \notin Below(hits, h)
                      /\ IsFiniteSet(Below(hits, h)) /\ Rank(hits, h) \in Nat
  <2> TAKE h \in hits
  <2>1. Below(hits, h) \subseteq hits /\ h \notin Below(hits, h)
    BY BeforeOrders DEF Below
  <2>2. IsFiniteSet(Below(hits, h))
    BY <1>1, <2>1, FS_Subset
  <2>3. Cardinality(Below(hits, h)) \in Nat
    BY <2>2, FS_CardinalityType
  <2> QED BY <2>1, <2>2, <2>3 DEF Rank
<1>4. ASSUME NEW h \in hits PROVE Rank(hits, h) \in 0..(Cardinality(hits) - 1)
  <2>1. Below(hits, h) \subseteq hits /\ Below(hits, h) # hits
    BY <1>3
  <2>2. Cardinality(Below(hits, h)) < Cardinality(hits)
    BY <1>1, <2>1, FewerWithin
  <2> QED BY <1>2, <1>3, <2>2 DEF Rank
<1>5. ASSUME NEW g \in hits, NEW h \in hits, Before(g, h) PROVE Rank(hits, g) < Rank(hits, h)
  <2>1. Below(hits, g) \subseteq Below(hits, h)
    BY <1>5, BeforeOrders DEF Below
  <2>2. g \in Below(hits, h) /\ g \notin Below(hits, g)
    BY <1>3, <1>5 DEF Below
  <2>3. Below(hits, g) # Below(hits, h) /\ IsFiniteSet(Below(hits, h))
    BY <1>3, <2>2
  <2>4. Cardinality(Below(hits, g)) < Cardinality(Below(hits, h))
    BY <2>1, <2>3, FewerWithin
  <2> QED BY <2>4 DEF Rank
<1> QED BY <1>2, <1>4, <1>5

LEMMA RanksAreTaken ==
  ASSUME NEW hits, NEW length, HitsOn(hits, length), NEW k \in 0..(Cardinality(hits) - 1)
  PROVE  \E h \in hits : Rank(hits, h) = k
<1> DEFINE n == Cardinality(hits)
           S == 0..(n - 1)
           R == [h \in hits |-> Rank(hits, h)]
<1>1. IsFiniteSet(hits) /\ n \in Nat
  BY RankFacts DEF HitsOn
<1>2. \A g, h \in hits : g # h => Rank(hits, g) # Rank(hits, h)
  <2> SUFFICES ASSUME NEW g \in hits, NEW h \in hits, g # h PROVE Rank(hits, g) # Rank(hits, h)
    OBVIOUS
  <2>1. Before(g, h) \/ Before(h, g)
    BY DEF HitsOn
  <2>2. Rank(hits, g) < Rank(hits, h) \/ Rank(hits, h) < Rank(hits, g)
    BY <2>1, RankFacts
  <2>3. Rank(hits, g) \in Nat /\ Rank(hits, h) \in Nat
    BY RankFacts
  <2> QED BY <2>2, <2>3
<1>3. R \in [hits -> S]
  BY RankFacts
<1>4. IsFiniteSet(S) /\ Cardinality(S) = n
  <2>1. 0 \in Int /\ n - 1 \in Int
    BY <1>1
  <2>2. /\ IsFiniteSet(0..(n - 1))
        /\ Cardinality(0..(n - 1)) = IF 0 > n - 1 THEN 0 ELSE n - 1 - 0 + 1
    <3> DEFINE m == n - 1
    <3>1. m \in Int
      BY <2>1
    <3> HIDE DEF m
    <3>2. IsFiniteSet(0..m) /\ Cardinality(0..m) = IF 0 > m THEN 0 ELSE m - 0 + 1
      BY <3>1, FS_Interval
    <3> QED BY <3>2 DEF m
  <2> QED BY <1>1, <2>2
<1>5. R \in Injection(hits, S)
  <2>1. \A g, h \in hits : R[g] = R[h] => g = h
    BY <1>2
  <2> QED BY <1>3, <2>1 DEF Injection, IsInjective
<1>6. R \in Surjection(hits, S)
  <2> HIDE DEF R, S
  <2> QED BY <1>4, <1>5, FS_Injection
<1>7. \E h \in hits : R[h] = k
  BY <1>6 DEF Surjection
<1> QED BY <1>7

LEMMA OrderFacts ==
  ASSUME NEW hits, NEW length, HitsOn(hits, length)
  PROVE  LET order == InOrder(hits) IN
         /\ order \in Seq(hits)
         /\ \A h \in hits : \E i \in 1..Len(order) : order[i] = h
         /\ \A i, j \in 1..Len(order) : i < j => order[i].start <= order[j].start
<1> DEFINE order == InOrder(hits)
           n == Cardinality(hits)
<1>1. n \in Nat
  BY RankFacts
<1>2. order = [i \in 1..n |-> CHOOSE h \in hits : Rank(hits, h) = i - 1]
  BY DEF InOrder, Rank, Below
<1>3. \A i \in 1..n : order[i] \in hits /\ Rank(hits, order[i]) = i - 1
  <2> TAKE i \in 1..n
  <2>1. i - 1 \in 0..(n - 1)
    BY <1>1
  <2>2. \E h \in hits : Rank(hits, h) = i - 1
    BY <2>1, RanksAreTaken
  <2> QED BY <1>2, <2>2
<1>4. order \in Seq(hits) /\ Len(order) = n
  <2>1. order \in [1..n -> hits]
    BY <1>2, <1>3
  <2> QED BY <1>1, <2>1, SeqDef
<1> HIDE DEF order
<1>5. \A g, h \in hits : Rank(hits, g) = Rank(hits, h) => g = h
  <2> SUFFICES ASSUME NEW g \in hits, NEW h \in hits, g # h PROVE Rank(hits, g) # Rank(hits, h)
    OBVIOUS
  <2>1. Rank(hits, g) < Rank(hits, h) \/ Rank(hits, h) < Rank(hits, g)
    BY RankFacts DEF HitsOn
  <2>2. Rank(hits, g) \in Nat /\ Rank(hits, h) \in Nat
    BY RankFacts
  <2> QED BY <2>1, <2>2
<1>6. ASSUME NEW h \in hits PROVE \E i \in 1..n : order[i] = h
  <2>1. Rank(hits, h) \in 0..(n - 1)
    BY RankFacts
  <2>2. Rank(hits, h) + 1 \in 1..n /\ (Rank(hits, h) + 1) - 1 = Rank(hits, h)
    BY <1>1, <2>1
  <2>3. order[Rank(hits, h) + 1] \in hits /\ Rank(hits, order[Rank(hits, h) + 1]) = Rank(hits, h)
    BY <1>3, <2>2
  <2> QED BY <1>5, <2>2, <2>3
<1>7. ASSUME NEW i \in 1..n, NEW j \in 1..n, i < j PROVE order[i].start <= order[j].start
  <2>1. order[i] \in hits /\ order[j] \in hits /\ Rank(hits, order[i]) = i - 1 /\ Rank(hits, order[j]) = j - 1
    BY <1>3
  <2>2. order[i] # order[j]
    BY <1>7, <2>1
  <2>3. Before(order[i], order[j]) \/ Before(order[j], order[i])
    BY <2>1, <2>2 DEF HitsOn
  <2>4. ~Before(order[j], order[i])
    <3>1. Before(order[j], order[i]) => j - 1 < i - 1
      BY <2>1, RankFacts
    <3> QED BY <1>7, <3>1
  <2> QED BY <2>1, <2>3, <2>4, BeforeOrders
<1> QED BY <1>4, <1>6, <1>7 DEF order

------------------------------------------------------------------------------
(****************************************************************************)
(* Folds: of hits that are accepted, lines that are read, and subjects that  *)
(* are claimed.                                                              *)
(****************************************************************************)
LEMMA MaxFacts ==
  ASSUME NEW m \in Nat, NEW x \in SUBSET (1..m), m \in x
  PROVE  Max(x) = m
<1>1. m \in x /\ \A y \in x : m >= y
  OBVIOUS
<1>2. ASSUME NEW z \in x, \A y \in x : z >= y PROVE z = m
  <2>1. z \in 1..m /\ z >= m
    BY <1>2
  <2> QED BY <2>1
<1>3. Max(x) = CHOOSE z \in x : \A y \in x : z >= y
  BY DEF Max
<1> QED BY <1>1, <1>2, <1>3

\* One step, by what is done with the element.
Once(op, held, e) ==
  IF op = "claim" THEN Claim(held, e) ELSE IF op = "line" THEN ReadLine(held, e) ELSE Accept(held, e)

\* The folding of a sequence, by the positions folded.
Unfolded(op, base, f, s, x) == IF x = {} THEN base ELSE Once(op, f[x \ {Max(x)}], s[Max(x)])
IsFold(op, base, f, s, m) == f = [x \in SUBSET (1..m) |-> Unfolded(op, base, f, s, x)]

LEMMA FoldsOneMore ==
  ASSUME NEW op, NEW base, NEW s, NEW m \in Nat, NEW f, IsFold(op, base, f, s, m)
  PROVE  \E g : IsFold(op, base, g, s, m + 1)
<1>1. f = [x \in SUBSET (1..m) |-> Unfolded(op, base, f, s, x)]
  BY DEF IsFold
<1>2. \A x \in SUBSET (1..m) : f[x] = Unfolded(op, base, f, s, x)
  BY <1>1
<1> DEFINE g == [x \in SUBSET (1..(m + 1)) |->
                   IF m + 1 \in x THEN Once(op, f[x \ {m + 1}], s[m + 1]) ELSE f[x]]
<1>3. ASSUME NEW x \in SUBSET (1..(m + 1)) PROVE g[x] = Unfolded(op, base, g, s, x)
  <2>1. CASE m + 1 \in x
    <3>1. Max(x) = m + 1
      BY <2>1, MaxFacts
    <3>2. x # {} /\ x \ {m + 1} \in SUBSET (1..(m + 1)) /\ m + 1 \notin x \ {m + 1}
      BY <2>1
    <3>3. g[x \ {m + 1}] = f[x \ {m + 1}]
      BY <3>2
    <3>4. g[x] = Once(op, f[x \ {m + 1}], s[m + 1])
      BY <2>1
    <3> HIDE DEF g
    <3> QED BY <3>1, <3>2, <3>3, <3>4 DEF Unfolded
  <2>2. CASE m + 1 \notin x
    <3>1. \A i \in x : i \in 1..m
      BY <2>2
    <3>2. x \in SUBSET (1..m)
      BY <3>1
    <3>3. x \ {Max(x)} \in SUBSET (1..(m + 1)) /\ m + 1 \notin x \ {Max(x)}
      BY <2>2
    <3>4. g[x \ {Max(x)}] = f[x \ {Max(x)}]
      BY <3>3
    <3>5. g[x] = f[x] /\ f[x] = Unfolded(op, base, f, s, x)
      BY <1>2, <2>2, <3>2
    <3> HIDE DEF g
    <3> QED BY <3>4, <3>5 DEF Unfolded
  <2> QED BY <2>1, <2>2
<1>4. g = [x \in SUBSET (1..(m + 1)) |-> g[x]]
  OBVIOUS
<1> HIDE DEF g
<1>5. g = [x \in SUBSET (1..(m + 1)) |-> Unfolded(op, base, g, s, x)]
  BY <1>3, <1>4
<1> QED BY <1>5 DEF IsFold

LEMMA FoldsExist ==
  ASSUME NEW op, NEW base, NEW s
  PROVE  \A m \in Nat : \E f : IsFold(op, base, f, s, m)
<1> DEFINE Good == {m \in Nat : \E f : IsFold(op, base, f, s, m)}
<1>1. 0 \in Good
  <2> DEFINE f == [x \in SUBSET (1..0) |-> base]
  <2>1. \A x \in SUBSET (1..0) : Unfolded(op, base, f, s, x) = base
    BY DEF Unfolded
  <2>2. f = [x \in SUBSET (1..0) |-> Unfolded(op, base, f, s, x)]
    BY <2>1
  <2> QED BY <2>2 DEF IsFold
<1>2. ASSUME NEW m \in Nat, m \in Good PROVE m + 1 \in Good
  BY <1>2, FoldsOneMore
<1> HIDE DEF Good
<1>3. \A m \in Nat : m \in Good
  BY <1>1, <1>2, NatSetInduction
<1> QED BY <1>3 DEF Good

\* What is held after each of the elements.
Chain(op, base, held, s) ==
  /\ held[0] = base
  /\ \A m \in 1..Len(s) : held[m] = Once(op, held[m - 1], s[m])

LEMMA FoldsChain ==
  ASSUME NEW op, NEW base, NEW s, Len(s) \in Nat, NEW f, IsFold(op, base, f, s, Len(s))
  PROVE  \E held : Chain(op, base, held, s) /\ held[Len(s)] = f[1..Len(s)]
<1> DEFINE n == Len(s)
<1>1. n \in Nat
  OBVIOUS
<1>2. \A x \in SUBSET (1..n) : f[x] = Unfolded(op, base, f, s, x)
  <2>1. f = [x \in SUBSET (1..n) |-> Unfolded(op, base, f, s, x)]
    BY DEF IsFold
  <2> QED BY <2>1
<1> HIDE DEF n
<1> DEFINE held == [m \in 0..n |-> f[1..m]]
<1>3. held[0] = base
  <2>1. 1..0 \in SUBSET (1..n) /\ 1..0 = {} /\ 0 \in 0..n
    BY <1>1
  <2>2. f[1..0] = base
    BY <1>2, <2>1 DEF Unfolded
  <2> QED BY <2>1, <2>2
<1>4. ASSUME NEW m \in 1..n PROVE held[m] = Once(op, held[m - 1], s[m])
  <2>1. m \in Nat /\ m \in 0..n /\ m - 1 \in 0..n /\ m \in 1..m
    BY <1>1
  <2>2. 1..m \in SUBSET (1..n) /\ 1..m \in SUBSET (1..m)
    BY <1>1
  <2>3. Max(1..m) = m
    BY <2>1, <2>2, MaxFacts
  <2>4. (1..m) \ {m} = 1..(m - 1)
    BY <2>1
  <2>5. f[1..m] = Once(op, f[(1..m) \ {Max(1..m)}], s[Max(1..m)])
    BY <1>2, <2>1, <2>2 DEF Unfolded
  <2>6. f[1..m] = Once(op, f[1..(m - 1)], s[m])
    BY <2>3, <2>4, <2>5
  <2> QED BY <2>1, <2>6
<1>5. held[n] = f[1..n]
  BY <1>1
<1> HIDE DEF held
<1> QED BY <1>3, <1>4, <1>5 DEF Chain, n

LEMMA FoldsAccept ==
  ASSUME NEW base, NEW s, Len(s) \in Nat, DOMAIN s = 1..Len(s)
  PROVE  \E held : Chain("hit", base, held, s) /\ FoldLeft(Accept, base, s) = held[Len(s)]
<1> DEFINE n == Len(s)
           once(f, x) == IF x = {} THEN base ELSE Accept(f[x \ {Max(x)}], s[Max(x)])
           h == CHOOSE f : f = [x \in SUBSET (1..n) |-> once(f, x)]
<1>1. FoldLeft(Accept, base, s) = h[1..n]
  BY DEF FoldLeft, MapThenFoldSet
<1>2. PICK g : IsFold("hit", base, g, s, n)
  BY FoldsExist
<1>3. \A f : \A x \in SUBSET (1..n) : once(f, x) = Unfolded("hit", base, f, s, x)
  BY DEF Unfolded, Once
<1>4. g = [x \in SUBSET (1..n) |-> once(g, x)]
  <2> HIDE DEF once
  <2> QED BY <1>2, <1>3 DEF IsFold
<1>5. h = [x \in SUBSET (1..n) |-> once(h, x)]
  BY <1>4
<1> HIDE DEF h
<1>6. IsFold("hit", base, h, s, n)
  <2> HIDE DEF once
  <2> QED BY <1>3, <1>5 DEF IsFold
<1> QED BY <1>1, <1>6, FoldsChain

------------------------------------------------------------------------------
(****************************************************************************)
(* The resolution, one hit at a time.                                        *)
(****************************************************************************)
\* The hits kept after each of the ordered ones.
Keeping(kept, s) ==
  /\ kept[0] = <<>>
  /\ \A m \in 1..Len(s) : kept[m] = Accept(kept[m - 1], s[m])

LEMMA FoldKeeps ==
  ASSUME NEW A, NEW s \in Seq(A)
  PROVE  \E kept : Keeping(kept, s) /\ FoldLeft(Accept, <<>>, s) = kept[Len(s)]
<1>1. Len(s) \in Nat /\ DOMAIN s = 1..Len(s)
  BY LenProperties
<1>2. PICK kept : Chain("hit", <<>>, kept, s) /\ FoldLeft(Accept, <<>>, s) = kept[Len(s)]
  BY <1>1, FoldsAccept
<1>3. Keeping(kept, s)
  BY <1>2 DEF Chain, Keeping, Once
<1> QED BY <1>2, <1>3

------------------------------------------------------------------------------
\* What is kept after m hits: hits, apart, none behind the last one seen, and every hit
\* seen meets one of them.
KeptOK(kept, order, m, hits) ==
  /\ kept \in Seq(hits)
  /\ \A i, j \in 1..Len(kept) : i < j => kept[i].end <= kept[j].start
  /\ \A i \in 1..Len(kept) : \A j \in 1..Len(order) : m < j => kept[i].start <= order[j].start
  /\ \A l \in 1..m : \E i \in 1..Len(kept) : Overlap(order[l], kept[i])

LEMMA AcceptKeeps ==
  ASSUME NEW hits, NEW length, HitsOn(hits, length),
         NEW order \in Seq(hits),
         \A i, j \in 1..Len(order) : i < j => order[i].start <= order[j].start,
         NEW m \in Nat, m + 1 <= Len(order),
         NEW kept, KeptOK(kept, order, m, hits)
  PROVE  KeptOK(Accept(kept, order[m + 1]), order, m + 1, hits)
<1> DEFINE h == order[m + 1]
           k == Len(kept)
           n == Len(order)
<1>1. kept \in Seq(hits) /\ k \in Nat /\ n \in Nat /\ m + 1 \in 1..n /\ h \in hits
  <2>1. kept \in Seq(hits)
    BY DEF KeptOK
  <2>2. k \in Nat /\ n \in Nat
    BY <2>1, LenProperties
  <2>3. m + 1 \in 1..n
    BY <2>2
  <2> QED BY <2>1, <2>2, <2>3, ElementOfSeq
<1>2. \A i \in 1..k : kept[i] \in hits
  BY <1>1, ElementOfSeq
<1>3. \A g \in hits : g.start \in Nat /\ g.end \in Nat /\ g.start < g.end
  BY DEF HitsOn
<1>4. \A i, j \in 1..k : i < j => kept[i].end <= kept[j].start
  BY DEF KeptOK
<1>5. \A i \in 1..k : \A j \in 1..n : m < j => kept[i].start <= order[j].start
  BY DEF KeptOK
<1>6. \A l \in 1..m : \E i \in 1..k : Overlap(order[l], kept[i])
  BY DEF KeptOK
<1>7. \A l \in 1..n : order[l] \in hits
  BY ElementOfSeq
<1>8. \A j \in 1..n : m + 1 < j => h.start <= order[j].start
  BY <1>1
<1>9. \A i \in 1..k : kept[i].start <= h.start
  BY <1>1, <1>5
<1>10. Last(kept) = kept[k]
  BY DEF Last
<1>11. CASE kept = <<>> \/ h.start >= kept[k].end
  <2> DEFINE w == Append(kept, h)
  <2>1. Accept(kept, h) = w
    BY <1>10, <1>11 DEF Accept
  <2>2. w \in Seq(hits) /\ Len(w) = k + 1 /\ w[k + 1] = h /\ \A i \in 1..k : w[i] = kept[i]
    BY <1>1, AppendProperties
  <2> HIDE DEF w, k, h, n
  <2>3. ASSUME NEW i \in 1..(k + 1), NEW j \in 1..(k + 1), i < j PROVE w[i].end <= w[j].start
    <3>1. CASE j = k + 1
      <4>1. i \in 1..k /\ k \in 1..k /\ k # 0
        BY <1>1, <2>3, <3>1
      <4>2. kept # <<>>
        BY <4>1, EmptySeq DEF k
      <4>3. kept[k].end <= h.start
        BY <1>1, <1>2, <1>3, <1>11, <4>1, <4>2
      <4>4. kept[i].end <= h.start
        <5>1. CASE i = k
          BY <4>3, <5>1
        <5>2. CASE i # k
          <6>1. kept[i].end <= kept[k].start
            BY <1>1, <1>4, <4>1, <5>2
          <6>2. /\ kept[i].end \in Nat /\ kept[k].start \in Nat /\ kept[k].end \in Nat
                /\ h.start \in Nat /\ kept[k].start < kept[k].end
            BY <1>1, <1>2, <1>3, <4>1
          <6> QED BY <4>3, <6>1, <6>2
        <5> QED BY <5>1, <5>2
      <4> QED BY <2>2, <3>1, <4>1, <4>4
    <3>2. CASE j # k + 1
      <4>1. i \in 1..k /\ j \in 1..k
        BY <1>1, <2>3, <3>2
      <4> QED BY <1>4, <2>2, <2>3, <4>1
    <3> QED BY <3>1, <3>2
  <2>4. ASSUME NEW i \in 1..(k + 1), NEW j \in 1..n, m + 1 < j PROVE w[i].start <= order[j].start
    <3>1. CASE i = k + 1
      BY <1>8, <2>2, <2>4, <3>1
    <3>2. CASE i # k + 1
      <4>1. i \in 1..k /\ m < j
        BY <1>1, <2>4, <3>2
      <4> QED BY <1>5, <2>2, <4>1
    <3> QED BY <3>1, <3>2
  <2>5. ASSUME NEW l \in 1..(m + 1) PROVE \E i \in 1..(k + 1) : Overlap(order[l], w[i])
    <3>1. CASE l = m + 1
      <4>1. Overlap(h, h)
        BY <1>1, <1>3 DEF Overlap
      <4>2. k + 1 \in 1..(k + 1)
        BY <1>1
      <4> QED BY <2>2, <3>1, <4>1, <4>2 DEF h
    <3>2. CASE l # m + 1
      <4>1. l \in 1..m
        BY <3>2
      <4>2. PICK i \in 1..k : Overlap(order[l], kept[i])
        BY <1>6, <4>1
      <4>3. i \in 1..(k + 1)
        BY <1>1
      <4> QED BY <2>2, <4>2, <4>3
    <3> QED BY <3>1, <3>2
  <2>6. KeptOK(w, order, m + 1, hits)
    BY <2>2, <2>3, <2>4, <2>5 DEF KeptOK, n
  <2> QED BY <2>1, <2>6 DEF h
<1>12. CASE /\ kept # <<>> /\ ~(h.start >= kept[k].end)
            /\ h.layer < kept[k].layer /\ h.start <= kept[k].start /\ kept[k].end <= h.end
  <2> DEFINE w == Append(Front(kept), h)
  <2>1. Accept(kept, h) = w
    BY <1>10, <1>12 DEF Accept
  <2>2. k >= 1 /\ k \in 1..k
    <3>1. k # 0
      BY <1>1, <1>12, EmptySeq
    <3> QED BY <1>1, <3>1
  <2>3. /\ Front(kept) \in Seq(hits) /\ Len(Front(kept)) = k - 1
        /\ \A i \in 1..(k - 1) : Front(kept)[i] = kept[i]
    <3>1. k - 1 \in 0..Len(kept)
      BY <1>1, <2>2
    <3>2. Front(kept) = SubSeq(kept, 1, k - 1)
      BY DEF Front
    <3> HIDE DEF k
    <3> QED BY <1>1, <3>1, <3>2, TakeFacts
  <2>4. w \in Seq(hits) /\ Len(w) = k /\ w[k] = h /\ \A i \in 1..(k - 1) : w[i] = kept[i]
    <3>1. /\ w \in Seq(hits) /\ Len(w) = Len(Front(kept)) + 1 /\ w[Len(Front(kept)) + 1] = h
          /\ \A i \in 1..Len(Front(kept)) : w[i] = Front(kept)[i]
      BY <1>1, <2>3, AppendProperties
    <3>2. (k - 1) + 1 = k
      BY <1>1
    <3> QED BY <2>3, <3>1, <3>2
  <2> HIDE DEF w, k, h, n
  <2>5. h.start = kept[k].start /\ kept[k] \in hits
    <3>1. h.start \in Nat /\ kept[k].start \in Nat /\ kept[k].start <= h.start
      BY <1>1, <1>2, <1>3, <1>9, <2>2
    <3> QED BY <1>2, <1>12, <2>2, <3>1
  <2>6. ASSUME NEW i \in 1..k, NEW j \in 1..k, i < j PROVE w[i].end <= w[j].start
    <3>1. i \in 1..(k - 1) /\ kept[i].end <= kept[j].start
      BY <1>1, <1>4, <2>6
    <3>2. w[j].start = kept[j].start
      <4>1. j # k => j \in 1..(k - 1)
        BY <1>1
      <4> QED BY <2>4, <2>5, <4>1
    <3> QED BY <2>4, <3>1, <3>2
  <2>7. ASSUME NEW i \in 1..k, NEW j \in 1..n, m + 1 < j PROVE w[i].start <= order[j].start
    <3>1. CASE i = k
      BY <1>8, <2>4, <2>7, <3>1
    <3>2. CASE i # k
      <4>1. i \in 1..(k - 1) /\ m < j
        BY <1>1, <2>7, <3>2
      <4> QED BY <1>5, <2>4, <4>1
    <3> QED BY <3>1, <3>2
  <2>8. ASSUME NEW l \in 1..(m + 1) PROVE \E i \in 1..k : Overlap(order[l], w[i])
    <3>1. CASE l = m + 1
      <4>1. Overlap(h, h)
        BY <1>1, <1>3 DEF Overlap
      <4> QED BY <2>2, <2>4, <3>1, <4>1 DEF h
    <3>2. CASE l # m + 1
      <4>1. l \in 1..m /\ l \in 1..n
        BY <1>1, <3>2
      <4>2. PICK i \in 1..k : Overlap(order[l], kept[i])
        BY <1>6, <4>1
      <4>3. CASE i # k
        <5>1. i \in 1..(k - 1)
          BY <1>1, <4>3
        <5> QED BY <2>4, <4>2, <5>1
      <4>4. CASE i = k
        <5>1. Overlap(order[l], h)
          <6>1. /\ order[l].start \in Nat /\ order[l].end \in Nat /\ h.start \in Nat /\ h.end \in Nat
                /\ kept[k].start \in Nat /\ kept[k].end \in Nat
            BY <1>1, <1>2, <1>3, <1>7, <4>1, <2>5
          <6>2. order[l].start < kept[k].end /\ kept[k].start < order[l].end
            BY <4>2, <4>4 DEF Overlap
          <6> QED BY <1>12, <2>5, <6>1, <6>2 DEF Overlap
        <5> QED BY <2>2, <2>4, <5>1
      <4> QED BY <4>3, <4>4
    <3> QED BY <3>1, <3>2
  <2>9. KeptOK(w, order, m + 1, hits)
    BY <2>4, <2>6, <2>7, <2>8 DEF KeptOK, n
  <2> QED BY <2>1, <2>9 DEF h
<1>13. CASE /\ kept # <<>> /\ ~(h.start >= kept[k].end)
            /\ ~(h.layer < kept[k].layer /\ h.start <= kept[k].start /\ kept[k].end <= h.end)
  <2>1. Accept(kept, h) = kept
    BY <1>10, <1>13 DEF Accept
  <2>2. k >= 1 /\ k \in 1..k
    <3>1. k # 0
      BY <1>1, <1>13, EmptySeq
    <3> QED BY <1>1, <3>1
  <2> HIDE DEF k, h, n
  <2>3. ASSUME NEW l \in 1..(m + 1) PROVE \E i \in 1..k : Overlap(order[l], kept[i])
    <3>1. CASE l = m + 1
      <4>1. /\ h.start \in Nat /\ h.end \in Nat /\ kept[k].start \in Nat /\ kept[k].end \in Nat
            /\ h.start < h.end /\ kept[k].start <= h.start
        BY <1>1, <1>2, <1>3, <1>9, <2>2
      <4>2. h.start < kept[k].end /\ kept[k].start < h.end
        BY <1>13, <4>1
      <4>3. Overlap(h, kept[k])
        BY <4>2 DEF Overlap
      <4> QED BY <2>2, <3>1, <4>3 DEF h
    <3>2. CASE l # m + 1
      <4>1. l \in 1..m
        BY <3>2
      <4> QED BY <1>6, <4>1
    <3> QED BY <3>1, <3>2
  <2>4. \A i \in 1..k : \A j \in 1..n : m + 1 < j => kept[i].start <= order[j].start
    <3>1. \A j \in 1..n : m + 1 < j => m < j
      BY <1>1
    <3> QED BY <1>5, <3>1
  <2>5. KeptOK(kept, order, m + 1, hits)
    BY <1>1, <1>4, <2>3, <2>4 DEF KeptOK, n, k
  <2> QED BY <2>1, <2>5 DEF h
<1> QED BY <1>11, <1>12, <1>13

\* The resolution keeps hits that are apart, and every hit meets one of them.
ResolvedOK(hits, kept) ==
  /\ kept \in Seq(hits)
  /\ \A i, j \in 1..Len(kept) : i < j => kept[i].end <= kept[j].start
  /\ \A h \in hits : \E i \in 1..Len(kept) : Overlap(h, kept[i])

LEMMA ResolvedFacts ==
  ASSUME NEW hits, NEW length, HitsOn(hits, length)
  PROVE  ResolvedOK(hits, Resolved(hits))
<1> DEFINE order == InOrder(hits)
<1>1. /\ order \in Seq(hits)
      /\ \A h \in hits : \E i \in 1..Len(order) : order[i] = h
      /\ \A i, j \in 1..Len(order) : i < j => order[i].start <= order[j].start
  BY OrderFacts
<1>2. Resolved(hits) = FoldLeft(Accept, <<>>, order)
  BY DEF Resolved
<1> HIDE DEF order
<1>3. Len(order) \in Nat
  BY <1>1, LenProperties
<1>4. PICK kept : Keeping(kept, order) /\ FoldLeft(Accept, <<>>, order) = kept[Len(order)]
  BY <1>1, FoldKeeps
<1> DEFINE Good == {m \in Nat : m <= Len(order) => KeptOK(kept[m], order, m, hits)}
<1>5. 0 \in Good
  <2>1. kept[0] = <<>> /\ <<>> \in Seq(hits) /\ Len(<<>>) = 0
    BY <1>4, EmptySeq DEF Keeping
  <2>2. KeptOK(<<>>, order, 0, hits)
    BY <2>1 DEF KeptOK
  <2> QED BY <2>1, <2>2
<1>6. ASSUME NEW m \in Nat, m \in Good PROVE m + 1 \in Good
  <2> SUFFICES ASSUME m + 1 <= Len(order) PROVE KeptOK(kept[m + 1], order, m + 1, hits)
    OBVIOUS
  <2>1. m <= Len(order) /\ m + 1 \in 1..Len(order) /\ (m + 1) - 1 = m
    BY <1>3
  <2>2. KeptOK(kept[m], order, m, hits)
    BY <1>6, <2>1
  <2>3. kept[m + 1] = Accept(kept[m], order[m + 1])
    BY <1>4, <2>1 DEF Keeping
  <2>4. KeptOK(Accept(kept[m], order[m + 1]), order, m + 1, hits)
    BY <1>1, <2>2, AcceptKeeps
  <2> QED BY <2>3, <2>4
<1>7. Len(order) \in Good
  <2> HIDE DEF Good
  <2> QED BY <1>3, <1>5, <1>6, NatSetInduction
<1>8. KeptOK(Resolved(hits), order, Len(order), hits)
  BY <1>2, <1>3, <1>4, <1>7
<1> QED BY <1>1, <1>8 DEF KeptOK, ResolvedOK

------------------------------------------------------------------------------
(****************************************************************************)
(* Tokens.                                                                   *)
(****************************************************************************)
\* The first of the kept hits that says what the i-th says.
IsFirstSaid(text, kept, i, j) ==
  /\ j \in 1..i
  /\ Key(text, kept[j]) = Key(text, kept[i])
  /\ \A k \in 1..(j - 1) : Key(text, kept[k]) # Key(text, kept[i])

LEMMA FirstSaidFacts ==
  ASSUME NEW text, NEW kept, NEW i \in Nat, i >= 1
  PROVE  /\ IsFirstSaid(text, kept, i, FirstSaid(text, kept, i))
         /\ \A j \in Nat : IsFirstSaid(text, kept, i, j) => j = FirstSaid(text, kept, i)
<1> DEFINE T == {j \in 1..i : Key(text, kept[j]) = Key(text, kept[i])}
<1>1. T \in SUBSET Nat /\ i \in T
  OBVIOUS
<1>2. PICK x \in T : \A y \in T : x <= y
  <2>1. T # {}
    BY <1>1
  <2> HIDE DEF T
  <2> QED BY <1>1, <2>1, LeastNatural
<1>3. IsFirstSaid(text, kept, i, x)
  <2>1. \A k \in 1..(x - 1) : k \in 1..i /\ ~(x <= k)
    BY <1>2
  <2> QED BY <1>2, <2>1 DEF IsFirstSaid
<1>4. FirstSaid(text, kept, i) = CHOOSE j \in 1..i : IsFirstSaid(text, kept, i, j)
  BY DEF FirstSaid, IsFirstSaid
<1>5. IsFirstSaid(text, kept, i, FirstSaid(text, kept, i))
  BY <1>2, <1>3, <1>4
<1>6. ASSUME NEW j \in Nat, NEW k \in Nat, IsFirstSaid(text, kept, i, j), IsFirstSaid(text, kept, i, k)
      PROVE  ~(j < k)
  <2>1. j \in 1..i /\ k \in 1..i /\ Key(text, kept[j]) = Key(text, kept[i])
    BY <1>6 DEF IsFirstSaid
  <2>2. \A l \in 1..(k - 1) : Key(text, kept[l]) # Key(text, kept[i])
    BY <1>6 DEF IsFirstSaid
  <2>3. j < k => j \in 1..(k - 1)
    BY <2>1
  <2> QED BY <2>1, <2>2, <2>3
<1>7. FirstSaid(text, kept, i) \in Nat
  BY <1>5 DEF IsFirstSaid
<1>8. ASSUME NEW j \in Nat, IsFirstSaid(text, kept, i, j) PROVE j = FirstSaid(text, kept, i)
  <2>1. ~(j < FirstSaid(text, kept, i)) /\ ~(FirstSaid(text, kept, i) < j)
    BY <1>5, <1>6, <1>7, <1>8
  <2> QED BY <1>7, <2>1
<1> QED BY <1>5, <1>8

LEMMA FirstSaidAgain ==
  ASSUME NEW text, NEW kept, NEW i \in Nat, i >= 1
  PROVE  FirstSaid(text, kept, FirstSaid(text, kept, i)) = FirstSaid(text, kept, i)
<1> DEFINE j == FirstSaid(text, kept, i)
<1>1. IsFirstSaid(text, kept, i, j)
  BY FirstSaidFacts
<1> HIDE DEF j
<1>2. j \in Nat /\ j >= 1 /\ j \in 1..j
  BY <1>1 DEF IsFirstSaid
<1>3. IsFirstSaid(text, kept, j, j)
  BY <1>1, <1>2 DEF IsFirstSaid
<1>4. j = FirstSaid(text, kept, j)
  BY <1>2, <1>3, FirstSaidFacts
<1> QED BY <1>4 DEF j

\* The keys of one class among the first j.
KeysTo(text, kept, j) == {Key(text, kept[k]) : k \in {l \in 1..j : kept[l].type = kept[j].type}}

LEMMA KeysGrow ==
  ASSUME NEW text, NEW kept, NEW i \in Nat, NEW j \in Nat, i >= 1, i < j,
         kept[i].type = kept[j].type,
         \A k \in 1..(j - 1) : Key(text, kept[k]) # Key(text, kept[j])
  PROVE  /\ Cardinality(KeysTo(text, kept, i)) \in Nat
         /\ Cardinality(KeysTo(text, kept, i)) < Cardinality(KeysTo(text, kept, j))
<1>1. KeysTo(text, kept, i) \in SUBSET KeysTo(text, kept, j)
  <2>1. \A l \in 1..i : l \in 1..j
    OBVIOUS
  <2> QED BY <2>1 DEF KeysTo
<1>2. KeysTo(text, kept, i) # KeysTo(text, kept, j)
  <2>1. Key(text, kept[j]) \in KeysTo(text, kept, j)
    <3>1. j \in {l \in 1..j : kept[l].type = kept[j].type}
      OBVIOUS
    <3> QED BY <3>1 DEF KeysTo
  <2>2. Key(text, kept[j]) \notin KeysTo(text, kept, i)
    <3>1. \A l \in 1..i : l \in 1..(j - 1)
      OBVIOUS
    <3> QED BY <3>1 DEF KeysTo
  <2> QED BY <2>1, <2>2
<1>3. IsFiniteSet(KeysTo(text, kept, j))
  <2> DEFINE I == {l \in 1..j : kept[l].type = kept[j].type}
             f == [k \in I |-> Key(text, kept[k])]
  <2>1. IsFiniteSet(1..j)
    BY FS_Interval
  <2>2. IsFiniteSet(I)
    BY <2>1, FS_Subset
  <2>3. f \in Surjection(I, KeysTo(text, kept, j))
    BY DEF Surjection, KeysTo
  <2> HIDE DEF I, f
  <2> QED BY <2>2, <2>3, FS_Surjection
<1> QED BY <1>1, <1>2, <1>3, FewerWithin

LEMMA TokenFields ==
  ASSUME NEW text, NEW kept, NEW i
  PROVE  /\ Token(text, kept, i).type = kept[i].type
         /\ Token(text, kept, i).number = Cardinality(KeysTo(text, kept, FirstSaid(text, kept, i)))
BY DEF Token, KeysTo

LEMMA SameClass ==
  ASSUME NEW text, NEW g, NEW h, Key(text, g) = Key(text, h)
  PROVE  g.type = h.type /\ Normalized(Span(text, g)) = Normalized(Span(text, h))
BY DEF Key

\* Tokens are told apart by what they stand for.
LEMMA SameToken ==
  ASSUME NEW text, NEW kept, NEW i \in Nat, NEW c \in Nat, i >= 1, c >= 1,
         Token(text, kept, c) = Token(text, kept, i)
  PROVE  Key(text, kept[c]) = Key(text, kept[i])
<1> DEFINE ji == FirstSaid(text, kept, i)
           jc == FirstSaid(text, kept, c)
<1>1. /\ ji \in Nat /\ ji >= 1 /\ Key(text, kept[ji]) = Key(text, kept[i])
      /\ \A k \in 1..(ji - 1) : Key(text, kept[k]) # Key(text, kept[i])
  BY FirstSaidFacts DEF IsFirstSaid
<1>2. /\ jc \in Nat /\ jc >= 1 /\ Key(text, kept[jc]) = Key(text, kept[c])
      /\ \A k \in 1..(jc - 1) : Key(text, kept[k]) # Key(text, kept[c])
  BY FirstSaidFacts DEF IsFirstSaid
<1>3. kept[c].type = kept[i].type /\ Cardinality(KeysTo(text, kept, jc)) = Cardinality(KeysTo(text, kept, ji))
  BY TokenFields
<1> HIDE DEF ji, jc
<1>4. kept[jc].type = kept[ji].type
  BY <1>1, <1>2, <1>3, SameClass
<1>5. ~(jc < ji)
  <2> SUFFICES ASSUME jc < ji PROVE FALSE
    OBVIOUS
  <2>1. \A k \in 1..(ji - 1) : Key(text, kept[k]) # Key(text, kept[ji])
    BY <1>1
  <2>2. /\ Cardinality(KeysTo(text, kept, jc)) \in Nat
        /\ Cardinality(KeysTo(text, kept, jc)) < Cardinality(KeysTo(text, kept, ji))
    BY <1>1, <1>2, <1>4, <2>1, KeysGrow
  <2> QED BY <1>3, <2>2
<1>6. ~(ji < jc)
  <2> SUFFICES ASSUME ji < jc PROVE FALSE
    OBVIOUS
  <2>1. \A k \in 1..(jc - 1) : Key(text, kept[k]) # Key(text, kept[jc])
    BY <1>2
  <2>2. /\ Cardinality(KeysTo(text, kept, ji)) \in Nat
        /\ Cardinality(KeysTo(text, kept, ji)) < Cardinality(KeysTo(text, kept, jc))
    BY <1>1, <1>2, <1>4, <2>1, KeysGrow
  <2> QED BY <1>3, <2>2
<1>7. ji = jc
  BY <1>1, <1>2, <1>5, <1>6
<1> QED BY <1>1, <1>2, <1>7

\* The map gives a token's spelling back, up to case.
LEMMA TokenMeans ==
  ASSUME NEW text, NEW A, NEW kept \in Seq(A), NEW i \in 1..Len(kept)
  PROVE  \E c \in 1..Len(kept) :
           /\ TokenMap(text, kept)[Token(text, kept, i)] = Span(text, kept[c])
           /\ Normalized(Span(text, kept[c])) = Normalized(Span(text, kept[i]))
<1> DEFINE n == Len(kept)
           token == Token(text, kept, i)
           Means(c) == Token(text, kept, c) = token /\ FirstSaid(text, kept, c) = c
<1>1. n \in Nat /\ DOMAIN kept = 1..n
  BY LenProperties
<1>2. TokenMap(text, kept)[token] = Span(text, kept[CHOOSE c \in 1..n : Means(c)])
  <2>1. token \in {Token(text, kept, c) : c \in DOMAIN kept}
    BY <1>1
  <2>2. TokenMap(text, kept)[token] =
          Span(text, kept[CHOOSE c \in DOMAIN kept : Token(text, kept, c) = token /\ FirstSaid(text, kept, c) = c])
    <3> HIDE DEF token
    <3> QED BY <2>1 DEF TokenMap
  <2> QED BY <1>1, <2>2
<1>3. \E c \in 1..n : Means(c)
  <2> DEFINE j == FirstSaid(text, kept, i)
  <2>1. i \in Nat /\ i >= 1
    BY <1>1
  <2>2. j \in 1..i /\ Key(text, kept[j]) = Key(text, kept[i]) /\ FirstSaid(text, kept, j) = j
    BY <2>1, FirstSaidFacts, FirstSaidAgain DEF IsFirstSaid
  <2>3. kept[j].type = kept[i].type
    BY <2>2, SameClass
  <2> HIDE DEF j
  <2>4. Token(text, kept, j) = token
    BY <2>2, <2>3 DEF Token, j
  <2>5. j \in 1..n
    BY <1>1, <2>2
  <2> QED BY <2>2, <2>4, <2>5
<1> DEFINE c == CHOOSE c_1 \in 1..n : Means(c_1)
<1>4. c \in 1..n /\ Means(c)
  BY <1>3
<1>5. Key(text, kept[c]) = Key(text, kept[i])
  <2>1. c \in Nat /\ c >= 1 /\ i \in Nat /\ i >= 1 /\ Token(text, kept, c) = Token(text, kept, i)
    BY <1>1, <1>4
  <2> HIDE DEF c
  <2> QED BY <2>1, SameToken
<1>6. Normalized(Span(text, kept[c])) = Normalized(Span(text, kept[i]))
  <2> HIDE DEF c
  <2> QED BY <1>5, SameClass
<1> QED BY <1>2, <1>4, <1>6

------------------------------------------------------------------------------
(****************************************************************************)
(* Parts of sequences.                                                       *)
(****************************************************************************)
LEMMA SeqSame ==
  ASSUME NEW A, NEW s \in Seq(A), NEW t \in Seq(A), Len(s) = Len(t),
         \A i \in 1..Len(s) : s[i] = t[i]
  PROVE  s = t
BY SeqEqual

LEMMA SliceFacts ==
  ASSUME NEW A, NEW t \in Seq(A), NEW a \in 0..Len(t), NEW b \in a..Len(t)
  PROVE  /\ SubSeq(t, a + 1, b) \in Seq(A)
         /\ Len(SubSeq(t, a + 1, b)) = b - a
         /\ \A p \in 1..(b - a) : SubSeq(t, a + 1, b)[p] = t[a + p]
<1>1. Len(t) \in Nat
  BY LenProperties
<1>2. a \in Nat /\ b \in Nat /\ a + 1 \in Int /\ a <= b /\ b <= Len(t)
  BY <1>1
<1>3. \A p \in (a + 1)..b : t[p] \in A
  BY <1>1, <1>2, ElementOfSeq
<1> DEFINE m == a + 1
<1>4. /\ SubSeq(t, m, b) \in Seq(A)
      /\ Len(SubSeq(t, m, b)) = IF m <= b THEN b - m + 1 ELSE 0
      /\ \A p \in 1..(b - m + 1) : SubSeq(t, m, b)[p] = t[m + p - 1]
  <2> HIDE DEF m
  <2> QED BY <1>2, <1>3, SubSeqProperties DEF m
<1>5. b - m + 1 = b - a /\ (~(m <= b) => b - a = 0) /\ \A p \in 1..(b - a) : m + p - 1 = a + p
  BY <1>2
<1> HIDE DEF m
<1> QED BY <1>4, <1>5 DEF m

LEMMA SlicesJoin ==
  ASSUME NEW A, NEW t \in Seq(A), NEW a \in 0..Len(t), NEW b \in a..Len(t)
  PROVE  SubSeq(t, 1, b) = SubSeq(t, 1, a) \o SubSeq(t, a + 1, b)
<1>1. Len(t) \in Nat
  BY LenProperties
<1>2. 1 \in 1..(Len(t) + 1) /\ a \in (1 - 1)..Len(t)
  BY <1>1
<1> QED BY <1>2, ConcatAdjacentSubSeq

LEMMA SliceOne ==
  ASSUME NEW A, NEW t \in Seq(A), NEW k \in Nat, k + 1 <= Len(t)
  PROVE  SubSeq(t, 1, k + 1) = Append(SubSeq(t, 1, k), t[k + 1])
<1>0. Len(t) \in Nat
  BY LenProperties
<1>1. k \in 0..Len(t) /\ k + 1 \in k..Len(t) /\ (k + 1) - k = 1 /\ 1 \in 1..1 /\ k + 1 \in 1..Len(t)
  BY <1>0
<1>2. SubSeq(t, 1, k + 1) = SubSeq(t, 1, k) \o SubSeq(t, k + 1, k + 1)
  BY <1>1, SlicesJoin
<1>3. /\ SubSeq(t, k + 1, k + 1) \in Seq(A) /\ Len(SubSeq(t, k + 1, k + 1)) = 1
      /\ SubSeq(t, k + 1, k + 1)[1] = t[k + 1]
  BY <1>1, SliceFacts
<1>4. t[k + 1] \in A
  BY <1>1, ElementOfSeq
<1>5. SubSeq(t, k + 1, k + 1) = <<t[k + 1]>>
  <2>1. <<t[k + 1]>> \in Seq(A) /\ Len(<<t[k + 1]>>) = 1 /\ <<t[k + 1]>>[1] = t[k + 1]
    BY <1>4
  <2>2. \A i \in 1..1 : i = 1
    OBVIOUS
  <2> QED BY <1>3, <2>1, <2>2, SeqSame
<1>6. SubSeq(t, 1, k) \in Seq(A)
  BY <1>1, TakeFacts
<1> QED BY <1>2, <1>4, <1>5, <1>6, AppendIsConcat

------------------------------------------------------------------------------
(* What flattenings of special sequences are.                                *)

LEMMA FlatOne ==
  ASSUME NEW S, NEW s \in Seq(S)
  PROVE  FlattenSeq(<<s>>) = s
<1>1. <<>> \in Seq(Seq(S)) /\ Append(<<>>, s) = <<s>>
  BY EmptySeq
<1>2. FlattenSeq(Append(<<>>, s)) = FlattenSeq(<<>>) \o s
  BY <1>1, FlatAppend
<1>3. <<>> \o s = s
  BY ConcatEmptySeq
<1> QED BY <1>1, <1>2, <1>3, FlatEmpty

\* Each letter by itself.
Singles(t) == [p \in DOMAIN t |-> <<t[p]>>]

LEMMA SinglesType ==
  ASSUME NEW S, NEW t \in Seq(S)
  PROVE  /\ Singles(t) \in Seq(Seq(S)) /\ Len(Singles(t)) = Len(t)
         /\ \A p \in 1..Len(t) : Singles(t)[p] = <<t[p]>>
<1>1. Len(t) \in Nat /\ DOMAIN t = 1..Len(t)
  BY LenProperties
<1>2. \A p \in 1..Len(t) : <<t[p]>> \in Seq(S)
  BY ElementOfSeq
<1>3. Singles(t) \in [1..Len(t) -> Seq(S)]
  BY <1>1, <1>2 DEF Singles
<1> QED BY <1>1, <1>3, SeqDef DEF Singles

LEMMA FlatSingles ==
  ASSUME NEW S
  PROVE  \A t \in Seq(S) : FlattenSeq(Singles(t)) = t
<1> DEFINE Q == {t \in Seq(S) : FlattenSeq(Singles(t)) = t}
<1>1. <<>> \in Q
  <2>1. Singles(<<>>) = <<>>
    BY DEF Singles
  <2> QED BY <2>1, FlatEmpty, EmptySeq
<1>2. ASSUME NEW t \in Seq(S), NEW e \in S, t \in Q PROVE Append(t, e) \in Q
  <2> DEFINE w == Append(t, e)
  <2>1. /\ w \in Seq(S) /\ Len(w) = Len(t) + 1 /\ w[Len(t) + 1] = e
        /\ Len(t) \in Nat /\ \A i \in 1..Len(t) : w[i] = t[i]
    BY AppendProperties, LenProperties
  <2> HIDE DEF w
  <2>2. /\ Singles(w) \in Seq(Seq(S)) /\ Len(Singles(w)) = Len(t) + 1
        /\ \A p \in 1..(Len(t) + 1) : Singles(w)[p] = <<w[p]>>
    BY <2>1, SinglesType
  <2>3. /\ Singles(t) \in Seq(Seq(S)) /\ Len(Singles(t)) = Len(t) /\ <<e>> \in Seq(S)
        /\ \A p \in 1..Len(t) : Singles(t)[p] = <<t[p]>>
    BY SinglesType
  <2> DEFINE v == Append(Singles(t), <<e>>)
  <2>4. /\ v \in Seq(Seq(S)) /\ Len(v) = Len(t) + 1 /\ v[Len(t) + 1] = <<e>>
        /\ \A i \in 1..Len(t) : v[i] = Singles(t)[i]
    BY <2>3, AppendProperties
  <2> HIDE DEF v
  <2>5. ASSUME NEW p \in 1..(Len(t) + 1) PROVE Singles(w)[p] = v[p]
    <3>1. CASE p = Len(t) + 1
      BY <2>1, <2>2, <2>4, <3>1
    <3>2. CASE p # Len(t) + 1
      <4>1. p \in 1..Len(t)
        BY <2>1, <3>2
      <4> QED BY <2>1, <2>2, <2>3, <2>4, <4>1
    <3> QED BY <3>1, <3>2
  <2>6. Singles(w) = v
    BY <2>2, <2>4, <2>5, SeqSame
  <2>7. FlattenSeq(v) = FlattenSeq(Singles(t)) \o <<e>>
    BY <2>3, FlatAppend DEF v
  <2>8. FlattenSeq(Singles(t)) = t
    BY <1>2
  <2>9. t \o <<e>> = w
    BY AppendIsConcat DEF w
  <2> QED BY <2>1, <2>6, <2>7, <2>8, <2>9 DEF w
<1> HIDE DEF Q
<1>3. \A t \in Seq(S) : t \in Q
  BY <1>1, <1>2, SeqAppended
<1> QED BY <1>3 DEF Q

\* Nothing follows the first.
LEMMA FlatFirst ==
  ASSUME NEW S, NEW seqs \in Seq(Seq(S)), Len(seqs) >= 1,
         \A p \in 2..Len(seqs) : seqs[p] = <<>>
  PROVE  FlattenSeq(seqs) = seqs[1]
<1> DEFINE n == Len(seqs)
<1>1. n \in Nat /\ n # 0
  BY LenProperties
<1>2. PICK f \in [1..n -> Seq(S)] : IsFlattening(f, seqs, n) /\ FlattenSeq(seqs) = f[n]
  BY <1>1, FlatFunction
<1>3. f[1] = seqs[1] /\ \A i \in 2..n : f[i] = f[i - 1] \o seqs[i]
  BY <1>2 DEF IsFlattening
<1>4. \A i \in 2..n : seqs[i] = <<>>
  OBVIOUS
<1> HIDE DEF n
<1> DEFINE Same == {m \in Nat : m + 1 <= n => f[m + 1] = seqs[1]}
<1>5. 0 \in Same
  BY <1>3
<1>6. ASSUME NEW m \in Nat, m \in Same PROVE m + 1 \in Same
  <2> SUFFICES ASSUME (m + 1) + 1 <= n PROVE f[(m + 1) + 1] = seqs[1]
    OBVIOUS
  <2>1. (m + 1) + 1 \in 2..n /\ ((m + 1) + 1) - 1 = m + 1 /\ m + 1 \in 1..n /\ m + 1 <= n
    BY <1>1
  <2>2. f[m + 1] = seqs[1] /\ f[m + 1] \in Seq(S)
    BY <1>2, <1>6, <2>1
  <2>3. f[(m + 1) + 1] = f[m + 1] \o <<>>
    BY <1>3, <1>4, <2>1
  <2>4. f[m + 1] \o <<>> = f[m + 1]
    BY <2>2, ConcatEmptySeq
  <2> QED BY <2>2, <2>3, <2>4
<1>7. n - 1 \in Nat /\ (n - 1) + 1 = n
  BY <1>1
<1>8. n - 1 \in Same
  <2> HIDE DEF Same
  <2> QED BY <1>5, <1>6, <1>7, NatSetInduction
<1>9. f[n] = seqs[1]
  BY <1>1, <1>7, <1>8
<1> QED BY <1>2, <1>9

------------------------------------------------------------------------------
(* Case is all that is lost.                                                 *)

LEMMA NormalizedConcat ==
  ASSUME NEW V, NEW s \in Seq(V), NEW t \in Seq(V)
  PROVE  Normalized(s \o t) = Normalized(s) \o Normalized(t)
<1> DEFINE W == {Lower(v) : v \in V}
<1>1. ASSUME NEW u \in Seq(V)
      PROVE  /\ Normalized(u) \in Seq(W) /\ Len(Normalized(u)) = Len(u)
             /\ \A i \in 1..Len(u) : Normalized(u)[i] = Lower(u[i])
  <2>1. Len(u) \in Nat /\ DOMAIN u = 1..Len(u) /\ \A i \in 1..Len(u) : u[i] \in V
    BY LenProperties, ElementOfSeq
  <2>2. Normalized(u) = [i \in 1..Len(u) |-> Lower(u[i])]
    BY <2>1 DEF Normalized
  <2>3. Normalized(u) \in [1..Len(u) -> W]
    BY <2>1, <2>2
  <2> QED BY <2>1, <2>2, <2>3, SeqDef
<1>2. /\ Len(s) \in Nat /\ Len(t) \in Nat /\ s \o t \in Seq(V) /\ Len(s \o t) = Len(s) + Len(t)
      /\ \A i \in 1..(Len(s) + Len(t)) : (s \o t)[i] = IF i <= Len(s) THEN s[i] ELSE t[i - Len(s)]
  BY ConcatProperties, LenProperties
<1> DEFINE ns == Normalized(s)
           nt == Normalized(t)
           nst == Normalized(s \o t)
<1>3. /\ ns \in Seq(W) /\ Len(ns) = Len(s) /\ \A i \in 1..Len(s) : ns[i] = Lower(s[i])
      /\ nt \in Seq(W) /\ Len(nt) = Len(t) /\ \A i \in 1..Len(t) : nt[i] = Lower(t[i])
  BY <1>1
<1>4. /\ nst \in Seq(W) /\ Len(nst) = Len(s \o t)
      /\ \A i \in 1..Len(s \o t) : nst[i] = Lower((s \o t)[i])
  BY <1>1, <1>2
<1> HIDE DEF ns, nt, nst, W
<1>5. /\ ns \o nt \in Seq(W) /\ Len(ns \o nt) = Len(ns) + Len(nt)
      /\ \A i \in 1..(Len(ns) + Len(nt)) : (ns \o nt)[i] = IF i <= Len(ns) THEN ns[i] ELSE nt[i - Len(ns)]
  <2>1. ns \in Seq(W) /\ nt \in Seq(W)
    BY <1>3
  <2> QED BY ONLY <2>1, ConcatProperties
<1>6. ASSUME NEW i \in 1..(Len(s) + Len(t)) PROVE nst[i] = (ns \o nt)[i]
  <2>1. CASE i <= Len(s)
    <3>1. i \in 1..Len(s)
      BY <1>2, <2>1
    <3>2. nst[i] = Lower(s[i])
      BY <1>2, <1>4, <2>1
    <3>3. (ns \o nt)[i] = ns[i]
      BY <1>3, <1>5, <2>1
    <3> QED BY <1>3, <3>1, <3>2, <3>3
  <2>2. CASE ~(i <= Len(s))
    <3>1. i - Len(s) \in 1..Len(t)
      BY <1>2, <2>2
    <3>2. nst[i] = Lower(t[i - Len(s)])
      BY <1>2, <1>4, <2>2
    <3>3. (ns \o nt)[i] = nt[i - Len(s)]
      BY <1>3, <1>5, <2>2
    <3> QED BY <1>3, <3>1, <3>2, <3>3
  <2> QED BY <2>1, <2>2
<1>7. nst = ns \o nt
  BY <1>2, <1>3, <1>4, <1>5, <1>6, SeqSame
<1> QED BY <1>7 DEF ns, nt, nst

\* Equal up to case.
Alike(V, s, t) == s \in Seq(V) /\ t \in Seq(V) /\ Normalized(s) = Normalized(t)

LEMMA AlikeConcat ==
  ASSUME NEW V, NEW s, NEW t, NEW u, NEW v, Alike(V, s, t), Alike(V, u, v)
  PROVE  Alike(V, s \o u, t \o v)
<1>1. s \in Seq(V) /\ t \in Seq(V) /\ u \in Seq(V) /\ v \in Seq(V)
  BY DEF Alike
<1>2. s \o u \in Seq(V) /\ t \o v \in Seq(V)
  BY <1>1, ConcatProperties
<1>3. Normalized(s \o u) = Normalized(s) \o Normalized(u) /\ Normalized(t \o v) = Normalized(t) \o Normalized(v)
  BY <1>1, NormalizedConcat
<1> QED BY <1>2, <1>3 DEF Alike

------------------------------------------------------------------------------
(* A text, what is kept of its hits, and a set that holds its letters and    *)
(* the classes.                                                              *)

Kept(V, text, kept) ==
  /\ text \in Seq(V)
  /\ DOMAIN kept = 1..Len(kept) /\ Len(kept) \in Nat
  /\ \E H : kept \in Seq(H)
  /\ \A i \in 1..Len(kept) :
       /\ kept[i].start \in Nat /\ kept[i].end \in Nat /\ kept[i].type \in V
       /\ kept[i].start < kept[i].end /\ kept[i].end <= Len(text)
  /\ \A i, j \in 1..Len(kept) : i < j => kept[i].end <= kept[j].start

\* The pieces of the redacted text.
ClearPiece(p) == [clear |-> TRUE, at |-> p]
TokenPiece(text, kept, i) == [clear |-> FALSE, token |-> Token(text, kept, i)]
Pieces(text, kept) ==
  {ClearPiece(p) : p \in 1..Len(text)} \cup {TokenPiece(text, kept, i) : i \in 1..Len(kept)}

\* Before and behind the clear letters that follow the i-th of the kept hits.
ClearAfter(kept, i) == IF i = 0 THEN 0 ELSE kept[i].end
ClearUpTo(text, kept, i) == IF i = Len(kept) THEN Len(text) ELSE kept[i + 1].start
ClearPieces(text, kept, i) ==
  [p \in 1..(ClearUpTo(text, kept, i) - ClearAfter(kept, i)) |-> ClearPiece(ClearAfter(kept, i) + p)]
Group(text, kept, i) == <<TokenPiece(text, kept, i)>> \o ClearPieces(text, kept, i)
Groups(text, kept) == [i \in 1..Len(kept) |-> Group(text, kept, i)]

LEMMA ClearBounds ==
  ASSUME NEW V, NEW text, NEW kept, Kept(V, text, kept), NEW i \in 0..Len(kept)
  PROVE  /\ ClearAfter(kept, i) \in 0..Len(text)
         /\ ClearUpTo(text, kept, i) \in ClearAfter(kept, i)..Len(text)
<1>1. Len(text) \in Nat /\ Len(kept) \in Nat
  BY LenProperties DEF Kept
<1>2. i # 0 => i \in 1..Len(kept)
  BY <1>1
<1>3. i # Len(kept) => i + 1 \in 1..Len(kept)
  BY <1>1
<1>4. ClearAfter(kept, i) \in 0..Len(text)
  BY <1>1, <1>2 DEF Kept, ClearAfter
<1>5. ClearUpTo(text, kept, i) \in 0..Len(text)
  <2>1. ASSUME NEW j \in 1..Len(kept) PROVE kept[j].start \in 0..Len(text)
    <3>1. /\ kept[j].start \in Nat /\ kept[j].end \in Nat
          /\ kept[j].start < kept[j].end /\ kept[j].end <= Len(text)
      BY DEF Kept
    <3> QED BY <1>1, <3>1
  <2> QED BY <1>1, <1>3, <2>1 DEF ClearUpTo
<1>6. ClearAfter(kept, i) <= ClearUpTo(text, kept, i)
  <2>1. CASE i = Len(kept)
    BY <1>4, <2>1, <1>1 DEF ClearUpTo
  <2>2. CASE i = 0
    BY <1>5, <2>2, <1>1 DEF ClearAfter
  <2>3. CASE i # 0 /\ i # Len(kept)
    <3>1. i \in 1..Len(kept) /\ i + 1 \in 1..Len(kept) /\ i < i + 1
      BY <1>2, <1>3, <2>3
    <3>2. kept[i].end <= kept[i + 1].start
      BY <3>1 DEF Kept
    <3> QED BY <2>3, <3>2 DEF ClearAfter, ClearUpTo
  <2> QED BY <2>1, <2>2, <2>3
<1> QED BY <1>1, <1>4, <1>5, <1>6

LEMMA GroupTypes ==
  ASSUME NEW V, NEW text, NEW kept, Kept(V, text, kept)
  PROVE  /\ \A i \in 0..Len(kept) : ClearPieces(text, kept, i) \in Seq(Pieces(text, kept))
         /\ \A i \in 1..Len(kept) : /\ <<TokenPiece(text, kept, i)>> \in Seq(Pieces(text, kept))
                                    /\ Group(text, kept, i) \in Seq(Pieces(text, kept))
         /\ Groups(text, kept) \in Seq(Seq(Pieces(text, kept))) /\ Len(Groups(text, kept)) = Len(kept)
<1> DEFINE P == Pieces(text, kept)
<1>1. Len(text) \in Nat /\ Len(kept) \in Nat
  BY LenProperties DEF Kept
<1>2. ASSUME NEW i \in 0..Len(kept) PROVE ClearPieces(text, kept, i) \in Seq(P)
  <2> DEFINE a == ClearAfter(kept, i)
             b == ClearUpTo(text, kept, i)
  <2>1. a \in Nat /\ b \in Nat /\ a <= b /\ b <= Len(text)
    BY <1>1, ClearBounds
  <2>2. \A p \in 1..(b - a) : a + p \in 1..Len(text)
    BY <1>1, <2>1
  <2>3. ClearPieces(text, kept, i) = [p \in 1..(b - a) |-> ClearPiece(a + p)]
    BY DEF ClearPieces
  <2>4. b - a \in Nat
    BY <2>1
  <2> HIDE DEF a, b
  <2>5. \A p \in 1..(b - a) : ClearPiece(a + p) \in P
    BY <2>2 DEF Pieces
  <2> HIDE DEF P
  <2>6. ClearPieces(text, kept, i) \in [1..(b - a) -> P]
    BY <2>3, <2>5
  <2> QED BY <2>4, <2>6, SeqDef
<1>3. ASSUME NEW i \in 1..Len(kept)
      PROVE  <<TokenPiece(text, kept, i)>> \in Seq(P) /\ Group(text, kept, i) \in Seq(P)
  <2>1. TokenPiece(text, kept, i) \in P
    BY DEF Pieces
  <2> HIDE DEF P
  <2>2. <<TokenPiece(text, kept, i)>> \in Seq(P)
    BY <2>1
  <2>3. i \in 0..Len(kept)
    BY <1>1
  <2>4. ClearPieces(text, kept, i) \in Seq(P)
    BY <1>2, <2>3
  <2> QED BY <2>2, <2>4, ConcatProperties DEF Group
<1>4. Groups(text, kept) \in Seq(Seq(P)) /\ Len(Groups(text, kept)) = Len(kept)
  <2> HIDE DEF P
  <2>1. Groups(text, kept) \in [1..Len(kept) -> Seq(P)]
    BY <1>3 DEF Groups
  <2> QED BY <1>1, <2>1, SeqDef
<1> QED BY <1>2, <1>3, <1>4

LEMMA RedactedIs ==
  ASSUME NEW V, NEW text, NEW kept, Kept(V, text, kept)
  PROVE  Redacted(text, kept) = ClearPieces(text, kept, 0) \o FlattenSeq(Groups(text, kept))
<1> DEFINE clearFrom(i) == IF i = 0 THEN 1 ELSE kept[i].end + 1
           clearTo(i) == IF i = Len(kept) THEN Len(text) ELSE kept[i + 1].start
           clear(i) == [p \in 1..(IF clearTo(i) < clearFrom(i) THEN 0 ELSE clearTo(i) - clearFrom(i) + 1) |->
                          [clear |-> TRUE, at |-> clearFrom(i) + p - 1]]
<1>1. Len(text) \in Nat /\ Len(kept) \in Nat /\ DOMAIN kept = 1..Len(kept)
  BY LenProperties DEF Kept
<1>2. ASSUME NEW i \in 0..Len(kept) PROVE clear(i) = ClearPieces(text, kept, i)
  <2> DEFINE a == ClearAfter(kept, i)
             b == ClearUpTo(text, kept, i)
  <2>1. a \in Nat /\ b \in Nat /\ a <= b
    BY <1>1, ClearBounds
  <2>2. clearFrom(i) = a + 1 /\ clearTo(i) = b
    <3>1. i = 0 => clearFrom(i) = 1 /\ a = 0
      BY DEF ClearAfter
    <3>2. i # 0 => clearFrom(i) = kept[i].end + 1 /\ a = kept[i].end
      BY DEF ClearAfter
    <3>3. clearTo(i) = b
      BY DEF ClearUpTo
    <3> HIDE DEF a, clearFrom
    <3> QED BY <3>1, <3>2, <3>3
  <2> DEFINE m == IF clearTo(i) < clearFrom(i) THEN 0 ELSE clearTo(i) - clearFrom(i) + 1
  <2>3. m = b - a
    BY <2>1, <2>2
  <2>4. \A p \in 1..(b - a) : clearFrom(i) + p - 1 = a + p
    BY <2>1, <2>2
  <2>5. clear(i) = [p \in 1..m |-> [clear |-> TRUE, at |-> clearFrom(i) + p - 1]]
    OBVIOUS
  <2>6. ClearPieces(text, kept, i) = [p \in 1..(b - a) |-> [clear |-> TRUE, at |-> a + p]]
    BY DEF ClearPieces, ClearPiece
  <2> HIDE DEF a, b, m, clear, clearFrom
  <2> QED BY <2>3, <2>4, <2>5, <2>6
<1>3. Redacted(text, kept) =
        clear(0) \o FlattenSeq([i \in DOMAIN kept |-> <<[clear |-> FALSE, token |-> Token(text, kept, i)]>> \o clear(i)])
  BY DEF Redacted
<1> HIDE DEF clear
<1>4. 0 \in 0..Len(kept) /\ \A i \in 1..Len(kept) : i \in 0..Len(kept)
  BY <1>1
<1>5. [i \in DOMAIN kept |-> <<[clear |-> FALSE, token |-> Token(text, kept, i)]>> \o clear(i)] = Groups(text, kept)
  BY <1>1, <1>2, <1>4 DEF Groups, Group, TokenPiece
<1> QED BY <1>2, <1>3, <1>4, <1>5

------------------------------------------------------------------------------
\* What the operator sees of some pieces.
Visibles(text, kept, pieces) == [n \in DOMAIN pieces |-> Visible(text, kept, pieces[n])]
Seen(text, kept, pieces) == FlattenSeq(Visibles(text, kept, pieces))

\* What is seen of a span: its class, or the span.
AsSeen(text, h) == IF h.type \in HardClasses THEN <<h.type>> ELSE Span(text, h)

LEMMA VisibleClear ==
  ASSUME NEW text, NEW kept, NEW p
  PROVE  Visible(text, kept, ClearPiece(p)) = <<text[p]>>
<1>1. ClearPiece(p).clear = TRUE /\ ClearPiece(p).at = p
  BY DEF ClearPiece
<1> QED BY <1>1 DEF Visible

LEMMA VisibleToken ==
  ASSUME NEW text, NEW kept, NEW i
  PROVE  Visible(text, kept, TokenPiece(text, kept, i)) =
           IF kept[i].type \in HardClasses THEN <<kept[i].type>> ELSE TokenMap(text, kept)[Token(text, kept, i)]
<1>1. TokenPiece(text, kept, i).clear = FALSE /\ TokenPiece(text, kept, i).token = Token(text, kept, i)
  BY DEF TokenPiece
<1>2. Token(text, kept, i).type = kept[i].type
  BY TokenFields
<1>3. Visible(text, kept, TokenPiece(text, kept, i)) =
        IF TokenPiece(text, kept, i).token.type \in HardClasses THEN <<TokenPiece(text, kept, i).token.type>>
        ELSE TokenMap(text, kept)[TokenPiece(text, kept, i).token]
  BY <1>1 DEF Visible
<1> QED BY <1>1, <1>2, <1>3

LEMMA KeptSpan ==
  ASSUME NEW V, NEW text, NEW kept, Kept(V, text, kept), NEW i \in 1..Len(kept)
  PROVE  /\ Span(text, kept[i]) \in Seq(V)
         /\ kept[i].start \in 0..Len(text) /\ kept[i].end \in kept[i].start..Len(text)
<1>1. Len(text) \in Nat
  BY LenProperties DEF Kept
<1>2. /\ kept[i].start \in Nat /\ kept[i].end \in Nat
      /\ kept[i].start < kept[i].end /\ kept[i].end <= Len(text)
  BY DEF Kept
<1>3. kept[i].start \in 0..Len(text) /\ kept[i].end \in kept[i].start..Len(text)
  BY <1>1, <1>2
<1>4. text \in Seq(V)
  BY DEF Kept
<1> QED BY <1>3, <1>4, SliceFacts DEF Span

\* What is seen of a token is the span it stands for, up to case, or the class of it.
LEMMA TokenIsSeen ==
  ASSUME NEW V, NEW text, NEW kept, Kept(V, text, kept), NEW i \in 1..Len(kept)
  PROVE  Alike(V, Visible(text, kept, TokenPiece(text, kept, i)), AsSeen(text, kept[i]))
<1>1. CASE kept[i].type \in HardClasses
  <2>1. kept[i].type \in V
    BY DEF Kept
  <2>2. <<kept[i].type>> \in Seq(V)
    BY <2>1
  <2> QED BY <1>1, <2>2, VisibleToken DEF Alike, AsSeen
<1>2. CASE kept[i].type \notin HardClasses
  <2>1. PICK H : kept \in Seq(H)
    BY DEF Kept
  <2>2. PICK c \in 1..Len(kept) :
          /\ TokenMap(text, kept)[Token(text, kept, i)] = Span(text, kept[c])
          /\ Normalized(Span(text, kept[c])) = Normalized(Span(text, kept[i]))
    BY <2>1, TokenMeans
  <2>3. Span(text, kept[c]) \in Seq(V) /\ Span(text, kept[i]) \in Seq(V)
    BY KeptSpan
  <2> QED BY <1>2, <2>2, <2>3, VisibleToken DEF Alike, AsSeen
<1> QED BY <1>1, <1>2

LEMMA VisiblesType ==
  ASSUME NEW V, NEW text, NEW kept, Kept(V, text, kept), NEW r \in Seq(Pieces(text, kept))
  PROVE  /\ Visibles(text, kept, r) \in Seq(Seq(V)) /\ Len(Visibles(text, kept, r)) = Len(r)
         /\ \A n \in 1..Len(r) : Visibles(text, kept, r)[n] = Visible(text, kept, r[n])
<1>1. \A piece \in Pieces(text, kept) : Visible(text, kept, piece) \in Seq(V)
  <2>1. ASSUME NEW p \in 1..Len(text) PROVE Visible(text, kept, ClearPiece(p)) \in Seq(V)
    <3>1. text[p] \in V
      BY ElementOfSeq DEF Kept
    <3>2. <<text[p]>> \in Seq(V)
      BY <3>1
    <3> QED BY <3>2, VisibleClear
  <2>2. ASSUME NEW i \in 1..Len(kept) PROVE Visible(text, kept, TokenPiece(text, kept, i)) \in Seq(V)
    BY TokenIsSeen DEF Alike
  <2> QED BY <2>1, <2>2 DEF Pieces
<1>2. Len(r) \in Nat /\ DOMAIN r = 1..Len(r) /\ \A n \in 1..Len(r) : r[n] \in Pieces(text, kept)
  BY LenProperties, ElementOfSeq
<1>3. Visibles(text, kept, r) = [n \in 1..Len(r) |-> Visible(text, kept, r[n])]
  BY <1>2 DEF Visibles
<1>4. Visibles(text, kept, r) \in [1..Len(r) -> Seq(V)]
  BY <1>1, <1>2, <1>3
<1> QED BY <1>2, <1>3, <1>4, SeqDef

LEMMA SeenType ==
  ASSUME NEW V, NEW text, NEW kept, Kept(V, text, kept), NEW r \in Seq(Pieces(text, kept))
  PROVE  Seen(text, kept, r) \in Seq(V)
<1>1. Visibles(text, kept, r) \in Seq(Seq(V))
  BY VisiblesType
<1> QED BY <1>1, FlatType DEF Seen

LEMMA SeenConcat ==
  ASSUME NEW V, NEW text, NEW kept, Kept(V, text, kept),
         NEW r \in Seq(Pieces(text, kept)), NEW s \in Seq(Pieces(text, kept))
  PROVE  Seen(text, kept, r \o s) = Seen(text, kept, r) \o Seen(text, kept, s)
<1> DEFINE P == Pieces(text, kept)
           vr == Visibles(text, kept, r)
           vs == Visibles(text, kept, s)
           vrs == Visibles(text, kept, r \o s)
<1>1. /\ Len(r) \in Nat /\ Len(s) \in Nat /\ r \o s \in Seq(P) /\ Len(r \o s) = Len(r) + Len(s)
      /\ \A i \in 1..(Len(r) + Len(s)) : (r \o s)[i] = IF i <= Len(r) THEN r[i] ELSE s[i - Len(r)]
  <2> HIDE DEF P
  <2>1. r \in Seq(P) /\ s \in Seq(P)
    BY DEF P
  <2> QED BY ONLY <2>1, ConcatProperties, LenProperties
<1>2. /\ vr \in Seq(Seq(V)) /\ Len(vr) = Len(r) /\ \A n \in 1..Len(r) : vr[n] = Visible(text, kept, r[n])
      /\ vs \in Seq(Seq(V)) /\ Len(vs) = Len(s) /\ \A n \in 1..Len(s) : vs[n] = Visible(text, kept, s[n])
  BY VisiblesType
<1>3. /\ vrs \in Seq(Seq(V)) /\ Len(vrs) = Len(r) + Len(s)
      /\ \A n \in 1..(Len(r) + Len(s)) : vrs[n] = Visible(text, kept, (r \o s)[n])
  <2> DEFINE q == r \o s
  <2>0. q \in Seq(Pieces(text, kept))
    BY <1>1
  <2>1. /\ vrs \in Seq(Seq(V)) /\ Len(vrs) = Len(r \o s)
        /\ \A n \in 1..Len(r \o s) : vrs[n] = Visible(text, kept, (r \o s)[n])
    <3> HIDE DEF q
    <3>1. /\ Visibles(text, kept, q) \in Seq(Seq(V)) /\ Len(Visibles(text, kept, q)) = Len(q)
          /\ \A n \in 1..Len(q) : Visibles(text, kept, q)[n] = Visible(text, kept, q[n])
      BY <2>0, VisiblesType
    <3> QED BY <3>1 DEF q
  <2> QED BY <1>1, <2>1
<1> HIDE DEF vr, vs, vrs, P
<1>4. /\ vr \o vs \in Seq(Seq(V)) /\ Len(vr \o vs) = Len(vr) + Len(vs)
      /\ \A i \in 1..(Len(vr) + Len(vs)) : (vr \o vs)[i] = IF i <= Len(vr) THEN vr[i] ELSE vs[i - Len(vr)]
  <2>1. vr \in Seq(Seq(V)) /\ vs \in Seq(Seq(V))
    BY <1>2
  <2> QED BY ONLY <2>1, ConcatProperties
<1>5. ASSUME NEW i \in 1..(Len(r) + Len(s)) PROVE vrs[i] = (vr \o vs)[i]
  <2>1. CASE i <= Len(r)
    <3>1. i \in 1..Len(r)
      BY <1>1, <2>1
    <3>2. vrs[i] = Visible(text, kept, r[i])
      BY <1>1, <1>3, <2>1
    <3>3. (vr \o vs)[i] = vr[i]
      BY <1>2, <1>4, <2>1
    <3> QED BY <1>2, <3>1, <3>2, <3>3
  <2>2. CASE ~(i <= Len(r))
    <3>1. i - Len(r) \in 1..Len(s)
      BY <1>1, <2>2
    <3>2. vrs[i] = Visible(text, kept, s[i - Len(r)])
      BY <1>1, <1>3, <2>2
    <3>3. (vr \o vs)[i] = vs[i - Len(r)]
      BY <1>2, <1>4, <2>2
    <3> QED BY <1>2, <3>1, <3>2, <3>3
  <2> QED BY <2>1, <2>2
<1>6. vrs = vr \o vs
  BY <1>2, <1>3, <1>4, <1>5, SeqSame
<1>7. FlattenSeq(vr \o vs) = FlattenSeq(vr) \o FlattenSeq(vs)
  BY <1>2, FlatConcat
<1> QED BY <1>6, <1>7 DEF Seen, vr, vs, vrs

\* What is seen of two parts is what is seen of them together.
SeenSplits(text, kept) ==
  \A r, s \in Seq(Pieces(text, kept)) : Seen(text, kept, r \o s) = Seen(text, kept, r) \o Seen(text, kept, s)

LEMMA SeenJoins ==
  ASSUME NEW V, NEW text, NEW kept, Kept(V, text, kept)
  PROVE  SeenSplits(text, kept)
BY SeenConcat DEF SeenSplits

LEMMA SeenToken ==
  ASSUME NEW V, NEW text, NEW kept, Kept(V, text, kept), NEW i \in 1..Len(kept)
  PROVE  Seen(text, kept, <<TokenPiece(text, kept, i)>>) = Visible(text, kept, TokenPiece(text, kept, i))
<1> DEFINE v == Visible(text, kept, TokenPiece(text, kept, i))
<1>1. v \in Seq(V)
  BY TokenIsSeen DEF Alike
<1>2. Visibles(text, kept, <<TokenPiece(text, kept, i)>>) = <<v>>
  BY DEF Visibles
<1> HIDE DEF v
<1>3. FlattenSeq(<<v>>) = v
  BY <1>1, FlatOne
<1> QED BY <1>2, <1>3 DEF Seen, v

\* The clear letters that follow the i-th of the kept hits.
ClearLetters(text, kept, i) == SubSeq(text, ClearAfter(kept, i) + 1, ClearUpTo(text, kept, i))

LEMMA SeenClear ==
  ASSUME NEW V, NEW text, NEW kept, Kept(V, text, kept), NEW i \in 0..Len(kept)
  PROVE  /\ ClearLetters(text, kept, i) \in Seq(V)
         /\ Seen(text, kept, ClearPieces(text, kept, i)) = ClearLetters(text, kept, i)
<1> DEFINE a == ClearAfter(kept, i)
           b == ClearUpTo(text, kept, i)
           s == ClearLetters(text, kept, i)
           c == ClearPieces(text, kept, i)
<1>1. a \in 0..Len(text) /\ b \in a..Len(text) /\ text \in Seq(V)
  BY ClearBounds DEF Kept
<1>2. s \in Seq(V) /\ Len(s) = b - a /\ \A p \in 1..(b - a) : s[p] = text[a + p]
  BY <1>1, SliceFacts DEF ClearLetters
<1>3. c = [p \in 1..(b - a) |-> ClearPiece(a + p)]
  BY DEF ClearPieces
<1> HIDE DEF a, b, s, c
<1>4. DOMAIN s = 1..(b - a)
  BY <1>2, LenProperties
<1>5. Visibles(text, kept, c) = Singles(s)
  BY <1>2, <1>3, <1>4, VisibleClear DEF Visibles, Singles
<1>6. FlattenSeq(Singles(s)) = s
  BY <1>2, FlatSingles
<1> QED BY <1>2, <1>5, <1>6 DEF Seen, s, c

------------------------------------------------------------------------------
(* What a reply is expected to show at one position of the text.             *)

Inside(kept, p) == {i \in DOMAIN kept : kept[i].start < p /\ p <= kept[i].end}
ExpectedOf(text, h, p) ==
  IF h.type \notin HardClasses THEN <<text[p]>> ELSE IF p = h.start + 1 THEN <<h.type>> ELSE <<>>
ExpectedAt(text, kept, p) ==
  IF Inside(kept, p) = {} THEN <<text[p]>>
  ELSE ExpectedOf(text, kept[CHOOSE i \in Inside(kept, p) : TRUE], p)
Expected(text, kept) == [p \in DOMAIN text |-> ExpectedAt(text, kept, p)]

LEMMA InsideOne ==
  ASSUME NEW V, NEW text, NEW kept, Kept(V, text, kept), NEW i \in 1..Len(kept), NEW p \in Nat,
         kept[i].start < p, p <= kept[i].end
  PROVE  Inside(kept, p) = {i}
<1>1. DOMAIN kept = 1..Len(kept) /\ Len(kept) \in Nat
  BY DEF Kept
<1>2. i \in Inside(kept, p)
  BY <1>1 DEF Inside
<1>3. ASSUME NEW j \in Inside(kept, p) PROVE j = i
  <2>1. j \in 1..Len(kept) /\ kept[j].start < p /\ p <= kept[j].end
    BY <1>1 DEF Inside
  <2>2. /\ kept[i].start \in Nat /\ kept[i].end \in Nat /\ kept[j].start \in Nat /\ kept[j].end \in Nat
    BY <2>1 DEF Kept
  <2>3. (i < j => kept[i].end <= kept[j].start) /\ (j < i => kept[j].end <= kept[i].start)
    BY <2>1 DEF Kept
  <2>4. ~(i < j) /\ ~(j < i)
    BY <2>1, <2>2, <2>3
  <2> QED BY <1>1, <2>1, <2>4
<1> QED BY <1>2, <1>3

LEMMA InsideNone ==
  ASSUME NEW V, NEW text, NEW kept, Kept(V, text, kept), NEW i \in 0..Len(kept), NEW p \in Nat,
         ClearAfter(kept, i) < p, p <= ClearUpTo(text, kept, i)
  PROVE  Inside(kept, p) = {}
<1>1. DOMAIN kept = 1..Len(kept) /\ Len(kept) \in Nat
  BY DEF Kept
<1> SUFFICES ASSUME NEW j \in Inside(kept, p) PROVE FALSE
  OBVIOUS
<1>2. j \in 1..Len(kept) /\ kept[j].start < p /\ p <= kept[j].end
  BY <1>1 DEF Inside
<1>3. \A l \in 1..Len(kept) : kept[l].start \in Nat /\ kept[l].end \in Nat /\ kept[l].start < kept[l].end
  BY DEF Kept
<1>4. CASE j <= i
  <2>1. i \in 1..Len(kept) /\ i # 0 /\ kept[i].end < p
    BY <1>1, <1>2, <1>4 DEF ClearAfter
  <2>2. kept[j].end <= kept[i].end
    <3>1. j # i => kept[j].end <= kept[i].start
      <4>1. j # i => j < i
        BY <1>1, <1>2, <1>4
      <4> QED BY <1>2, <2>1, <4>1 DEF Kept
    <3>2. /\ kept[i].start \in Nat /\ kept[i].end \in Nat /\ kept[i].start < kept[i].end
          /\ kept[j].end \in Nat
      BY <1>2, <1>3, <2>1
    <3>3. CASE j = i
      BY <3>2, <3>3
    <3>4. CASE j # i
      BY <3>1, <3>2, <3>4
    <3> QED BY <3>3, <3>4
  <2>3. kept[j].end \in Nat /\ kept[i].end \in Nat
    BY <1>2, <1>3, <2>1
  <2> QED BY <1>2, <2>1, <2>2, <2>3
<1>5. CASE ~(j <= i)
  <2>1. i + 1 \in 1..Len(kept) /\ i # Len(kept) /\ i + 1 <= j
    <3> DEFINE n == Len(kept)
    <3> HIDE DEF n
    <3>1. n \in Nat /\ i \in 0..n /\ j \in 1..n /\ ~(j <= i)
      BY <1>1, <1>2, <1>5 DEF n
    <3>2. i + 1 \in 1..n /\ i # n /\ i + 1 <= j
      BY ONLY <3>1
    <3> QED BY <3>2 DEF n
  <2>2. p <= kept[i + 1].start
    BY <2>1 DEF ClearUpTo
  <2>3. kept[i + 1].start <= kept[j].start
    <3>1. i + 1 # j => kept[i + 1].end <= kept[j].start
      <4>0. i \in Nat /\ j \in Nat
        BY <1>1, <1>2
      <4>1. i + 1 # j => i + 1 < j
        BY <4>0, <2>1
      <4> QED BY <1>2, <2>1, <4>1 DEF Kept
    <3>2. /\ kept[i + 1].start \in Nat /\ kept[i + 1].end \in Nat /\ kept[i + 1].start < kept[i + 1].end
          /\ kept[j].start \in Nat
      BY <1>2, <1>3, <2>1
    <3>3. CASE i + 1 = j
      BY <3>2, <3>3
    <3>4. CASE i + 1 # j
      BY <3>1, <3>2, <3>4
    <3> QED BY <3>3, <3>4
  <2>4. kept[j].start \in Nat /\ kept[i + 1].start \in Nat
    BY <1>2, <1>3, <2>1
  <2> QED BY <1>2, <2>2, <2>3, <2>4
<1> QED BY <1>1, <1>2, <1>4, <1>5

------------------------------------------------------------------------------
\* A token and its clear letters behind what came before.
GroupSplits(text, kept, c, g, t, d) ==
  /\ g \o (t \o d) \in Seq(Pieces(text, kept))
  /\ Seen(text, kept, c \o (g \o (t \o d))) =
       (Seen(text, kept, c \o g) \o Seen(text, kept, t)) \o Seen(text, kept, d)

LEMMA SeenGroups ==
  ASSUME NEW text, NEW kept, SeenSplits(text, kept),
         NEW c \in Seq(Pieces(text, kept)), NEW g \in Seq(Pieces(text, kept)),
         NEW t \in Seq(Pieces(text, kept)), NEW d \in Seq(Pieces(text, kept))
  PROVE  GroupSplits(text, kept, c, g, t, d)
<1> DEFINE P == Pieces(text, kept)
           cg == c \o g
           td == t \o d
           cgt == cg \o t
<1>1. c \in Seq(P) /\ g \in Seq(P) /\ t \in Seq(P) /\ d \in Seq(P)
  OBVIOUS
<1>2. \A r, s \in Seq(P) : Seen(text, kept, r \o s) = Seen(text, kept, r) \o Seen(text, kept, s)
  BY DEF SeenSplits
<1> HIDE DEF P
<1>3. cg \in Seq(P) /\ td \in Seq(P)
  BY <1>1, ConcatProperties
<1> HIDE DEF cg, td
<1>4. cgt \in Seq(P) /\ g \o td \in Seq(P)
  BY <1>1, <1>3, ConcatProperties
<1>5. c \o (g \o td) = cg \o td
  <2>1. (c \o g) \o td = c \o (g \o td)
    <3>1. c \in Seq(P) /\ g \in Seq(P) /\ td \in Seq(P)
      BY <1>1, <1>3
    <3> QED BY ONLY <3>1, ConcatAssociative, SMTT(30)
  <2> QED BY <2>1 DEF cg
<1>6. cg \o td = cgt \o d
  <2>1. (cg \o t) \o d = cg \o (t \o d)
    <3>1. cg \in Seq(P) /\ t \in Seq(P) /\ d \in Seq(P)
      BY <1>1, <1>3
    <3> QED BY ONLY <3>1, ConcatAssociative, SMTT(30)
  <2> QED BY <2>1 DEF td
<1> HIDE DEF cgt
<1>7. Seen(text, kept, cgt \o d) = Seen(text, kept, cgt) \o Seen(text, kept, d)
  BY <1>1, <1>2, <1>4
<1>8. Seen(text, kept, cgt) = Seen(text, kept, cg) \o Seen(text, kept, t)
  BY <1>1, <1>2, <1>3 DEF cgt
<1> QED BY <1>4, <1>5, <1>6, <1>7, <1>8 DEF P, cg, td, GroupSplits

\* What a reply is expected to show of the first b letters.
ExpectedTo(text, kept, b) == FlattenSeq(SubSeq(Expected(text, kept), 1, b))

LEMMA ExpectedType ==
  ASSUME NEW V, NEW text, NEW kept, Kept(V, text, kept)
  PROVE  /\ Expected(text, kept) \in Seq(Seq(V)) /\ Len(Expected(text, kept)) = Len(text)
         /\ \A p \in 1..Len(text) : Expected(text, kept)[p] = ExpectedAt(text, kept, p)
<1>1. Len(text) \in Nat /\ DOMAIN text = 1..Len(text) /\ \A p \in 1..Len(text) : text[p] \in V
  BY LenProperties, ElementOfSeq DEF Kept
<1>2. DOMAIN kept = 1..Len(kept) /\ \A i \in 1..Len(kept) : kept[i].type \in V
  BY DEF Kept
<1>3. ASSUME NEW p \in 1..Len(text) PROVE ExpectedAt(text, kept, p) \in Seq(V)
  <2>1. <<text[p]>> \in Seq(V) /\ <<>> \in Seq(V)
    BY <1>1, EmptySeq
  <2>2. CASE Inside(kept, p) = {}
    BY <2>1, <2>2 DEF ExpectedAt
  <2>3. CASE Inside(kept, p) # {}
    <3> DEFINE i == CHOOSE i_1 \in Inside(kept, p) : TRUE
    <3>1. i \in Inside(kept, p)
      BY <2>3
    <3>2. ExpectedAt(text, kept, p) = ExpectedOf(text, kept[i], p)
      BY <2>3 DEF ExpectedAt
    <3> HIDE DEF i
    <3>3. kept[i].type \in V
      BY <1>2, <3>1 DEF Inside
    <3>4. <<kept[i].type>> \in Seq(V)
      BY <3>3
    <3> QED BY <2>1, <3>2, <3>4 DEF ExpectedOf
  <2> QED BY <2>2, <2>3
<1>4. Expected(text, kept) = [p \in 1..Len(text) |-> ExpectedAt(text, kept, p)]
  BY <1>1 DEF Expected
<1>5. Expected(text, kept) \in [1..Len(text) -> Seq(V)]
  BY <1>3, <1>4
<1> QED BY <1>1, <1>4, <1>5, SeqDef

\* What is expected from behind the a-th letter to the b-th.
Joins(V, text, kept, a, b, between) ==
  /\ between \in Seq(Seq(V)) /\ Len(between) = b - a
  /\ \A p \in 1..(b - a) : between[p] = ExpectedAt(text, kept, a + p)
  /\ ExpectedTo(text, kept, b) = ExpectedTo(text, kept, a) \o FlattenSeq(between)

LEMMA ExpectedJoins ==
  ASSUME NEW V, NEW text, NEW kept, Kept(V, text, kept),
         NEW a \in 0..Len(text), NEW b \in a..Len(text)
  PROVE  Joins(V, text, kept, a, b, SubSeq(Expected(text, kept), a + 1, b))
<1> DEFINE e == Expected(text, kept)
           n == Len(text)
<1>1. /\ e \in Seq(Seq(V)) /\ Len(e) = n /\ n \in Nat
      /\ \A p \in 1..n : e[p] = ExpectedAt(text, kept, p)
  BY ExpectedType, LenProperties DEF Kept
<1>2. a \in 0..n /\ b \in a..n /\ a \in Nat /\ b \in Nat
  BY <1>1
<1> HIDE DEF e, n
<1>3. /\ SubSeq(e, a + 1, b) \in Seq(Seq(V)) /\ Len(SubSeq(e, a + 1, b)) = b - a
      /\ \A p \in 1..(b - a) : SubSeq(e, a + 1, b)[p] = e[a + p]
  BY <1>1, <1>2, SliceFacts
<1>4. SubSeq(e, 1, b) = SubSeq(e, 1, a) \o SubSeq(e, a + 1, b)
  BY <1>1, <1>2, SlicesJoin
<1>5. SubSeq(e, 1, a) \in Seq(Seq(V))
  BY <1>1, <1>2, TakeFacts
<1>6. FlattenSeq(SubSeq(e, 1, b)) = FlattenSeq(SubSeq(e, 1, a)) \o FlattenSeq(SubSeq(e, a + 1, b))
  BY <1>3, <1>4, <1>5, FlatConcat
<1>7. \A p \in 1..(b - a) : a + p \in 1..n
  BY <1>1, <1>2
<1> QED BY <1>1, <1>3, <1>6, <1>7 DEF ExpectedTo, Joins, e

\* Letters that stand for themselves.
LEMMA ExpectedLetters ==
  ASSUME NEW V, NEW text, NEW kept, Kept(V, text, kept),
         NEW a \in 0..Len(text), NEW b \in a..Len(text),
         \A p \in 1..(b - a) : ExpectedAt(text, kept, a + p) = <<text[a + p]>>
  PROVE  ExpectedTo(text, kept, b) = ExpectedTo(text, kept, a) \o SubSeq(text, a + 1, b)
<1> DEFINE s == SubSeq(text, a + 1, b)
           e == SubSeq(Expected(text, kept), a + 1, b)
<1>1. text \in Seq(V)
  BY DEF Kept
<1>2. s \in Seq(V) /\ Len(s) = b - a /\ \A p \in 1..(b - a) : s[p] = text[a + p]
  BY <1>1, SliceFacts
<1>3. /\ e \in Seq(Seq(V)) /\ Len(e) = b - a
      /\ \A p \in 1..(b - a) : e[p] = ExpectedAt(text, kept, a + p)
      /\ ExpectedTo(text, kept, b) = ExpectedTo(text, kept, a) \o FlattenSeq(e)
  <2>1. Joins(V, text, kept, a, b, e)
    BY ExpectedJoins
  <2> HIDE DEF e
  <2> QED BY <2>1 DEF Joins
<1> HIDE DEF s, e
<1>4. Singles(s) \in Seq(Seq(V)) /\ Len(Singles(s)) = b - a /\ \A p \in 1..(b - a) : Singles(s)[p] = <<s[p]>>
  BY <1>2, SinglesType
<1>5. \A p \in 1..(b - a) : e[p] = Singles(s)[p]
  BY <1>2, <1>3, <1>4
<1>6. e = Singles(s)
  BY <1>3, <1>4, <1>5, SeqSame
<1>7. FlattenSeq(e) = s
  BY <1>2, <1>6, FlatSingles
<1> QED BY <1>3, <1>7 DEF s

LEMMA ExpectedClear ==
  ASSUME NEW V, NEW text, NEW kept, Kept(V, text, kept), NEW i \in 0..Len(kept)
  PROVE  ExpectedTo(text, kept, ClearUpTo(text, kept, i)) =
           ExpectedTo(text, kept, ClearAfter(kept, i)) \o ClearLetters(text, kept, i)
<1> DEFINE a == ClearAfter(kept, i)
           b == ClearUpTo(text, kept, i)
<1>1. a \in 0..Len(text) /\ b \in a..Len(text)
  BY ClearBounds
<1>2. Len(text) \in Nat
  BY LenProperties DEF Kept
<1>3. ASSUME NEW p \in 1..(b - a) PROVE ExpectedAt(text, kept, a + p) = <<text[a + p]>>
  <2>1. a + p \in Nat /\ a < a + p /\ a + p <= b
    BY <1>1, <1>2
  <2>2. Inside(kept, a + p) = {}
    BY <2>1, InsideNone
  <2> QED BY <2>2 DEF ExpectedAt
<1> HIDE DEF a, b
<1>4. ExpectedTo(text, kept, b) = ExpectedTo(text, kept, a) \o SubSeq(text, a + 1, b)
  BY <1>1, <1>3, ExpectedLetters
<1> QED BY <1>4 DEF a, b, ClearLetters

LEMMA ExpectedSpan ==
  ASSUME NEW V, NEW text, NEW kept, Kept(V, text, kept), NEW i \in 1..Len(kept)
  PROVE  ExpectedTo(text, kept, kept[i].end) =
           ExpectedTo(text, kept, kept[i].start) \o AsSeen(text, kept[i])
<1> DEFINE a == kept[i].start
           b == kept[i].end
<1>1. a \in 0..Len(text) /\ b \in a..Len(text)
  BY KeptSpan
<1>2. Len(text) \in Nat /\ a \in Nat /\ b \in Nat /\ a < b
  BY LenProperties DEF Kept
<1>3. ASSUME NEW p \in 1..(b - a) PROVE ExpectedAt(text, kept, a + p) = ExpectedOf(text, kept[i], a + p)
  <2>1. a + p \in Nat /\ a < a + p /\ a + p <= b
    BY <1>2
  <2>2. Inside(kept, a + p) = {i}
    BY <2>1, InsideOne
  <2> QED BY <2>2 DEF ExpectedAt
<1>4. CASE kept[i].type \notin HardClasses
  <2>1. \A p \in 1..(b - a) : ExpectedAt(text, kept, a + p) = <<text[a + p]>>
    BY <1>3, <1>4 DEF ExpectedOf
  <2> HIDE DEF a, b
  <2>2. ExpectedTo(text, kept, b) = ExpectedTo(text, kept, a) \o SubSeq(text, a + 1, b)
    BY <1>1, <2>1, ExpectedLetters
  <2> QED BY <1>4, <2>2 DEF a, b, Span, AsSeen
<1>5. CASE kept[i].type \in HardClasses
  <2> DEFINE e == SubSeq(Expected(text, kept), a + 1, b)
  <2>1. /\ e \in Seq(Seq(V)) /\ Len(e) = b - a
        /\ \A p \in 1..(b - a) : e[p] = ExpectedAt(text, kept, a + p)
        /\ ExpectedTo(text, kept, b) = ExpectedTo(text, kept, a) \o FlattenSeq(e)
    <3> HIDE DEF a, b
    <3>1. Joins(V, text, kept, a, b, e)
      BY <1>1, ExpectedJoins
    <3> HIDE DEF e
    <3> QED BY <3>1 DEF Joins
  <2>2. \A p \in 1..(b - a) : e[p] = IF p = 1 THEN <<kept[i].type>> ELSE <<>>
    <3> TAKE p \in 1..(b - a)
    <3>1. a + p = a + 1 <=> p = 1
      BY <1>2
    <3> HIDE DEF e
    <3>2. e[p] = ExpectedOf(text, kept[i], a + p)
      BY <1>3, <2>1
    <3> QED BY <1>5, <3>1, <3>2 DEF ExpectedOf
  <2> HIDE DEF e
  <2>3. Len(e) >= 1 /\ 1 \in 1..(b - a) /\ \A p \in 2..Len(e) : p \in 1..(b - a) /\ p # 1
    <3>1. Len(e) = b - a /\ a \in Nat /\ b \in Nat /\ a < b
      BY <1>2, <2>1
    <3> QED BY ONLY <3>1
  <2>4. \A p \in 2..Len(e) : e[p] = <<>>
    BY <2>2, <2>3
  <2>5. FlattenSeq(e) = e[1]
    BY <2>1, <2>3, <2>4, FlatFirst
  <2>6. e[1] = <<kept[i].type>>
    BY <2>2, <2>3
  <2> QED BY <1>5, <2>1, <2>5, <2>6 DEF AsSeen
<1> QED BY <1>4, <1>5

------------------------------------------------------------------------------
\* What is seen of the redacted text, up to the clear letters behind the m-th token.
GroupsTo(text, kept, m) == FlattenSeq(SubSeq(Groups(text, kept), 1, m))
AlikeTo(V, text, kept, m) ==
  /\ GroupsTo(text, kept, m) \in Seq(Pieces(text, kept))
  /\ Alike(V, Seen(text, kept, ClearPieces(text, kept, 0) \o GroupsTo(text, kept, m)),
           ExpectedTo(text, kept, ClearUpTo(text, kept, m)))

LEMMA AlikeReflexive ==
  ASSUME NEW V, NEW s \in Seq(V)
  PROVE  Alike(V, s, s)
BY DEF Alike

LEMMA AlikeFirst ==
  ASSUME NEW V, NEW text, NEW kept, Kept(V, text, kept)
  PROVE  AlikeTo(V, text, kept, 0)
<1> DEFINE c == ClearPieces(text, kept, 0)
           P == Pieces(text, kept)
<1>1. Len(kept) \in Nat /\ 0 \in 0..Len(kept) /\ Len(text) \in Nat /\ 0 \in 0..Len(text)
  BY LenProperties DEF Kept
<1>2. c \in Seq(P) /\ Groups(text, kept) \in Seq(Seq(P))
  BY <1>1, GroupTypes
<1>3. GroupsTo(text, kept, 0) = <<>>
  <2>1. SubSeq(Groups(text, kept), 1, 0) = <<>>
    BY SubSeqEmpty
  <2> QED BY <2>1, FlatEmpty DEF GroupsTo
<1>4. <<>> \in Seq(P) /\ c \o <<>> = c
  <2> HIDE DEF c, P
  <2> QED BY <1>2, EmptySeq, ConcatEmptySeq
<1>5. Seen(text, kept, c) = ClearLetters(text, kept, 0) /\ ClearLetters(text, kept, 0) \in Seq(V)
  BY <1>1, SeenClear
<1>6. ExpectedTo(text, kept, 0) = <<>>
  <2>1. SubSeq(Expected(text, kept), 1, 0) = <<>>
    BY SubSeqEmpty
  <2> QED BY <2>1, FlatEmpty DEF ExpectedTo
<1>7. ExpectedTo(text, kept, ClearUpTo(text, kept, 0)) = ClearLetters(text, kept, 0)
  <2>1. ClearAfter(kept, 0) = 0
    BY DEF ClearAfter
  <2>2. ExpectedTo(text, kept, ClearUpTo(text, kept, 0)) = <<>> \o ClearLetters(text, kept, 0)
    BY <1>1, <1>6, <2>1, ExpectedClear
  <2> QED BY <1>5, <2>2, ConcatEmptySeq
<1>8. Alike(V, ClearLetters(text, kept, 0), ClearLetters(text, kept, 0))
  BY <1>5, AlikeReflexive
<1> HIDE DEF c, P
<1> QED BY <1>3, <1>4, <1>5, <1>7, <1>8 DEF AlikeTo, P, c

LEMMA AlikeNext ==
  ASSUME NEW V, NEW text, NEW kept, Kept(V, text, kept), NEW m \in Nat, m + 1 <= Len(kept),
         AlikeTo(V, text, kept, m)
  PROVE  AlikeTo(V, text, kept, m + 1)
<1> DEFINE P == Pieces(text, kept)
           gs == Groups(text, kept)
           g == GroupsTo(text, kept, m)
           c == ClearPieces(text, kept, 0)
           t == <<TokenPiece(text, kept, m + 1)>>
           d == ClearPieces(text, kept, m + 1)
           seen == Seen(text, kept, c \o g)
           token == Visible(text, kept, TokenPiece(text, kept, m + 1))
           letters == ClearLetters(text, kept, m + 1)
           said == AsSeen(text, kept[m + 1])
           before == ExpectedTo(text, kept, ClearUpTo(text, kept, m))
<1>1. /\ Len(kept) \in Nat /\ m \in 0..Len(kept) /\ m + 1 \in 1..Len(kept) /\ m + 1 \in 0..Len(kept)
      /\ 0 \in 0..Len(kept) /\ m # Len(kept) /\ m + 1 # 0
  BY DEF Kept
<1>2. /\ c \in Seq(P) /\ d \in Seq(P) /\ t \in Seq(P) /\ gs \in Seq(Seq(P)) /\ Len(gs) = Len(kept)
      /\ Group(text, kept, m + 1) \in Seq(P)
  BY <1>1, GroupTypes
<1>3. gs[m + 1] = t \o d
  BY <1>1 DEF Groups, Group
<1>4. g \in Seq(P) /\ Alike(V, seen, before)
  BY DEF AlikeTo
<1>5. GroupsTo(text, kept, m + 1) = g \o (t \o d)
  <2>1. SubSeq(gs, 1, m + 1) = Append(SubSeq(gs, 1, m), gs[m + 1])
    <3> HIDE DEF gs, P
    <3> QED BY <1>1, <1>2, SliceOne
  <2>2. SubSeq(gs, 1, m) \in Seq(Seq(P))
    <3> HIDE DEF gs, P
    <3> QED BY <1>1, <1>2, TakeFacts
  <2>3. t \o d \in Seq(P)
    BY <1>2 DEF Group
  <2> DEFINE s == SubSeq(gs, 1, m)
             e == t \o d
  <2>4. FlattenSeq(Append(s, e)) = FlattenSeq(s) \o e
    <3> HIDE DEF s, e, P
    <3> QED BY <2>2, <2>3, FlatAppend DEF s, e
  <2> QED BY <1>3, <2>1, <2>4 DEF GroupsTo
<1>6. token = Seen(text, kept, t)
  BY <1>1, SeenToken
<1>7. letters = Seen(text, kept, d) /\ letters \in Seq(V)
  BY <1>1, SeenClear
<1>8. Alike(V, token, said)
  BY <1>1, TokenIsSeen
<1>9. ExpectedTo(text, kept, ClearUpTo(text, kept, m + 1)) = (before \o said) \o letters
  <2>1. ClearUpTo(text, kept, m) = kept[m + 1].start /\ ClearAfter(kept, m + 1) = kept[m + 1].end
    BY <1>1 DEF ClearUpTo, ClearAfter
  <2>2. ExpectedTo(text, kept, kept[m + 1].end) = before \o said
    BY <1>1, <2>1, ExpectedSpan
  <2> QED BY <1>1, <2>1, <2>2, ExpectedClear
<1>10. g \o (t \o d) \in Seq(P)
       /\ Seen(text, kept, c \o (g \o (t \o d))) = (seen \o Seen(text, kept, t)) \o Seen(text, kept, d)
  <2>1. c \in Seq(P) /\ g \in Seq(P) /\ t \in Seq(P) /\ d \in Seq(P)
    BY <1>2, <1>4
  <2>2. SeenSplits(text, kept)
    BY SeenJoins
  <2>3. GroupSplits(text, kept, c, g, t, d)
    <3> HIDE DEF c, g, t, d
    <3> QED BY <2>1, <2>2, SeenGroups
  <2> QED BY <2>3 DEF GroupSplits
<1>11. Seen(text, kept, c \o GroupsTo(text, kept, m + 1)) = (seen \o token) \o letters
  BY <1>5, <1>6, <1>7, <1>10
<1>12. Alike(V, letters, letters)
  BY <1>7, AlikeReflexive
<1>13. Alike(V, (seen \o token) \o letters, (before \o said) \o letters)
  <2> HIDE DEF seen, token, letters, before, said
  <2>1. Alike(V, seen \o token, before \o said)
    BY <1>4, <1>8, AlikeConcat
  <2> QED BY <1>12, <2>1, AlikeConcat
<1> HIDE DEF seen, token, letters, before, said, c, g, t, d
<1> QED BY <1>5, <1>9, <1>10, <1>11, <1>13 DEF AlikeTo, c

LEMMA EchoIsExpected ==
  ASSUME NEW V, NEW text, NEW kept, Kept(V, text, kept)
  PROVE  Normalized(Echo(text, kept)) = Normalized(FlattenSeq(Expected(text, kept)))
<1> DEFINE n == Len(kept)
           Good == {m \in Nat : m <= n => AlikeTo(V, text, kept, m)}
<1>1. n \in Nat /\ text \in Seq(V)
  BY DEF Kept
<1>2. 0 \in Good
  BY AlikeFirst
<1>3. ASSUME NEW m \in Nat, m \in Good PROVE m + 1 \in Good
  <2> SUFFICES ASSUME m + 1 <= n PROVE AlikeTo(V, text, kept, m + 1)
    OBVIOUS
  <2>1. m <= n
    BY <1>1
  <2>2. AlikeTo(V, text, kept, m)
    BY <1>3, <2>1
  <2> QED BY <2>2, AlikeNext
<1>4. n \in Good
  <2> HIDE DEF Good
  <2> QED BY <1>1, <1>2, <1>3, NatSetInduction
<1>5. AlikeTo(V, text, kept, n)
  BY <1>1, <1>4
<1>6. GroupsTo(text, kept, n) = FlattenSeq(Groups(text, kept))
  <2> DEFINE gs == Groups(text, kept)
             P == Pieces(text, kept)
  <2>1. gs \in Seq(Seq(P)) /\ Len(gs) = n
    BY GroupTypes
  <2> HIDE DEF gs, P, n
  <2>2. SubSeq(gs, 1, n) = gs
    BY <2>1, SubSeqFull
  <2> QED BY <2>2 DEF GroupsTo, gs
<1>7. Echo(text, kept) = Seen(text, kept, ClearPieces(text, kept, 0) \o GroupsTo(text, kept, n))
  BY <1>6, RedactedIs DEF Echo, Seen, Visibles
<1>8. ExpectedTo(text, kept, ClearUpTo(text, kept, n)) = FlattenSeq(Expected(text, kept))
  <2> DEFINE e == Expected(text, kept)
  <2>1. e \in Seq(Seq(V)) /\ Len(e) = Len(text)
    BY ExpectedType
  <2> HIDE DEF e
  <2>2. SubSeq(e, 1, Len(text)) = e
    BY <2>1, SubSeqFull
  <2>3. ClearUpTo(text, kept, n) = Len(text)
    BY DEF ClearUpTo
  <2> QED BY <2>2, <2>3 DEF ExpectedTo, e
<1> QED BY <1>5, <1>7, <1>8 DEF AlikeTo, Alike

\* Whatever the hits, what is kept of them is told apart, meets every one, and a reply that
\* repeats the redacted text gives the text back.
LEMMA ShieldedIsWhole ==
  ASSUME NEW V, NEW text \in Seq(V), NEW hits, HitsOn(hits, Len(text)), \A h \in hits : h.type \in V
  PROVE  ShieldedTextIsWhole(text, hits)
<1> DEFINE kept == Resolved(hits)
<1>1. ResolvedOK(hits, kept)
  BY ResolvedFacts
<1> HIDE DEF kept
<1>2. /\ kept \in Seq(hits) /\ Len(kept) \in Nat /\ DOMAIN kept = 1..Len(kept)
      /\ \A i \in 1..Len(kept) : kept[i] \in hits
  BY <1>1, LenProperties, ElementOfSeq DEF ResolvedOK
<1>3. \A i, j \in 1..Len(kept) : i < j => kept[i].end <= kept[j].start
  BY <1>1 DEF ResolvedOK
<1>4. Kept(V, text, kept)
  BY <1>2, <1>3 DEF Kept, HitsOn
<1>5. Normalized(Echo(text, kept)) = Normalized(FlattenSeq(Expected(text, kept)))
  BY <1>4, EchoIsExpected
<1>6. Expected(text, kept) =
        [p \in DOMAIN text |->
          LET inside == {i \in DOMAIN kept : kept[i].start < p /\ p <= kept[i].end}
          IN  IF inside = {} THEN <<text[p]>>
              ELSE LET h == kept[CHOOSE i \in inside : TRUE]
                   IN  IF h.type \notin HardClasses THEN <<text[p]>>
                       ELSE IF p = h.start + 1 THEN <<h.type>> ELSE <<>>]
  BY DEF Expected, ExpectedAt, ExpectedOf, Inside
<1>7. ToSet(kept) \subseteq hits
  BY <1>2 DEF ToSet
<1>8. \A h \in hits : \E i \in DOMAIN kept : Overlap(h, kept[i])
  BY <1>1, <1>2 DEF ResolvedOK
<1>9. \A i, j \in DOMAIN kept : i < j => kept[i].end <= kept[j].start
  BY <1>2, <1>3
<1> QED BY <1>5, <1>6, <1>7, <1>8, <1>9 DEF ShieldedTextIsWhole, kept

------------------------------------------------------------------------------
(****************************************************************************)
(* The streaming reidentifier: the rest of a reply.                          *)
(****************************************************************************)
\* The rest of a text from a position on: its letters, and the rests of a rest.
LEMMA FromFacts ==
  ASSUME NEW A, NEW t \in Seq(A), NEW i \in 1..(Len(t) + 1)
  PROVE  /\ From(t, i) \in Seq(A)
         /\ Len(From(t, i)) = Len(t) + 1 - i
         /\ \A k \in 1..(Len(t) + 1 - i) : From(t, i)[k] = t[i + k - 1]
<1>1. Len(t) \in Nat /\ \A k \in i..Len(t) : t[k] \in A
  BY LenProperties, ElementOfSeq
<1>2. /\ SubSeq(t, i, Len(t)) \in Seq(A)
      /\ Len(SubSeq(t, i, Len(t))) = IF i <= Len(t) THEN Len(t) - i + 1 ELSE 0
      /\ \A k \in 1..(Len(t) - i + 1) : SubSeq(t, i, Len(t))[k] = t[i + k - 1]
  BY <1>1, SubSeqProperties
<1>3. Len(t) + 1 - i = IF i <= Len(t) THEN Len(t) - i + 1 ELSE 0
  BY <1>1
<1>4. Len(t) - i + 1 = Len(t) + 1 - i
  BY <1>1
<1> QED BY <1>2, <1>3, <1>4 DEF From

LEMMA FromFirst ==
  ASSUME NEW A, NEW t \in Seq(A)
  PROVE  From(t, 1) = t
BY SubSeqFull DEF From

LEMMA FromEnd ==
  ASSUME NEW A, NEW t \in Seq(A)
  PROVE  From(t, Len(t) + 1) = <<>>
<1>1. Len(t) \in Nat
  BY LenProperties
<1>2. Len(t) + 1 \in Int /\ Len(t) \in Int /\ Len(t) < Len(t) + 1
  BY <1>1
<1> QED BY <1>2, SubSeqEmpty DEF From

LEMMA FromFrom ==
  ASSUME NEW A, NEW t \in Seq(A), NEW i \in 1..(Len(t) + 1), NEW k \in 1..(Len(t) + 2 - i)
  PROVE  /\ From(From(t, i), k) = From(t, i + k - 1)
         /\ i + k - 1 \in 1..(Len(t) + 1)
<1>1. Len(t) \in Nat
  BY LenProperties
<1> DEFINE r == From(t, i)
<1>2. r \in Seq(A) /\ Len(r) = Len(t) + 1 - i /\ \A n \in 1..(Len(t) + 1 - i) : r[n] = t[i + n - 1]
  BY FromFacts
<1> HIDE DEF r
<1>3. k \in 1..(Len(r) + 1) /\ i + k - 1 \in 1..(Len(t) + 1)
  BY <1>1, <1>2
<1>4. /\ From(r, k) \in Seq(A) /\ Len(From(r, k)) = Len(r) + 1 - k
      /\ \A n \in 1..(Len(r) + 1 - k) : From(r, k)[n] = r[k + n - 1]
  <2>1. r \in Seq(A) /\ k \in 1..(Len(r) + 1)
    BY <1>2, <1>3
  <2> QED BY ONLY <2>1, FromFacts
<1> DEFINE j == i + k - 1
<1>5. /\ From(t, j) \in Seq(A) /\ Len(From(t, j)) = Len(t) + 1 - j
      /\ \A n \in 1..(Len(t) + 1 - j) : From(t, j)[n] = t[j + n - 1]
  BY <1>3, FromFacts
<1>6. Len(r) + 1 - k = Len(t) + 1 - j
  BY <1>1, <1>2
<1>7. ASSUME NEW n \in 1..(Len(r) + 1 - k)
      PROVE  From(r, k)[n] = From(t, j)[n]
  <2>1. n \in 1..(Len(t) + 1 - j) /\ k + n - 1 \in 1..(Len(t) + 1 - i) /\ i + (k + n - 1) - 1 = j + n - 1
    BY <1>1, <1>2, <1>6
  <2>2. From(r, k)[n] = r[k + n - 1]
    BY <1>4
  <2>3. r[k + n - 1] = t[i + (k + n - 1) - 1]
    BY <1>2, <2>1
  <2>4. From(t, j)[n] = t[j + n - 1]
    BY <1>5, <2>1
  <2> QED BY <2>1, <2>2, <2>3, <2>4
<1> HIDE DEF j
<1>8. From(r, k) = From(t, j)
  BY <1>4, <1>5, <1>6, <1>7, SeqEqual
<1> QED BY <1>3, <1>8 DEF j, r

LEMMA FromConcat ==
  ASSUME NEW A, NEW t \in Seq(A), NEW d \in Seq(A), NEW i \in 1..(Len(t) + 1)
  PROVE  /\ From(t \o d, i) = From(t, i) \o d
         /\ i \in 1..(Len(t \o d) + 1)
<1> DEFINE w == t \o d
           r == From(t, i)
<1>1. Len(t) \in Nat /\ Len(d) \in Nat
  BY LenProperties
<1>2. /\ w \in Seq(A) /\ Len(w) = Len(t) + Len(d)
      /\ \A n \in 1..(Len(t) + Len(d)) : w[n] = IF n <= Len(t) THEN t[n] ELSE d[n - Len(t)]
  BY ConcatProperties
<1>3. /\ r \in Seq(A) /\ Len(r) = Len(t) + 1 - i
      /\ \A n \in 1..(Len(t) + 1 - i) : r[n] = t[i + n - 1]
  BY FromFacts
<1> HIDE DEF w, r
<1>4. /\ r \o d \in Seq(A) /\ Len(r \o d) = Len(r) + Len(d)
      /\ \A n \in 1..(Len(r) + Len(d)) : (r \o d)[n] = IF n <= Len(r) THEN r[n] ELSE d[n - Len(r)]
  BY <1>3, ConcatProperties
<1>5. i \in 1..(Len(w) + 1)
  BY <1>1, <1>2
<1>6. /\ From(w, i) \in Seq(A) /\ Len(From(w, i)) = Len(w) + 1 - i
      /\ \A n \in 1..(Len(w) + 1 - i) : From(w, i)[n] = w[i + n - 1]
  BY <1>2, <1>5, FromFacts, ZenonT(30)
<1>7. Len(w) + 1 - i = Len(r) + Len(d)
  <2>1. Len(w) = Len(t) + Len(d) /\ Len(r) = Len(t) + 1 - i /\ i \in Nat
    BY <1>1, <1>2, <1>3
  <2> QED BY ONLY <1>1, <2>1
<1>8. ASSUME NEW n \in 1..(Len(r) + Len(d))
      PROVE  From(w, i)[n] = (r \o d)[n]
  <2>0. i \in Nat /\ i >= 1 /\ i <= Len(t) + 1 /\ n \in Nat /\ n >= 1 /\ n <= Len(r) + Len(d)
    BY <1>1, <1>3
  <2>1. From(w, i)[n] = w[i + n - 1] /\ i + n - 1 \in 1..(Len(t) + Len(d))
    <3>1. n \in 1..(Len(w) + 1 - i)
      BY <1>7
    <3>2. Len(r) = Len(t) + 1 - i
      BY <1>3
    <3>3. i + n - 1 \in 1..(Len(t) + Len(d))
      BY ONLY <1>1, <2>0, <3>2
    <3> QED BY <1>6, <3>1, <3>3
  <2>2. CASE n <= Len(r)
    <3>1. n \in 1..(Len(t) + 1 - i) /\ i + n - 1 <= Len(t)
      BY <1>1, <1>3, <2>2
    <3> QED BY <1>2, <1>3, <1>4, <2>1, <2>2, <3>1
  <2>3. CASE ~(n <= Len(r))
    <3>1. ~(i + n - 1 <= Len(t)) /\ i + n - 1 - Len(t) = n - Len(r)
      <4>1. Len(r) = Len(t) + 1 - i
        BY <1>3
      <4> QED BY ONLY <1>1, <2>0, <2>3, <4>1, SMTT(30)
    <3> QED BY <1>2, <1>4, <2>1, <2>3, <3>1, SMTT(30)
  <2> QED BY <2>2, <2>3
<1>9. From(w, i) = r \o d
  BY <1>4, <1>6, <1>7, <1>8, SeqEqual
<1> QED BY <1>5, <1>9 DEF w, r

\* The first closing of a text: a token has at least two letters and ends within the text.
IsFirstClose(t, k) == k \in ClosesAt(t) /\ \A l \in ClosesAt(t) : k <= l

LEMMA ClosedFacts ==
  ASSUME NEW A, NEW t \in Seq(A), ClosesAt(t) # {}
  PROVE  \E k \in 1..(Len(t) - 1) :
           /\ IsFirstClose(t, k)
           /\ Closed(t) = SubSeq(t, 1, k + 1)
           /\ Closed(t) \in Seq(A)
           /\ Len(Closed(t)) = k + 1
           /\ \A n \in 1..(k + 1) : Closed(t)[n] = t[n]
<1>1. Len(t) \in Nat /\ ClosesAt(t) \in SUBSET Nat
  BY LenProperties DEF ClosesAt
<1>2. \E k \in ClosesAt(t) : \A l \in ClosesAt(t) : k <= l
  BY <1>1, LeastNatural
<1> DEFINE c == CHOOSE k \in ClosesAt(t) : \A l \in ClosesAt(t) : k <= l
<1>3. c \in ClosesAt(t) /\ \A l \in ClosesAt(t) : c <= l
  BY <1>2
<1>4. Closed(t) = SubSeq(t, 1, c + 1)
  BY DEF Closed
<1> HIDE DEF c
<1>5. c \in 1..(Len(t) - 1)
  BY <1>3 DEF ClosesAt
<1>6. c + 1 \in Int /\ c + 1 \in 1..Len(t) /\ \A n \in 1..(c + 1) : t[n] \in A
  BY <1>1, <1>5, ElementOfSeq
<1>7. /\ SubSeq(t, 1, c + 1) \in Seq(A)
      /\ Len(SubSeq(t, 1, c + 1)) = IF 1 <= c + 1 THEN (c + 1) - 1 + 1 ELSE 0
      /\ \A n \in 1..((c + 1) - 1 + 1) : SubSeq(t, 1, c + 1)[n] = t[1 + n - 1]
  BY <1>6, SubSeqProperties
<1>8. /\ 1 <= c + 1 /\ (c + 1) - 1 + 1 = c + 1 /\ \A n \in 1..(c + 1) : 1 + n - 1 = n
  BY <1>5
<1>9. Len(Closed(t)) = c + 1 /\ \A n \in 1..(c + 1) : Closed(t)[n] = t[n]
  BY <1>4, <1>7, <1>8
<1> QED BY <1>3, <1>4, <1>5, <1>7, <1>9 DEF IsFirstClose

------------------------------------------------------------------------------
Texts == Seq(Letters)
Shows == Seq(Letters \cup {"v"})
Drainings == [out : Shows, rest : Texts, over : {0, 1}]

\* What _drain does at a position depends only on what it does behind it, and never leaves
\* the buffer.
LEMMA DrainAtBehind ==
  ASSUME NEW buf \in Texts, NEW final \in BOOLEAN, NEW f, NEW g, NEW i \in 1..(Len(buf) + 1),
         \A j \in (i + 1)..(Len(buf) + 1) : f[j] = g[j]
  PROVE  DrainAt(buf, final, f, i) = DrainAt(buf, final, g, i)
<1> DEFINE tail == From(buf, i)
<1>1. CASE i > Len(buf)
  BY <1>1 DEF DrainAt
<1>2. CASE ~(i > Len(buf))
  <2>1. Len(buf) \in Nat /\ i + 1 \in (i + 1)..(Len(buf) + 1)
    BY <1>2, LenProperties DEF Texts
  <2>2. f[i + 1] = g[i + 1]
    BY <2>1
  <2>3. ClosesAt(tail) # {} => f[i + Len(Closed(tail))] = g[i + Len(Closed(tail))]
    <3> SUFFICES ASSUME ClosesAt(tail) # {} PROVE f[i + Len(Closed(tail))] = g[i + Len(Closed(tail))]
      OBVIOUS
    <3>1. tail \in Texts /\ Len(tail) = Len(buf) + 1 - i
      BY FromFacts DEF Texts
    <3> HIDE DEF tail
    <3>2. PICK k \in 1..(Len(tail) - 1) : Len(Closed(tail)) = k + 1
      BY <3>1, ClosedFacts DEF Texts
    <3>3. i + Len(Closed(tail)) \in (i + 1)..(Len(buf) + 1)
      BY <2>1, <3>1, <3>2
    <3> QED BY <3>3
  <2> HIDE DEF tail
  <2> QED BY <2>2, <2>3 DEF DrainAt, tail
<1> QED BY <1>1, <1>2

\* _drain is what its definition says, at every position.
LEMMA DrainsUnfold ==
  ASSUME NEW buf \in Texts, NEW final \in BOOLEAN
  PROVE  Drains(buf, final) = [i \in 1..(Len(buf) + 1) |-> DrainAt(buf, final, Drains(buf, final), i)]
<1> DEFINE n == Len(buf) + 1
           Upto(m, g) == g = [i \in 1..n |-> IF i > n - m THEN DrainAt(buf, final, g, i) ELSE 0]
           Good == {m \in Nat : m <= n => \E g : Upto(m, g)}
<1>1. n \in Nat /\ n >= 1 /\ Len(buf) + 1 = n
  BY LenProperties DEF Texts
<1> HIDE DEF n
<1>2. 0 \in Good
  <2>1. \A i \in 1..n : ~(i > n - 0)
    BY <1>1
  <2>2. Upto(0, [i \in 1..n |-> 0])
    BY <2>1
  <2> QED BY <2>2
<1>3. ASSUME NEW m \in Nat, m \in Good PROVE m + 1 \in Good
  <2> SUFFICES ASSUME m + 1 <= n PROVE \E g : Upto(m + 1, g)
    OBVIOUS
  <2>1. m <= n
    BY <1>1
  <2>2. PICK g : Upto(m, g)
    BY <1>3, <2>1
  <2> DEFINE p == n - m
             h == [i \in 1..n |-> IF i = p THEN DrainAt(buf, final, g, p) ELSE g[i]]
  <2>3. p \in 1..n /\ p = n - m
    BY <1>1, <2>1
  <2> HIDE DEF p
  <2>4. \A i \in (p + 1)..n : h[i] = g[i]
    BY <2>3
  <2>5. ASSUME NEW i \in 1..n PROVE h[i] = IF i > n - (m + 1) THEN DrainAt(buf, final, h, i) ELSE 0
    <3>1. CASE i >= p
      <4>1. \A j \in (i + 1)..n : h[j] = g[j]
        BY <2>3, <2>4, <3>1
      <4>2. \A j \in (i + 1)..n : g[j] = h[j]
        BY <4>1
      <4> HIDE DEF h
      <4>3. DrainAt(buf, final, g, i) = DrainAt(buf, final, h, i)
        BY <1>1, <4>2, DrainAtBehind
      <4>4. i > n - (m + 1) /\ (i # p => i > n - m)
        BY <1>1, <2>3, <3>1
      <4>5. h[i] = DrainAt(buf, final, g, i)
        <5>1. g[i] = IF i > n - m THEN DrainAt(buf, final, g, i) ELSE 0
          BY <2>2, Zenon
        <5> QED BY <4>4, <5>1 DEF h
      <4> QED BY <4>3, <4>4, <4>5
    <3>2. CASE ~(i >= p)
      <4>1. ~(i > n - (m + 1)) /\ i # p /\ ~(i > n - m)
        BY <1>1, <2>3, <3>2
      <4>2. g[i] = 0
        <5>1. g[i] = IF i > n - m THEN DrainAt(buf, final, g, i) ELSE 0
          BY <2>2, Zenon
        <5> QED BY <4>1, <5>1
      <4> QED BY <4>1, <4>2
    <3> QED BY <3>1, <3>2
  <2>6. h = [i \in 1..n |-> h[i]]
    OBVIOUS
  <2> HIDE DEF h
  <2>7. h = [i \in 1..n |-> IF i > n - (m + 1) THEN DrainAt(buf, final, h, i) ELSE 0]
    BY <2>5, <2>6
  <2> QED BY <2>7
<1>4. n \in Good
  <2> HIDE DEF Good
  <2> QED BY <1>1, <1>2, <1>3, NatSetInduction
<1>5. PICK g : Upto(n, g)
  BY <1>1, <1>4
<1>6. \A i \in 1..n : i > n - n
  BY <1>1
<1>7. g = [i \in 1..n |-> DrainAt(buf, final, g, i)]
  BY <1>5, <1>6
<1>8. Drains(buf, final) = CHOOSE drain : drain = [i \in 1..n |-> DrainAt(buf, final, drain, i)]
  BY <1>1 DEF Drains
<1> QED BY <1>1, <1>7, <1>8

LEMMA AfterFacts ==
  ASSUME NEW out \in Shows, NEW d \in Drainings
  PROVE  /\ After(out, d) \in Drainings
         /\ After(out, d) = [out |-> out \o d.out, rest |-> d.rest, over |-> d.over]
<1>1. After(out, d) = [d EXCEPT !.out = out \o d.out]
  BY DEF After
<1>2. d.out \in Shows /\ d.rest \in Texts /\ d.over \in {0, 1}
  BY DEF Drainings
<1>3. out \o d.out \in Shows
  BY <1>2, ConcatProperties DEF Shows
<1> QED BY <1>1, <1>2, <1>3 DEF Drainings

LEMMA TextsAreShown ==
  ASSUME NEW t \in Texts
  PROVE  t \in Shows
<1>1. Letters \subseteq Letters \cup {"v"}
  OBVIOUS
<1> QED BY <1>1, SeqMonotonic DEF Texts, Shows

LEMMA ReleaseAndHold ==
  ASSUME NEW t \in Texts
  PROVE  /\ Release(t) \in Drainings
         /\ Hold(t) \in Drainings
         /\ \A final \in BOOLEAN : Undecided(t, final) \in Drainings /\ Unclosed(t, final) \in Drainings
<1>1. t \in Shows /\ <<>> \in Texts /\ <<>> \in Shows
  BY TextsAreShown, EmptySeq DEF Texts, Shows
<1>2. Release(t) \in Drainings /\ Hold(t) \in Drainings /\ [Release(t) EXCEPT !.over = 1] \in Drainings
  BY <1>1 DEF Release, Hold, Drainings
<1> QED BY <1>2 DEF Undecided, Unclosed

LEMMA SingleLetters ==
  /\ \A c \in Letters : <<c>> \in Texts /\ <<c>> \in Shows
  /\ <<"v">> \in Shows /\ <<"[">> \in Shows
<1>1. \A S : \A c \in S : <<c>> \in Seq(S)
  OBVIOUS
<1> QED BY <1>1 DEF Texts, Shows, Letters

LEMMA ClosedIsShown ==
  ASSUME NEW t \in Texts, ClosesAt(t) # {}
  PROVE  /\ Closed(t) \in Texts
         /\ Shown(Closed(t)) \in Shows
         /\ Len(Closed(t)) \in 2..Len(t)
<1>1. PICK k \in 1..(Len(t) - 1) : Closed(t) \in Texts /\ Len(Closed(t)) = k + 1
  BY ClosedFacts DEF Texts
<1>2. Len(t) \in Nat
  BY LenProperties DEF Texts
<1>3. Len(Closed(t)) \in 2..Len(t)
  BY <1>1, <1>2
<1> QED BY <1>1, <1>3, TextsAreShown, SingleLetters DEF Shown

LEMMA DrainAtType ==
  ASSUME NEW buf \in Texts, NEW final \in BOOLEAN, NEW f, NEW i \in 1..(Len(buf) + 1),
         \A j \in (i + 1)..(Len(buf) + 1) : f[j] \in Drainings
  PROVE  DrainAt(buf, final, f, i) \in Drainings
<1> DEFINE tail == From(buf, i)
<1>0. Len(buf) \in Nat
  BY LenProperties DEF Texts
<1>1. CASE i > Len(buf)
  <2>1. Release(<<>>) \in Drainings
    BY ReleaseAndHold, EmptySeq DEF Texts
  <2> QED BY <1>1, <2>1 DEF DrainAt
<1>2. CASE ~(i > Len(buf))
  <2>1. i + 1 \in (i + 1)..(Len(buf) + 1) /\ i \in 1..Len(buf)
    BY <1>0, <1>2
  <2>2. tail \in Texts /\ Len(tail) = Len(buf) + 1 - i /\ buf[i] \in Letters
    BY <2>1, FromFacts, ElementOfSeq DEF Texts
  <2> HIDE DEF tail
  <2>3. After(<<buf[i]>>, f[i + 1]) \in Drainings /\ After(<<"[">>, f[i + 1]) \in Drainings
    BY <2>1, <2>2, SingleLetters, AfterFacts
  <2>4. ClosesAt(tail) # {} => After(Shown(Closed(tail)), f[i + Len(Closed(tail))]) \in Drainings
    <3> SUFFICES ASSUME ClosesAt(tail) # {} PROVE After(Shown(Closed(tail)), f[i + Len(Closed(tail))]) \in Drainings
      OBVIOUS
    <3>1. Shown(Closed(tail)) \in Shows /\ Len(Closed(tail)) \in 2..Len(tail)
      BY <2>2, ClosedIsShown
    <3>2. i + Len(Closed(tail)) \in (i + 1)..(Len(buf) + 1)
      BY <1>0, <2>2, <3>1
    <3> QED BY <3>1, <3>2, AfterFacts
  <2>5. Undecided(tail, final) \in Drainings /\ Unclosed(tail, final) \in Drainings
    BY <2>2, ReleaseAndHold
  <2> QED BY <1>2, <2>3, <2>4, <2>5 DEF DrainAt, tail
<1> QED BY <1>1, <1>2

LEMMA DrainsType ==
  ASSUME NEW buf \in Texts, NEW final \in BOOLEAN
  PROVE  \A i \in 1..(Len(buf) + 1) : Drains(buf, final)[i] \in Drainings
<1> DEFINE n == Len(buf) + 1
           d == Drains(buf, final)
           Good == {m \in Nat : \A i \in 1..n : i > n - m => d[i] \in Drainings}
<1>1. n \in Nat /\ Len(buf) + 1 = n
  BY LenProperties DEF Texts
<1>2. \A i \in 1..n : d[i] = DrainAt(buf, final, d, i)
  <2> HIDE DEF d
  <2>1. d = [i \in 1..n |-> DrainAt(buf, final, d, i)]
    BY DrainsUnfold DEF d
  <2> QED BY <2>1
<1> HIDE DEF n, d
<1>3. 0 \in Good
  BY <1>1
<1>4. ASSUME NEW m \in Nat, m \in Good PROVE m + 1 \in Good
  <2> SUFFICES ASSUME NEW i \in 1..n, i > n - (m + 1) PROVE d[i] \in Drainings
    OBVIOUS
  <2>1. \A j \in (i + 1)..n : d[j] \in Drainings
    BY <1>1, <1>4
  <2>2. DrainAt(buf, final, d, i) \in Drainings
    BY <1>1, <2>1, DrainAtType
  <2> QED BY <1>2, <2>2
<1>5. n \in Good
  <2> HIDE DEF Good
  <2> QED BY <1>1, <1>3, <1>4, NatSetInduction
<1> QED BY <1>1, <1>5 DEF n, d

LEMMA DrainType ==
  ASSUME NEW buf \in Texts, NEW final \in BOOLEAN
  PROVE  Drain(buf, final) \in Drainings
<1>1. 1 \in 1..(Len(buf) + 1)
  BY LenProperties DEF Texts
<1> QED BY <1>1, DrainsType DEF Drain

\* _drain within a text is _drain of the rest of it.
LEMMA DrainAtWithin ==
  ASSUME NEW t \in Texts, NEW final \in BOOLEAN, NEW i \in 1..(Len(t) + 1), NEW f, NEW g,
         NEW k \in 1..(Len(From(t, i)) + 1),
         \A j \in (k + 1)..(Len(From(t, i)) + 1) : f[j] = g[i + j - 1]
  PROVE  DrainAt(From(t, i), final, f, k) = DrainAt(t, final, g, i + k - 1)
<1> DEFINE r == From(t, i)
           p == i + k - 1
<1>1. Len(t) \in Nat
  BY LenProperties DEF Texts
<1>2. r \in Texts /\ Len(r) = Len(t) + 1 - i /\ \A j \in 1..(Len(t) + 1 - i) : r[j] = t[i + j - 1]
  BY FromFacts DEF Texts
<1>3. From(r, k) = From(t, p) /\ p \in 1..(Len(t) + 1)
  <2>1. k \in 1..(Len(t) + 2 - i)
    BY <1>1, <1>2
  <2> QED BY <2>1, FromFrom DEF Texts
<1>4. From(r, k) \in Texts /\ Len(From(r, k)) = Len(r) + 1 - k
  <2>1. r \in Texts /\ k \in 1..(Len(r) + 1)
    BY <1>2
  <2> QED BY ONLY <2>1, FromFacts DEF Texts
<1>5. CASE k > Len(r)
  <2>1. p > Len(t)
    BY <1>1, <1>2, <1>5
  <2> QED BY <1>5, <2>1 DEF DrainAt
<1>6. CASE ~(k > Len(r))
  <2>1. ~(p > Len(t)) /\ r[k] = t[p]
    BY <1>1, <1>2, <1>6
  <2>2. f[k + 1] = g[p + 1]
    <3>1. k + 1 \in (k + 1)..(Len(r) + 1) /\ i + (k + 1) - 1 = p + 1
      BY <1>1, <1>2, <1>6
    <3>2. f[k + 1] = g[i + (k + 1) - 1]
      BY <3>1
    <3> QED BY <3>1, <3>2
  <2>3. ClosesAt(From(r, k)) # {} => f[k + Len(Closed(From(r, k)))] = g[p + Len(Closed(From(r, k)))]
    <3> SUFFICES ASSUME ClosesAt(From(r, k)) # {}
                 PROVE  f[k + Len(Closed(From(r, k)))] = g[p + Len(Closed(From(r, k)))]
      OBVIOUS
    <3> DEFINE c == Len(Closed(From(r, k)))
    <3>1. c \in 2..Len(From(r, k))
      BY <1>4, ClosedIsShown
    <3> HIDE DEF c
    <3>2. k + c \in (k + 1)..(Len(r) + 1) /\ i + (k + c) - 1 = p + c
      BY <1>1, <1>2, <1>4, <1>6, <3>1
    <3>3. f[k + c] = g[i + (k + c) - 1]
      BY <3>2
    <3> QED BY <3>2, <3>3 DEF c
  <2> HIDE DEF r, p
  <2>4. DrainAt(r, final, f, k) = DrainAt(t, final, g, p)
    BY <1>3, <1>6, <2>1, <2>2, <2>3 DEF DrainAt
  <2> QED BY <2>4 DEF r, p
<1> QED BY <1>5, <1>6

LEMMA DrainsWithin ==
  ASSUME NEW t \in Texts, NEW final \in BOOLEAN, NEW i \in 1..(Len(t) + 1)
  PROVE  Drains(t, final)[i] = Drain(From(t, i), final)
<1> DEFINE r == From(t, i)
           n == Len(r) + 1
           f == Drains(r, final)
           g == Drains(t, final)
           Good == {m \in Nat : \A k \in 1..n : k > n - m => f[k] = g[i + k - 1]}
<1>1. r \in Texts /\ Len(r) = Len(t) + 1 - i /\ Len(t) \in Nat
  BY FromFacts, LenProperties DEF Texts
<1>2. \A k \in 1..n : f[k] = DrainAt(r, final, f, k)
  <2> HIDE DEF f, r
  <2>1. f = [k \in 1..n |-> DrainAt(r, final, f, k)]
    BY <1>1, DrainsUnfold DEF f
  <2> QED BY <2>1
<1>3. \A k \in 1..(Len(t) + 1) : g[k] = DrainAt(t, final, g, k)
  <2> HIDE DEF g
  <2>1. g = [k \in 1..(Len(t) + 1) |-> DrainAt(t, final, g, k)]
    BY DrainsUnfold DEF g
  <2> QED BY <2>1
<1>4. n = Len(t) + 2 - i /\ n \in Nat /\ n >= 1
  BY <1>1
<1> HIDE DEF f, g
<1>5. 0 \in Good
  BY <1>4
<1>6. ASSUME NEW m \in Nat, m \in Good PROVE m + 1 \in Good
  <2> SUFFICES ASSUME NEW k \in 1..n, k > n - (m + 1) PROVE f[k] = g[i + k - 1]
    OBVIOUS
  <2>1. \A j \in (k + 1)..n : f[j] = g[i + j - 1]
    BY <1>4, <1>6
  <2>2. DrainAt(r, final, f, k) = DrainAt(t, final, g, i + k - 1)
    <3>1. k \in 1..(Len(From(t, i)) + 1)
      OBVIOUS
    <3>2. \A j \in (k + 1)..(Len(From(t, i)) + 1) : f[j] = g[i + j - 1]
      BY <2>1
    <3> QED BY ONLY <3>1, <3>2, DrainAtWithin, t \in Texts, final \in BOOLEAN, i \in 1..(Len(t) + 1)
  <2>3. i + k - 1 \in 1..(Len(t) + 1)
    BY <1>1, <1>4
  <2> QED BY <1>2, <1>3, <2>2, <2>3
<1>7. n \in Good
  <2> HIDE DEF Good, n
  <2> QED BY <1>4, <1>5, <1>6, NatSetInduction
<1>8. 1 \in 1..n /\ 1 > n - n /\ i + 1 - 1 = i
  BY <1>4
<1>9. f[1] = g[i]
  <2>1. f[1] = g[i + 1 - 1]
    BY <1>7, <1>8
  <2> QED BY <1>8, <2>1
<1> QED BY <1>9 DEF f, g, r, Drain

LEMMA DrainUnfold ==
  ASSUME NEW t \in Texts, NEW final \in BOOLEAN
  PROVE  Drain(t, final) =
           IF t = <<>> THEN Release(<<>>)
           ELSE IF t[1] # "[" THEN After(<<t[1]>>, Drain(From(t, 2), final))
           ELSE IF Len(t) < Len(Opening) THEN Undecided(t, final)
           ELSE IF ~IsPrefix(Opening, t) THEN After(<<"[">>, Drain(From(t, 2), final))
           ELSE IF ClosesAt(t) = {} THEN Unclosed(t, final)
           ELSE After(Shown(Closed(t)), Drain(From(t, Len(Closed(t)) + 1), final))
<1> DEFINE d == Drains(t, final)
<1>1. Len(t) \in Nat /\ (t = <<>> <=> 1 > Len(t)) /\ From(t, 1) = t
  BY EmptySeq, LenProperties, FromFirst DEF Texts
<1>2. d[1] = DrainAt(t, final, d, 1)
  <2> HIDE DEF d
  <2>1. d = [k \in 1..(Len(t) + 1) |-> DrainAt(t, final, d, k)]
    BY DrainsUnfold DEF d
  <2>2. 1 \in 1..(Len(t) + 1)
    BY <1>1
  <2> QED BY <2>1, <2>2
<1>3. t # <<>> => d[1 + 1] = Drain(From(t, 2), final)
  <2> SUFFICES ASSUME t # <<>> PROVE d[1 + 1] = Drain(From(t, 2), final)
    OBVIOUS
  <2>1. 2 \in 1..(Len(t) + 1) /\ 1 + 1 = 2
    BY <1>1
  <2> QED BY <2>1, DrainsWithin
<1>4. ClosesAt(t) # {} => d[1 + Len(Closed(t))] = Drain(From(t, Len(Closed(t)) + 1), final)
  <2> SUFFICES ASSUME ClosesAt(t) # {} PROVE d[1 + Len(Closed(t))] = Drain(From(t, Len(Closed(t)) + 1), final)
    OBVIOUS
  <2>1. Len(Closed(t)) \in 2..Len(t)
    BY ClosedIsShown
  <2>2. Len(Closed(t)) + 1 \in 1..(Len(t) + 1) /\ 1 + Len(Closed(t)) = Len(Closed(t)) + 1
    BY <1>1, <2>1
  <2> QED BY <2>2, DrainsWithin
<1> HIDE DEF d
<1>5. d[1] = Drain(t, final)
  BY DEF d, Drain
<1> QED BY <1>1, <1>2, <1>3, <1>4, <1>5 DEF DrainAt

------------------------------------------------------------------------------
\* A prefix, letter by letter.
LEMMA PrefixLetters ==
  ASSUME NEW A, NEW s \in Seq(A), NEW t \in Seq(A)
  PROVE  IsPrefix(s, t) <=> Len(s) <= Len(t) /\ \A j \in 1..Len(s) : s[j] = t[j]
<1>1. Len(s) \in Nat /\ Len(t) \in Nat
  BY LenProperties
<1>2. SubSeq(s, 1, Len(s)) = s
  BY SubSeqFull
<1>3. CASE Len(s) <= Len(t)
  <2> DEFINE u == SubSeq(t, 1, Len(s))
  <2>1. u \in Seq(A) /\ Len(u) = Len(s) /\ \A j \in 1..Len(s) : u[j] = t[j]
    <3>1. Len(s) \in 0..Len(t)
      BY <1>1, <1>3
    <3> QED BY <3>1, TakeFacts
  <2> HIDE DEF u
  <2>2. s = u <=> \A j \in 1..Len(s) : s[j] = u[j]
    BY <2>1, SeqEqual
  <2>3. IsPrefix(s, t) <=> s = u
    BY <1>2, <1>3 DEF IsPrefix, u
  <2> QED BY <1>3, <2>1, <2>2, <2>3
<1>4. CASE ~(Len(s) <= Len(t))
  BY <1>4 DEF IsPrefix
<1> QED BY <1>3, <1>4

LEMMA TextPrefix ==
  \A s, t \in Texts : IsPrefix(s, t) <=> Len(s) <= Len(t) /\ \A j \in 1..Len(s) : s[j] = t[j]
BY PrefixLetters DEF Texts

LEMMA KnownLetters ==
  /\ Opening \in Texts /\ Len(Opening) = 3
  /\ Opening[1] = "[" /\ Opening[2] = "[" /\ Opening[3] = "E"
  /\ KnownToken \in Texts /\ Len(KnownToken) = 6
  /\ KnownToken[1] = "[" /\ KnownToken[2] = "[" /\ KnownToken[3] = "E"
  /\ KnownToken[4] = "T" /\ KnownToken[5] = "]" /\ KnownToken[6] = "]"
<1>1. Opening \in Seq(Letters) /\ KnownToken \in Seq(Letters)
  BY DEF Opening, KnownToken, Letters
<1> QED BY <1>1 DEF Opening, KnownToken, Texts

\* A longer text opens and closes where the shorter one does.
LEMMA OpeningStays ==
  ASSUME NEW t \in Texts, NEW d \in Texts, Len(t) >= Len(Opening)
  PROVE  IsPrefix(Opening, t \o d) <=> IsPrefix(Opening, t)
<1> DEFINE w == t \o d
<1>1. Len(t) \in Nat /\ Len(d) \in Nat
  BY LenProperties DEF Texts
<1>2. /\ w \in Texts /\ Len(w) = Len(t) + Len(d)
      /\ \A n \in 1..(Len(t) + Len(d)) : w[n] = IF n <= Len(t) THEN t[n] ELSE d[n - Len(t)]
  BY ConcatProperties DEF Texts
<1> HIDE DEF w
<1>3. Len(Opening) = 3 /\ Opening \in Texts
  BY KnownLetters
<1>4. Len(Opening) <= Len(w) /\ \A j \in 1..Len(Opening) : w[j] = t[j]
  BY <1>1, <1>2, <1>3
<1>5. IsPrefix(Opening, w) <=> Len(Opening) <= Len(w) /\ \A j \in 1..Len(Opening) : Opening[j] = w[j]
  <2>1. w \in Seq(Letters) /\ Opening \in Seq(Letters)
    BY <1>2, <1>3 DEF Texts
  <2> QED BY ONLY <2>1, PrefixLetters
<1>6. IsPrefix(Opening, t) <=> Len(Opening) <= Len(t) /\ \A j \in 1..Len(Opening) : Opening[j] = t[j]
  <2>1. t \in Seq(Letters) /\ Opening \in Seq(Letters)
    BY <1>3 DEF Texts
  <2> QED BY ONLY <2>1, PrefixLetters
<1>7. Len(Opening) <= Len(t)
  BY <1>1, <1>3
<1> QED BY <1>4, <1>5, <1>6, <1>7 DEF w

LEMMA ClosedStays ==
  ASSUME NEW t \in Texts, NEW d \in Texts, ClosesAt(t) # {}
  PROVE  ClosesAt(t \o d) # {} /\ Closed(t \o d) = Closed(t)
<1> DEFINE w == t \o d
<1>1. Len(t) \in Nat /\ Len(d) \in Nat
  BY LenProperties DEF Texts
<1>2. /\ w \in Texts /\ Len(w) = Len(t) + Len(d)
      /\ \A n \in 1..(Len(t) + Len(d)) : w[n] = IF n <= Len(t) THEN t[n] ELSE d[n - Len(t)]
  BY ConcatProperties DEF Texts
<1> HIDE DEF w
<1>3. PICK k \in 1..(Len(t) - 1) :
        /\ IsFirstClose(t, k) /\ Closed(t) \in Texts /\ Len(Closed(t)) = k + 1
        /\ \A n \in 1..(k + 1) : Closed(t)[n] = t[n]
  BY ClosedFacts DEF Texts
<1>4. \A n \in 1..Len(t) : w[n] = t[n]
  BY <1>1, <1>2
<1>5. \A l \in 1..(Len(t) - 1) : l \in ClosesAt(w) <=> l \in ClosesAt(t)
  BY <1>1, <1>2, <1>4 DEF ClosesAt
<1>6. k \in ClosesAt(w)
  BY <1>3, <1>5 DEF IsFirstClose
<1>7. PICK l \in 1..(Len(w) - 1) :
        /\ IsFirstClose(w, l) /\ Closed(w) \in Texts /\ Len(Closed(w)) = l + 1
        /\ \A n \in 1..(l + 1) : Closed(w)[n] = w[n]
  BY <1>2, <1>6, ClosedFacts DEF Texts
<1>8. l <= k
  BY <1>6, <1>7 DEF IsFirstClose
<1>9. l \in ClosesAt(t)
  BY <1>1, <1>3, <1>5, <1>7, <1>8 DEF IsFirstClose
<1>10. l = k
  BY <1>3, <1>7, <1>8, <1>9 DEF IsFirstClose
<1>11. \A n \in 1..(k + 1) : Closed(w)[n] = Closed(t)[n]
  BY <1>1, <1>3, <1>4, <1>7, <1>10
<1>12. Closed(w) = Closed(t)
  BY <1>3, <1>7, <1>10, <1>11, SeqEqual DEF Texts
<1> QED BY <1>6, <1>12 DEF w

\* What a feed shows, and what the held rest gives with the letters to come, is what one
\* feed of all of them gives.
Continues(t, d) ==
  Drain(t, FALSE).over = 0 =>
    Drain(t \o d, TRUE).out = Drain(t, FALSE).out \o Drain(Drain(t, FALSE).rest \o d, TRUE).out

LEMMA DrainingFields ==
  \A p, a, b, c : p = [out |-> a, rest |-> b, over |-> c] => p.out = a /\ p.rest = b /\ p.over = c
OBVIOUS

LEMMA ShowsAssociative ==
  \A a, b, c \in Shows : a \o (b \o c) = (a \o b) \o c
<1> TAKE a, b, c \in Shows
<1> DEFINE S == Letters \cup {"v"}
<1>1. a \in Seq(S) /\ b \in Seq(S) /\ c \in Seq(S)
  BY DEF Shows
<1> HIDE DEF S
<1> QED BY ONLY <1>1, ConcatAssociative, SMTT(30)

LEMMA TextsAssociative ==
  \A a, b, c \in Texts : a \o (b \o c) = (a \o b) \o c
<1> TAKE a, b, c \in Texts
<1> DEFINE S == Letters
<1>1. a \in Seq(S) /\ b \in Seq(S) /\ c \in Seq(S)
  BY DEF Texts
<1> HIDE DEF S
<1> QED BY ONLY <1>1, ConcatAssociative, SMTT(30)

LEMMA HeldContinues ==
  ASSUME NEW t \in Texts, NEW d \in Texts, Drain(t, FALSE) = Hold(t)
  PROVE  Continues(t, d)
<1>1. t \o d \in Texts
  BY ConcatProperties DEF Texts
<1>2. Drain(t \o d, TRUE).out \in Shows
  BY <1>1, DrainType DEF Drainings
<1>3. <<>> \o Drain(t \o d, TRUE).out = Drain(t \o d, TRUE).out
  BY <1>2, ConcatEmptySeq DEF Shows
<1>4. Drain(t, FALSE).out = <<>> /\ Drain(t, FALSE).rest = t
  <2>1. Drain(t, FALSE) = [out |-> <<>>, rest |-> t, over |-> 0]
    BY Zenon DEF Hold
  <2> QED BY <2>1, DrainingFields, Zenon
<1> QED BY <1>3, <1>4 DEF Continues

LEMMA StepContinues ==
  ASSUME NEW t \in Texts, NEW d \in Texts, NEW out \in Shows, NEW i \in 2..(Len(t) + 1),
         Drain(t, FALSE) = After(out, Drain(From(t, i), FALSE)),
         Drain(t \o d, TRUE) = After(out, Drain(From(t \o d, i), TRUE)),
         Continues(From(t, i), d)
  PROVE  Continues(t, d)
<1> DEFINE r == From(t, i)
           part == Drain(r, FALSE)
           whole == Drain(r \o d, TRUE)
           later == Drain(part.rest \o d, TRUE)
<1>1. i \in 1..(Len(t) + 1) /\ From(t \o d, i) = r \o d
  BY FromConcat DEF Texts
<1>2. r \in Texts
  BY <1>1, FromFacts DEF Texts
<1> HIDE DEF r
<1>3. part \in Drainings /\ whole \in Drainings
  <2>1. r \o d \in Texts
    BY <1>2, ConcatProperties DEF Texts
  <2> QED BY <1>2, <2>1, DrainType
<1> HIDE DEF part, whole
<1>4. part.rest \in Texts /\ part.out \in Shows /\ whole.out \in Shows
  BY <1>3 DEF Drainings
<1>5. later \in Drainings
  <2>1. part.rest \o d \in Texts
    BY <1>4, ConcatProperties DEF Texts
  <2> QED BY <2>1, DrainType
<1> HIDE DEF later
<1>6. later.out \in Shows
  BY <1>5 DEF Drainings
<1>7. Drain(t, FALSE) = [out |-> out \o part.out, rest |-> part.rest, over |-> part.over]
  <2>1. Drain(t, FALSE) = After(out, part)
    BY DEF part, r
  <2> QED BY <1>3, <2>1, AfterFacts
<1>8. Drain(t \o d, TRUE).out = out \o whole.out
  <2>1. Drain(t \o d, TRUE) = After(out, whole)
    BY <1>1 DEF whole
  <2>2. After(out, whole) = [out |-> out \o whole.out, rest |-> whole.rest, over |-> whole.over]
    BY <1>3, AfterFacts
  <2>3. After(out, whole).out = out \o whole.out
    BY ONLY <2>2
  <2> QED BY ONLY <2>1, <2>3
<1>9. part.over = 0 => whole.out = part.out \o later.out
  BY DEF Continues, part, whole, later, r
<1>10. out \o (part.out \o later.out) = (out \o part.out) \o later.out
  BY <1>4, <1>6, ShowsAssociative, Zenon
<1>11. /\ Drain(t, FALSE).out = out \o part.out
       /\ Drain(t, FALSE).rest = part.rest
       /\ Drain(t, FALSE).over = part.over
  <2> DEFINE a == out \o part.out
             b == part.rest
             c == part.over
  <2>1. Drain(t, FALSE) = [out |-> a, rest |-> b, over |-> c]
    BY <1>7, Zenon
  <2> HIDE DEF a, b, c
  <2>2. Drain(t, FALSE).out = a /\ Drain(t, FALSE).rest = b /\ Drain(t, FALSE).over = c
    BY <2>1, DrainingFields, Zenon
  <2> QED BY <2>2 DEF a, b, c
<1> QED BY ONLY <1>8, <1>9, <1>10, <1>11 DEF Continues, later

LEMMA DrainContinues ==
  ASSUME NEW d \in Texts
  PROVE  \A t \in Texts : Continues(t, d)
<1> DEFINE Good == {m \in Nat : \A t \in Texts : Len(t) <= m => Continues(t, d)}
<1>1. ASSUME NEW t \in Texts, \A s \in Texts : Len(s) < Len(t) => Continues(s, d)
      PROVE  Continues(t, d)
  <2> DEFINE w == t \o d
  <2>1. Len(t) \in Nat /\ Len(d) \in Nat /\ (t = <<>> <=> Len(t) = 0)
    BY EmptySeq, LenProperties DEF Texts
  <2>2. /\ w \in Texts /\ Len(w) = Len(t) + Len(d)
        /\ \A n \in 1..(Len(t) + Len(d)) : w[n] = IF n <= Len(t) THEN t[n] ELSE d[n - Len(t)]
    BY ConcatProperties DEF Texts
  <2> HIDE DEF w
  <2>3. \A i \in 2..(Len(t) + 1) : Continues(From(t, i), d)
    <3> TAKE i \in 2..(Len(t) + 1)
    <3>1. i \in 1..(Len(t) + 1)
      BY <2>1
    <3>2. From(t, i) \in Texts /\ Len(From(t, i)) = Len(t) + 1 - i
      BY <3>1, FromFacts DEF Texts
    <3>3. Len(From(t, i)) < Len(t)
      BY <2>1, <3>2
    <3> QED BY <1>1, <3>2, <3>3
  <2>4. CASE t = <<>>
    <3>1. Drain(t, FALSE) = Hold(t)
      BY <2>4, DrainUnfold DEF Release, Hold
    <3> QED BY <3>1, HeldContinues
  <2>5. CASE t # <<>>
    <3>1. 1 \in 1..Len(t) /\ 2 \in 2..(Len(t) + 1) /\ w # <<>> /\ w[1] = t[1] /\ t[1] \in Letters
      BY <2>1, <2>2, <2>5, EmptySeq, ElementOfSeq DEF Texts
    <3>2. CASE t[1] # "["
      <4>1. <<t[1]>> \in Shows
        BY <3>1, SingleLetters
      <4>2. Drain(t, FALSE) = After(<<t[1]>>, Drain(From(t, 2), FALSE))
        BY <2>5, <3>2, DrainUnfold
      <4>3. Drain(w, TRUE) = After(<<t[1]>>, Drain(From(w, 2), TRUE))
        BY <2>2, <3>1, <3>2, DrainUnfold
      <4> QED BY <2>3, <3>1, <4>1, <4>2, <4>3, StepContinues DEF w
    <3>3. CASE t[1] = "[" /\ Len(t) < Len(Opening)
      <4>1. Drain(t, FALSE) = Hold(t)
        BY <2>5, <3>3, DrainUnfold DEF Undecided
      <4> QED BY <4>1, HeldContinues
    <3>4. CASE t[1] = "[" /\ ~(Len(t) < Len(Opening)) /\ ~IsPrefix(Opening, t)
      <4>1. ~(Len(w) < Len(Opening)) /\ Len(t) >= Len(Opening)
        BY <2>1, <2>2, <3>4, KnownLetters
      <4>2. ~IsPrefix(Opening, w)
        BY <3>4, <4>1, OpeningStays DEF w
      <4>3. Drain(t, FALSE) = After(<<"[">>, Drain(From(t, 2), FALSE))
        BY <2>5, <3>4, DrainUnfold
      <4>4. Drain(w, TRUE) = After(<<"[">>, Drain(From(w, 2), TRUE))
        BY <2>2, <3>1, <3>4, <4>1, <4>2, DrainUnfold
      <4>5. <<"[">> \in Shows
        BY SingleLetters
      <4> QED BY <2>3, <3>1, <4>3, <4>4, <4>5, StepContinues DEF w
    <3>5. CASE t[1] = "[" /\ ~(Len(t) < Len(Opening)) /\ IsPrefix(Opening, t) /\ ClosesAt(t) = {}
      <4>1. Drain(t, FALSE) = Unclosed(t, FALSE)
        BY <2>5, <3>5, DrainUnfold
      <4>2. CASE Len(t) >= MaxPending
        <5>1. Unclosed(t, FALSE) = [out |-> t, rest |-> <<>>, over |-> 1]
          BY <4>2 DEF Unclosed, Release
        <5>2. Drain(t, FALSE).over = 1
          <6>1. Drain(t, FALSE) = [out |-> t, rest |-> <<>>, over |-> 1]
            BY <4>1, <5>1
          <6> QED BY ONLY <6>1, DrainingFields, Zenon
        <5>3. 1 # 0
          OBVIOUS
        <5> QED BY <5>2, <5>3, Zenon DEF Continues
      <4>3. CASE ~(Len(t) >= MaxPending)
        <5>1. Drain(t, FALSE) = Hold(t)
          BY <4>1, <4>3 DEF Unclosed
        <5> QED BY <5>1, HeldContinues
      <4> QED BY <4>2, <4>3
    <3>6. CASE t[1] = "[" /\ ~(Len(t) < Len(Opening)) /\ IsPrefix(Opening, t) /\ ClosesAt(t) # {}
      <4>1. ~(Len(w) < Len(Opening)) /\ Len(t) >= Len(Opening)
        BY <2>1, <2>2, <3>6, KnownLetters
      <4>2. IsPrefix(Opening, w)
        BY <3>6, <4>1, OpeningStays DEF w
      <4>3. ClosesAt(w) # {} /\ Closed(w) = Closed(t)
        BY <3>6, ClosedStays DEF w
      <4>4. Shown(Closed(t)) \in Shows /\ Len(Closed(t)) \in 2..Len(t)
        BY <3>6, ClosedIsShown
      <4> DEFINE i == Len(Closed(t)) + 1
      <4>5. i \in 2..(Len(t) + 1)
        BY <2>1, <4>4
      <4>6. Drain(t, FALSE) = After(Shown(Closed(t)), Drain(From(t, i), FALSE))
        BY <2>5, <3>6, DrainUnfold
      <4>7. Drain(w, TRUE) = After(Shown(Closed(t)), Drain(From(w, i), TRUE))
        BY <2>2, <3>1, <3>6, <4>1, <4>2, <4>3, DrainUnfold
      <4> HIDE DEF i
      <4> QED BY <2>3, <4>4, <4>5, <4>6, <4>7, StepContinues DEF w
    <3> QED BY <3>2, <3>3, <3>4, <3>5, <3>6
  <2> QED BY <2>4, <2>5
<1>2. \A t \in Texts : Len(t) \in Nat
  BY LenProperties DEF Texts
<1>3. 0 \in Good
  BY <1>1, <1>2
<1>4. ASSUME NEW m \in Nat, m \in Good PROVE m + 1 \in Good
  <2> SUFFICES ASSUME NEW t \in Texts, Len(t) <= m + 1 PROVE Continues(t, d)
    OBVIOUS
  <2>1. \A s \in Texts : Len(s) < Len(t) => Len(s) <= m
    BY <1>2
  <2> QED BY <1>1, <1>4, <2>1
<1>5. ASSUME NEW t \in Texts PROVE Continues(t, d)
  <2>1. Len(t) \in Good
    <3> HIDE DEF Good
    <3> QED BY <1>2, <1>3, <1>4, NatSetInduction
  <2> QED BY <1>2, <2>1
<1> QED BY <1>5

------------------------------------------------------------------------------
\* Reidentify, position by position.
LEMMA ShownAtBehind ==
  ASSUME NEW text \in Texts, NEW f, NEW g, NEW i \in 1..(Len(text) + 1),
         \A j \in (i + 1)..(Len(text) + 1) : f[j] = g[j]
  PROVE  ShownAt(text, f, i) = ShownAt(text, g, i)
<1>1. CASE i > Len(text)
  BY <1>1 DEF ShownAt
<1>2. CASE ~(i > Len(text))
  <2>1. Len(text) \in Nat /\ i + 1 \in (i + 1)..(Len(text) + 1)
    BY <1>2, LenProperties DEF Texts
  <2>2. f[i + 1] = g[i + 1]
    BY <2>1
  <2>3. IsPrefix(KnownToken, From(text, i)) => f[i + Len(KnownToken)] = g[i + Len(KnownToken)]
    <3> SUFFICES ASSUME IsPrefix(KnownToken, From(text, i))
                 PROVE  f[i + Len(KnownToken)] = g[i + Len(KnownToken)]
      OBVIOUS
    <3>1. Len(From(text, i)) = Len(text) + 1 - i
      BY FromFacts DEF Texts
    <3>2. Len(KnownToken) <= Len(From(text, i)) /\ Len(KnownToken) = 6
      BY KnownLetters DEF IsPrefix
    <3>3. i + Len(KnownToken) \in (i + 1)..(Len(text) + 1)
      BY <2>1, <3>1, <3>2
    <3> QED BY <3>3
  <2> QED BY <2>2, <2>3 DEF ShownAt
<1> QED BY <1>1, <1>2

LEMMA ShownFromUnfold ==
  ASSUME NEW text \in Texts
  PROVE  ShownFrom(text) = [i \in 1..(Len(text) + 1) |-> ShownAt(text, ShownFrom(text), i)]
<1> DEFINE n == Len(text) + 1
           Upto(m, g) == g = [i \in 1..n |-> IF i > n - m THEN ShownAt(text, g, i) ELSE 0]
           Good == {m \in Nat : m <= n => \E g : Upto(m, g)}
<1>1. n \in Nat /\ n >= 1 /\ Len(text) + 1 = n
  BY LenProperties DEF Texts
<1> HIDE DEF n
<1>2. 0 \in Good
  <2>1. \A i \in 1..n : ~(i > n - 0)
    BY <1>1
  <2>2. Upto(0, [i \in 1..n |-> 0])
    BY <2>1
  <2> QED BY <2>2
<1>3. ASSUME NEW m \in Nat, m \in Good PROVE m + 1 \in Good
  <2> SUFFICES ASSUME m + 1 <= n PROVE \E g : Upto(m + 1, g)
    OBVIOUS
  <2>1. m <= n
    BY <1>1
  <2>2. PICK g : Upto(m, g)
    BY <1>3, <2>1
  <2> DEFINE p == n - m
             h == [i \in 1..n |-> IF i = p THEN ShownAt(text, g, p) ELSE g[i]]
  <2>3. p \in 1..n /\ p = n - m
    BY <1>1, <2>1
  <2> HIDE DEF p
  <2>4. \A i \in (p + 1)..n : h[i] = g[i]
    BY <2>3
  <2>5. ASSUME NEW i \in 1..n PROVE h[i] = IF i > n - (m + 1) THEN ShownAt(text, h, i) ELSE 0
    <3>1. g[i] = IF i > n - m THEN ShownAt(text, g, i) ELSE 0
      BY <2>2, Zenon
    <3>2. CASE i >= p
      <4>1. \A j \in (i + 1)..n : g[j] = h[j]
        BY <2>3, <2>4, <3>2
      <4>2. i > n - (m + 1) /\ (i # p => i > n - m)
        BY <1>1, <2>3, <3>2
      <4>3. h[i] = ShownAt(text, g, i)
        BY <3>1, <4>2
      <4> HIDE DEF h
      <4>4. ShownAt(text, g, i) = ShownAt(text, h, i)
        BY <1>1, <4>1, ShownAtBehind
      <4> QED BY <4>2, <4>3, <4>4
    <3>3. CASE ~(i >= p)
      <4>1. ~(i > n - (m + 1)) /\ i # p /\ ~(i > n - m)
        BY <1>1, <2>3, <3>3
      <4> QED BY <3>1, <4>1
    <3> QED BY <3>2, <3>3
  <2>6. h = [i \in 1..n |-> h[i]]
    OBVIOUS
  <2> HIDE DEF h
  <2>7. h = [i \in 1..n |-> IF i > n - (m + 1) THEN ShownAt(text, h, i) ELSE 0]
    BY <2>5, <2>6
  <2> QED BY <2>7
<1>4. n \in Good
  <2> HIDE DEF Good
  <2> QED BY <1>1, <1>2, <1>3, NatSetInduction
<1>5. PICK g : Upto(n, g)
  BY <1>1, <1>4
<1>6. \A i \in 1..n : i > n - n
  BY <1>1
<1>7. g = [i \in 1..n |-> ShownAt(text, g, i)]
  BY <1>5, <1>6
<1>8. ShownFrom(text) = CHOOSE f : f = [i \in 1..n |-> ShownAt(text, f, i)]
  BY <1>1 DEF ShownFrom
<1> QED BY <1>1, <1>7, <1>8

LEMMA ShownFromType ==
  ASSUME NEW text \in Texts
  PROVE  \A i \in 1..(Len(text) + 1) : ShownFrom(text)[i] \in Shows
<1> DEFINE n == Len(text) + 1
           f == ShownFrom(text)
           Good == {m \in Nat : \A i \in 1..n : i > n - m => f[i] \in Shows}
<1>1. n \in Nat /\ Len(text) + 1 = n
  BY LenProperties DEF Texts
<1>2. \A i \in 1..n : f[i] = ShownAt(text, f, i)
  <2> HIDE DEF f
  <2>1. f = [i \in 1..n |-> ShownAt(text, f, i)]
    BY ShownFromUnfold DEF f
  <2> QED BY <2>1
<1> HIDE DEF n, f
<1>3. 0 \in Good
  BY <1>1
<1>4. ASSUME NEW m \in Nat, m \in Good PROVE m + 1 \in Good
  <2> SUFFICES ASSUME NEW i \in 1..n, i > n - (m + 1) PROVE f[i] \in Shows
    OBVIOUS
  <2>1. \A j \in (i + 1)..n : f[j] \in Shows
    BY <1>1, <1>4
  <2>2. CASE i > Len(text)
    <3>1. ShownAt(text, f, i) = <<>>
      BY <2>2 DEF ShownAt
    <3> QED BY <1>2, <3>1, EmptySeq DEF Shows
  <2>3. CASE ~(i > Len(text))
    <3>1. i + 1 \in (i + 1)..n /\ i \in 1..Len(text)
      BY <1>1, <2>3
    <3>2. <<text[i]>> \in Shows /\ f[i + 1] \in Shows
      BY <2>1, <3>1, SingleLetters, ElementOfSeq DEF Texts
    <3>3. <<text[i]>> \o f[i + 1] \in Shows
      BY <3>2, ConcatProperties DEF Shows
    <3>4. CASE IsPrefix(KnownToken, From(text, i))
      <4>1. Len(From(text, i)) = Len(text) + 1 - i
        BY <1>1, FromFacts DEF Texts
      <4>2. Len(KnownToken) <= Len(From(text, i)) /\ Len(KnownToken) = 6
        BY <3>4, KnownLetters DEF IsPrefix
      <4>3. i + Len(KnownToken) \in (i + 1)..n
        BY <1>1, <4>1, <4>2
      <4>4. f[i + Len(KnownToken)] \in Shows /\ <<"v">> \in Shows
        BY <2>1, <4>3, SingleLetters
      <4>5. <<"v">> \o f[i + Len(KnownToken)] \in Shows
        BY <4>4, ConcatProperties DEF Shows
      <4>6. f[i] = <<"v">> \o f[i + Len(KnownToken)]
        BY <1>2, <2>3, <3>4 DEF ShownAt
      <4> QED BY <4>5, <4>6
    <3>5. CASE ~IsPrefix(KnownToken, From(text, i))
      <4>1. f[i] = <<text[i]>> \o f[i + 1]
        BY <1>2, <2>3, <3>5 DEF ShownAt
      <4> QED BY <3>3, <4>1
    <3> QED BY <3>4, <3>5
  <2> QED BY <2>2, <2>3
<1>5. n \in Good
  <2> HIDE DEF Good
  <2> QED BY <1>1, <1>3, <1>4, NatSetInduction
<1> QED BY <1>1, <1>5 DEF n, f

\* Reidentifying within a text is reidentifying the rest of it.
LEMMA ShownFromWithin ==
  ASSUME NEW t \in Texts, NEW i \in 1..(Len(t) + 1)
  PROVE  ShownFrom(t)[i] = Reidentify(From(t, i))
<1> DEFINE r == From(t, i)
           n == Len(r) + 1
           f == ShownFrom(r)
           g == ShownFrom(t)
           Good == {m \in Nat : \A k \in 1..n : k > n - m => f[k] = g[i + k - 1]}
<1>1. /\ r \in Texts /\ Len(r) = Len(t) + 1 - i /\ Len(t) \in Nat
      /\ \A j \in 1..(Len(t) + 1 - i) : r[j] = t[i + j - 1]
  BY FromFacts, LenProperties DEF Texts
<1>2. \A k \in 1..n : f[k] = ShownAt(r, f, k)
  <2> HIDE DEF f, r
  <2>1. f = [k \in 1..n |-> ShownAt(r, f, k)]
    BY <1>1, ShownFromUnfold DEF f
  <2> QED BY <2>1
<1>3. \A k \in 1..(Len(t) + 1) : g[k] = ShownAt(t, g, k)
  <2> HIDE DEF g
  <2>1. g = [k \in 1..(Len(t) + 1) |-> ShownAt(t, g, k)]
    BY ShownFromUnfold DEF g
  <2> QED BY <2>1
<1>4. n = Len(t) + 2 - i /\ n \in Nat /\ n >= 1 /\ n = Len(r) + 1
  BY <1>1
<1>5. \A k \in 1..n : From(r, k) = From(t, i + k - 1) /\ Len(From(r, k)) = n - k
  <2> TAKE k \in 1..n
  <2>1. k \in 1..(Len(t) + 2 - i) /\ k \in 1..(Len(r) + 1)
    BY <1>4
  <2>2. From(From(t, i), k) = From(t, i + k - 1)
    BY ONLY <2>1, FromFrom, t \in Texts, i \in 1..(Len(t) + 1) DEF Texts
  <2> HIDE DEF r
  <2>3. Len(From(r, k)) = Len(r) + 1 - k
    BY ONLY <1>1, <2>1, FromFacts DEF Texts
  <2> QED BY <1>4, <2>2, <2>3 DEF r
<1> HIDE DEF f, g, r, n
<1>6. 0 \in Good
  BY <1>4
<1>7. ASSUME NEW m \in Nat, m \in Good PROVE m + 1 \in Good
  <2> SUFFICES ASSUME NEW k \in 1..n, k > n - (m + 1) PROVE f[k] = g[i + k - 1]
    OBVIOUS
  <2> DEFINE p == i + k - 1
  <2>1. \A j \in (k + 1)..n : f[j] = g[i + j - 1]
    BY <1>4, <1>7
  <2>2. p \in 1..(Len(t) + 1) /\ (k > Len(r) <=> p > Len(t))
    BY <1>1, <1>4
  <2>3. CASE k > Len(r)
    <3>1. ShownAt(r, f, k) = <<>> /\ ShownAt(t, g, p) = <<>>
      BY <2>2, <2>3 DEF ShownAt
    <3> QED BY <1>2, <1>3, <2>2, <3>1
  <2>4. CASE ~(k > Len(r))
    <3>1. r[k] = t[p] /\ k + 1 \in (k + 1)..n /\ i + (k + 1) - 1 = p + 1
      BY <1>1, <1>4, <2>4
    <3>2. f[k + 1] = g[p + 1]
      <4>1. f[k + 1] = g[i + (k + 1) - 1]
        BY <2>1, <3>1
      <4> QED BY <3>1, <4>1
    <3>3. IsPrefix(KnownToken, From(r, k)) => f[k + Len(KnownToken)] = g[p + Len(KnownToken)]
      <4> SUFFICES ASSUME IsPrefix(KnownToken, From(r, k))
                   PROVE  f[k + Len(KnownToken)] = g[p + Len(KnownToken)]
        OBVIOUS
      <4>1. Len(KnownToken) <= Len(From(r, k)) /\ Len(KnownToken) = 6
        BY KnownLetters DEF IsPrefix
      <4>2. k + 6 \in (k + 1)..n /\ i + (k + 6) - 1 = p + 6
        BY <1>1, <1>4, <1>5, <4>1
      <4>3. f[k + 6] = g[i + (k + 6) - 1]
        BY <2>1, <4>2
      <4> QED BY <4>1, <4>2, <4>3
    <3>4. From(r, k) = From(t, p)
      BY <1>5
    <3> HIDE DEF p
    <3>5. ShownAt(r, f, k) = ShownAt(t, g, p)
      BY <2>2, <2>4, <3>1, <3>2, <3>3, <3>4 DEF ShownAt
    <3>6. f[k] = g[p]
      BY <1>2, <1>3, <2>2, <3>5
    <3> QED BY <3>6 DEF p
  <2> QED BY <2>3, <2>4
<1>8. n \in Good
  <2> HIDE DEF Good
  <2> QED BY <1>4, <1>6, <1>7, NatSetInduction
<1>9. 1 \in 1..n /\ 1 > n - n /\ i + 1 - 1 = i
  BY <1>4
<1>10. f[1] = g[i]
  <2>1. f[1] = g[i + 1 - 1]
    BY <1>8, <1>9
  <2> QED BY <1>9, <2>1
<1> QED BY <1>10 DEF f, g, r, Reidentify

LEMMA ReidentifyUnfold ==
  ASSUME NEW t \in Texts
  PROVE  /\ Reidentify(t) \in Shows
         /\ Reidentify(t) =
              IF t = <<>> THEN <<>>
              ELSE IF IsPrefix(KnownToken, t) THEN <<"v">> \o Reidentify(From(t, 7))
              ELSE <<t[1]>> \o Reidentify(From(t, 2))
<1> DEFINE f == ShownFrom(t)
<1>1. Len(t) \in Nat /\ (t = <<>> <=> 1 > Len(t)) /\ From(t, 1) = t /\ 1 \in 1..(Len(t) + 1)
  BY EmptySeq, LenProperties, FromFirst DEF Texts
<1>2. f[1] = ShownAt(t, f, 1)
  <2> HIDE DEF f
  <2>1. f = [k \in 1..(Len(t) + 1) |-> ShownAt(t, f, k)]
    BY ShownFromUnfold DEF f
  <2> QED BY <1>1, <2>1
<1>3. t # <<>> => f[1 + 1] = Reidentify(From(t, 2))
  <2> SUFFICES ASSUME t # <<>> PROVE f[1 + 1] = Reidentify(From(t, 2))
    OBVIOUS
  <2>1. 2 \in 1..(Len(t) + 1) /\ 1 + 1 = 2
    BY <1>1
  <2> QED BY <2>1, ShownFromWithin
<1>4. IsPrefix(KnownToken, t) => f[1 + Len(KnownToken)] = Reidentify(From(t, 7))
  <2> SUFFICES ASSUME IsPrefix(KnownToken, t) PROVE f[1 + Len(KnownToken)] = Reidentify(From(t, 7))
    OBVIOUS
  <2>1. Len(KnownToken) <= Len(t) /\ Len(KnownToken) = 6
    BY KnownLetters DEF IsPrefix
  <2>2. 7 \in 1..(Len(t) + 1) /\ 1 + Len(KnownToken) = 7
    BY <1>1, <2>1
  <2> QED BY <2>2, ShownFromWithin
<1>5. f[1] \in Shows
  BY <1>1, ShownFromType
<1> HIDE DEF f
<1>6. f[1] = Reidentify(t)
  BY DEF f, Reidentify
<1> QED BY <1>1, <1>2, <1>3, <1>4, <1>5, <1>6 DEF ShownAt

LEMMA TokenAt ==
  ASSUME NEW t \in Texts, NEW j \in 1..(Len(t) + 1)
  PROVE  /\ IsPrefix(KnownToken, From(t, j)) <=>
              /\ j + 5 <= Len(t)
              /\ t[j] = "[" /\ t[j + 1] = "[" /\ t[j + 2] = "E"
              /\ t[j + 3] = "T" /\ t[j + 4] = "]" /\ t[j + 5] = "]"
         /\ IsPrefix(Opening, From(t, j)) <=>
              /\ j + 2 <= Len(t)
              /\ t[j] = "[" /\ t[j + 1] = "[" /\ t[j + 2] = "E"
<1> DEFINE r == From(t, j)
<1>1. Len(t) \in Nat
  BY LenProperties DEF Texts
<1>2. r \in Seq(Letters) /\ Len(r) = Len(t) + 1 - j /\ \A k \in 1..(Len(t) + 1 - j) : r[k] = t[j + k - 1]
  BY FromFacts DEF Texts
<1> HIDE DEF r
<1>3. KnownToken \in Seq(Letters) /\ Opening \in Seq(Letters)
  BY KnownLetters DEF Texts
<1>4. IsPrefix(KnownToken, r) <=> Len(KnownToken) <= Len(r) /\ \A k \in 1..Len(KnownToken) : KnownToken[k] = r[k]
  BY ONLY <1>2, <1>3, PrefixLetters
<1>5. IsPrefix(Opening, r) <=> Len(Opening) <= Len(r) /\ \A k \in 1..Len(Opening) : Opening[k] = r[k]
  BY ONLY <1>2, <1>3, PrefixLetters
<1>6. ASSUME NEW s, s[1] = "[", s[2] = "[", s[3] = "E"
      PROVE  /\ (\A k \in 1..3 : s[k] = r[k]) <=> r[1] = "[" /\ r[2] = "[" /\ r[3] = "E"
             /\ s[4] = "T" /\ s[5] = "]" /\ s[6] = "]" =>
                  ((\A k \in 1..6 : s[k] = r[k]) <=> r[1] = "[" /\ r[2] = "[" /\ r[3] = "E"
                                                     /\ r[4] = "T" /\ r[5] = "]" /\ r[6] = "]")
  <2>1. \A k \in 1..3 : k = 1 \/ k = 2 \/ k = 3
    OBVIOUS
  <2>2. \A k \in 1..6 : k = 1 \/ k = 2 \/ k = 3 \/ k = 4 \/ k = 5 \/ k = 6
    OBVIOUS
  <2> QED BY <1>6, <2>1, <2>2
<1>7. 3 <= Len(r) => r[1] = t[j] /\ r[2] = t[j + 1] /\ r[3] = t[j + 2]
  BY <1>1, <1>2
<1>8. 6 <= Len(r) => r[4] = t[j + 3] /\ r[5] = t[j + 4] /\ r[6] = t[j + 5]
  BY <1>1, <1>2
<1>9. (3 <= Len(r) <=> j + 2 <= Len(t)) /\ (6 <= Len(r) <=> j + 5 <= Len(t)) /\ (6 <= Len(r) => 3 <= Len(r))
  BY <1>1, <1>2
<1>10. (\A k \in 1..3 : Opening[k] = r[k]) <=> r[1] = "[" /\ r[2] = "[" /\ r[3] = "E"
  BY <1>6, KnownLetters
<1>11. (\A k \in 1..6 : KnownToken[k] = r[k]) <=>
         r[1] = "[" /\ r[2] = "[" /\ r[3] = "E" /\ r[4] = "T" /\ r[5] = "]" /\ r[6] = "]"
  BY <1>6, KnownLetters
<1>12. Len(Opening) = 3 /\ Len(KnownToken) = 6
  BY KnownLetters
<1>13. IsPrefix(Opening, r) <=> j + 2 <= Len(t) /\ t[j] = "[" /\ t[j + 1] = "[" /\ t[j + 2] = "E"
  BY <1>5, <1>7, <1>9, <1>10, <1>12
<1>14. IsPrefix(KnownToken, r) <=>
         /\ j + 5 <= Len(t)
         /\ t[j] = "[" /\ t[j + 1] = "[" /\ t[j + 2] = "E"
         /\ t[j + 3] = "T" /\ t[j + 4] = "]" /\ t[j + 5] = "]"
  BY <1>4, <1>7, <1>8, <1>9, <1>11, <1>12
<1> QED BY <1>13, <1>14 DEF r

\* Where no token begins, letters are shown as they stand.
LEMMA PlainLetters ==
  ASSUME NEW t \in Texts, NEW m \in 0..Len(t),
         \A j \in 1..m : ~IsPrefix(KnownToken, From(t, j))
  PROVE  Reidentify(t) = SubSeq(t, 1, m) \o Reidentify(From(t, m + 1))
<1> DEFINE Holds(n) == Reidentify(t) = SubSeq(t, 1, n) \o Reidentify(From(t, n + 1))
           Good == {n \in Nat : n <= m => Holds(n)}
<1>1. Len(t) \in Nat /\ m \in Nat /\ m <= Len(t)
  BY LenProperties DEF Texts
<1>2. 0 \in Good
  <2>1. SubSeq(t, 1, 0) = <<>> /\ From(t, 0 + 1) = t
    BY SubSeqEmpty, FromFirst DEF Texts
  <2>2. <<>> \o Reidentify(t) = Reidentify(t)
    BY ReidentifyUnfold, ConcatEmptySeq DEF Shows
  <2> QED BY <2>1, <2>2
<1>3. ASSUME NEW n \in Nat, n \in Good PROVE n + 1 \in Good
  <2> SUFFICES ASSUME n + 1 <= m PROVE Holds(n + 1)
    OBVIOUS
  <2>1. n + 1 \in 1..m /\ n + 1 \in 1..Len(t) /\ n + 1 \in 1..(Len(t) + 1) /\ n \in 0..Len(t) /\ n <= m
    BY <1>1
  <2> DEFINE r == From(t, n + 1)
             later == Reidentify(From(t, n + 2))
  <2>2. r \in Texts /\ Len(r) = Len(t) + 1 - (n + 1) /\ \A k \in 1..(Len(t) + 1 - (n + 1)) : r[k] = t[(n + 1) + k - 1]
    BY <2>1, FromFacts DEF Texts
  <2>3. r # <<>> /\ r[1] = t[n + 1] /\ 2 \in 1..(Len(t) + 2 - (n + 1))
    BY <1>1, <2>1, <2>2, EmptySeq
  <2>4. From(r, 2) = From(t, n + 2) /\ n + 2 \in 1..(Len(t) + 1)
    <3>1. From(From(t, n + 1), 2) = From(t, (n + 1) + 2 - 1) /\ (n + 1) + 2 - 1 = n + 2
      BY <2>1, <2>3, FromFrom DEF Texts
    <3>2. n + 2 \in 1..(Len(t) + 1)
      BY <1>1, <2>1
    <3> QED BY <3>1, <3>2
  <2>5. ~IsPrefix(KnownToken, r)
    BY <2>1
  <2>6. From(t, n + 2) \in Texts
    BY <2>4, FromFacts DEF Texts
  <2> HIDE DEF r
  <2>7. Reidentify(r) = <<t[n + 1]>> \o later
    BY <2>2, <2>3, <2>4, <2>5, ReidentifyUnfold
  <2>8. later \in Shows
    BY <2>6, ReidentifyUnfold
  <2>9. t[n + 1] \in Letters
    BY <2>1, ElementOfSeq DEF Texts
  <2>10. <<t[n + 1]>> \in Shows
    BY <2>9, SingleLetters
  <2>11. SubSeq(t, 1, n) \in Shows
    <3>1. SubSeq(t, 1, n) \in Texts
      BY <2>1, TakeFacts DEF Texts
    <3> QED BY <3>1, TextsAreShown
  <2>12. SubSeq(t, 1, n + 1) = SubSeq(t, 1, n) \o <<t[n + 1]>>
    <3>1. 1 \in 1..Len(t) /\ n + 1 \in 1..Len(t) /\ (n + 1) - 1 = n
      BY <1>1, <2>1
    <3>2. SubSeq(t, 1, n + 1) = SubSeq(t, 1, (n + 1) - 1) \o <<t[n + 1]>>
      BY <3>1, SubSeqRecursiveSecond DEF Texts
    <3> QED BY <3>1, <3>2
  <2>13. Reidentify(t) = SubSeq(t, 1, n) \o Reidentify(r)
    BY <1>3, <2>1 DEF r
  <2> HIDE DEF later
  <2>14. SubSeq(t, 1, n) \o (<<t[n + 1]>> \o later) = (SubSeq(t, 1, n) \o <<t[n + 1]>>) \o later
    BY <2>8, <2>10, <2>11, ShowsAssociative, Zenon
  <2>15. (n + 1) + 1 = n + 2
    OBVIOUS
  <2> QED BY <2>7, <2>12, <2>13, <2>14, <2>15 DEF later
<1>4. m \in Good
  <2> HIDE DEF Good
  <2> QED BY <1>1, <1>2, <1>3, NatSetInduction
<1> QED BY <1>1, <1>4

LEMMA PlainText ==
  ASSUME NEW t \in Texts, \A j \in 1..Len(t) : ~IsPrefix(KnownToken, From(t, j))
  PROVE  Reidentify(t) = t
<1>1. Len(t) \in 0..Len(t)
  BY LenProperties DEF Texts
<1>2. Reidentify(t) = SubSeq(t, 1, Len(t)) \o Reidentify(From(t, Len(t) + 1))
  BY <1>1, PlainLetters
<1>3. SubSeq(t, 1, Len(t)) = t /\ From(t, Len(t) + 1) = <<>>
  BY SubSeqFull, FromEnd DEF Texts
<1>4. Reidentify(<<>>) = <<>>
  BY ReidentifyUnfold, EmptySeq DEF Texts
<1>5. t \o <<>> = t
  BY ConcatEmptySeq DEF Texts
<1> QED BY <1>2, <1>3, <1>4, <1>5

\* The rest of a text without nested openings has none.
LEMMA NothingNestedWithin ==
  ASSUME NEW t \in Texts, NEW i \in 1..(Len(t) + 1), NothingNested(t)
  PROVE  NothingNested(From(t, i))
<1> DEFINE r == From(t, i)
<1>1. Len(t) \in Nat /\ DOMAIN t = 1..Len(t)
  BY LenProperties DEF Texts
<1>2. r \in Texts /\ Len(r) = Len(t) + 1 - i /\ DOMAIN r = 1..Len(r)
  <2>1. r \in Texts /\ Len(r) = Len(t) + 1 - i
    BY FromFacts DEF Texts
  <2> HIDE DEF r
  <2> QED BY <2>1, LenProperties DEF Texts
<1> SUFFICES ASSUME NEW p \in DOMAIN r, NEW q \in DOMAIN r, p < q,
                    IsPrefix(Opening, From(r, p)), IsPrefix(Opening, From(r, q))
             PROVE  ClosesAt(SubSeq(r, p, q - 1)) # {}
  BY DEF NothingNested
<1> DEFINE x == i + p - 1
           y == i + q - 1
<1>3. p \in 1..Len(r) /\ q \in 1..Len(r)
  BY <1>2
<1>4. x \in DOMAIN t /\ y \in DOMAIN t /\ x < y
  BY <1>1, <1>2, <1>3
<1>5. From(r, p) = From(t, x) /\ From(r, q) = From(t, y)
  <2>1. p \in 1..(Len(t) + 2 - i) /\ q \in 1..(Len(t) + 2 - i)
    BY <1>1, <1>2, <1>3
  <2> QED BY <2>1, FromFrom DEF Texts
<1>6. SubSeq(r, p, q - 1) = SubSeq(t, x, y - 1)
  <2>1. /\ i \in 1..Len(t) /\ Len(t) \in 1..Len(t)
        /\ p \in 1..(Len(t) - i + 1) /\ q - 1 \in 1..(Len(t) - i + 1) /\ i + (q - 1) - 1 = y - 1
    BY <1>1, <1>2, <1>3
  <2> DEFINE m == Len(t)
             n == q - 1
  <2>2. t \in Seq(Letters) /\ i \in 1..Len(t) /\ m \in 1..Len(t) /\ p \in 1..(m - i + 1) /\ n \in 1..(m - i + 1)
    BY <2>1 DEF Texts
  <2> HIDE DEF m, n
  <2>3. SubSeq(SubSeq(t, i, m), p, n) = SubSeq(t, i + p - 1, i + n - 1)
    BY ONLY <2>2, SubSeqOfSubSeq
  <2>4. SubSeq(SubSeq(t, i, Len(t)), p, q - 1) = SubSeq(t, i + p - 1, i + (q - 1) - 1)
    BY <2>3 DEF m, n
  <2> QED BY <2>1, <2>4 DEF From
<1> HIDE DEF x, y, r
<1>7. ClosesAt(SubSeq(t, x, y - 1)) # {}
  BY <1>4, <1>5 DEF NothingNested
<1> QED BY <1>6, <1>7

\* Nothing of a reply without nested openings is drained but what reidentify shows of it.
Agrees(t) == NothingNested(t) => Drain(t, TRUE).out = Reidentify(t)

LEMMA StepAgrees ==
  ASSUME NEW t \in Texts, NEW out \in Shows, NEW i \in 2..(Len(t) + 1),
         Drain(t, TRUE) = After(out, Drain(From(t, i), TRUE)),
         NothingNested(t) => Reidentify(t) = out \o Reidentify(From(t, i)),
         Agrees(From(t, i))
  PROVE  Agrees(t)
<1> DEFINE r == From(t, i)
           d == Drain(r, TRUE)
<1>1. i \in 1..(Len(t) + 1)
  BY LenProperties DEF Texts
<1>2. r \in Texts
  BY <1>1, FromFacts DEF Texts
<1>3. NothingNested(t) => NothingNested(r)
  BY <1>1, NothingNestedWithin
<1>4. d \in Drainings
  <2> HIDE DEF r
  <2> QED BY <1>2, DrainType
<1>5. After(out, d) = [out |-> out \o d.out, rest |-> d.rest, over |-> d.over]
  <2> HIDE DEF d
  <2> QED BY <1>4, AfterFacts
<1>6. After(out, d).out = out \o d.out
  <2> HIDE DEF d
  <2> QED BY ONLY <1>5
<1> QED BY <1>3, <1>6 DEF Agrees

LEMMA DrainAgrees ==
  \A t \in Texts : Agrees(t)
<1> DEFINE Good == {m \in Nat : \A t \in Texts : Len(t) <= m => Agrees(t)}
<1>1. ASSUME NEW t \in Texts, \A s \in Texts : Len(s) < Len(t) => Agrees(s)
      PROVE  Agrees(t)
  <2>1. Len(t) \in Nat /\ (t = <<>> <=> Len(t) = 0) /\ DOMAIN t = 1..Len(t)
    BY EmptySeq, LenProperties DEF Texts
  <2>2. \A i \in 2..(Len(t) + 1) : Agrees(From(t, i))
    <3> TAKE i \in 2..(Len(t) + 1)
    <3>1. i \in 1..(Len(t) + 1)
      BY <2>1
    <3>2. From(t, i) \in Texts /\ Len(From(t, i)) = Len(t) + 1 - i
      BY <3>1, FromFacts DEF Texts
    <3>3. Len(From(t, i)) < Len(t)
      BY <2>1, <3>2
    <3> QED BY <1>1, <3>2, <3>3
  <2>3. CASE t = <<>>
    <3>1. Drain(t, TRUE) = Release(<<>>)
      BY <2>3, DrainUnfold
    <3>2. Drain(t, TRUE).out = <<>>
      BY <3>1, DrainingFields, Zenon DEF Release
    <3>3. Reidentify(t) = <<>>
      BY <2>3, ReidentifyUnfold
    <3> QED BY <3>2, <3>3 DEF Agrees
  <2>4. CASE t # <<>>
    <3>1. 1 \in 1..(Len(t) + 1) /\ 2 \in 2..(Len(t) + 1) /\ From(t, 1) = t /\ 1 \in 1..Len(t) /\ t[1] \in Letters
      BY <2>1, <2>4, FromFirst, ElementOfSeq DEF Texts
    <3>2. IsPrefix(KnownToken, t) <=>
            /\ 1 + 5 <= Len(t)
            /\ t[1] = "[" /\ t[1 + 1] = "[" /\ t[1 + 2] = "E"
            /\ t[1 + 3] = "T" /\ t[1 + 4] = "]" /\ t[1 + 5] = "]"
      BY <3>1, TokenAt
    <3>3. IsPrefix(Opening, t) <=> 1 + 2 <= Len(t) /\ t[1] = "[" /\ t[1 + 1] = "[" /\ t[1 + 2] = "E"
      BY <3>1, TokenAt
    <3>4. <<t[1]>> \in Shows
      BY <3>1, SingleLetters
    <3>5. ~IsPrefix(KnownToken, t) => Reidentify(t) = <<t[1]>> \o Reidentify(From(t, 2))
      BY <2>4, ReidentifyUnfold
    <3>6. CASE t[1] # "["
      <4>1. Drain(t, TRUE) = After(<<t[1]>>, Drain(From(t, 2), TRUE))
        BY <2>4, <3>6, DrainUnfold
      <4> QED BY <2>2, <3>1, <3>2, <3>4, <3>5, <3>6, <4>1, StepAgrees
    <3>7. ASSUME Drain(t, TRUE).out = t, \A j \in 1..Len(t) : ~IsPrefix(KnownToken, From(t, j))
          PROVE  Agrees(t)
      BY <3>7, PlainText DEF Agrees
    <3>8. CASE t[1] = "[" /\ Len(t) < Len(Opening)
      <4>1. Drain(t, TRUE) = Release(t)
        BY <2>4, <3>8, DrainUnfold DEF Undecided
      <4>2. Drain(t, TRUE).out = t
        BY <4>1, DrainingFields, Zenon DEF Release
      <4>3. \A j \in 1..Len(t) : ~IsPrefix(KnownToken, From(t, j))
        <5> TAKE j \in 1..Len(t)
        <5>1. j \in 1..(Len(t) + 1) /\ ~(j + 5 <= Len(t))
          BY <2>1, <3>8, KnownLetters
        <5> QED BY <5>1, TokenAt
      <4> QED BY <3>7, <4>2, <4>3
    <3>9. CASE t[1] = "[" /\ ~(Len(t) < Len(Opening)) /\ ~IsPrefix(Opening, t)
      <4>1. Drain(t, TRUE) = After(<<t[1]>>, Drain(From(t, 2), TRUE))
        BY <2>4, <3>9, DrainUnfold
      <4>2. ~IsPrefix(KnownToken, t)
        BY <2>1, <3>2, <3>3, <3>9
      <4> QED BY <2>2, <3>1, <3>4, <3>5, <4>1, <4>2, StepAgrees
    <3>10. CASE t[1] = "[" /\ ~(Len(t) < Len(Opening)) /\ IsPrefix(Opening, t) /\ ClosesAt(t) = {}
      <4>1. Drain(t, TRUE) = Unclosed(t, TRUE)
        BY <2>4, <3>10, DrainUnfold
      <4>2. Unclosed(t, TRUE) = [out |-> t, rest |-> <<>>, over |-> IF Len(t) >= MaxPending THEN 1 ELSE 0]
        BY DEF Unclosed, Release
      <4>3. Drain(t, TRUE).out = t
        <5> DEFINE c == IF Len(t) >= MaxPending THEN 1 ELSE 0
        <5>1. Drain(t, TRUE) = [out |-> t, rest |-> <<>>, over |-> c]
          BY <4>1, <4>2, Zenon
        <5> HIDE DEF c
        <5> QED BY <5>1, DrainingFields, Zenon
      <4>4. \A j \in 1..Len(t) : ~IsPrefix(KnownToken, From(t, j))
        <5> SUFFICES ASSUME NEW j \in 1..Len(t), IsPrefix(KnownToken, From(t, j)) PROVE FALSE
          OBVIOUS
        <5>1. j \in 1..(Len(t) + 1)
          BY <2>1
        <5>2. j + 5 <= Len(t) /\ t[j + 4] = "]" /\ t[j + 5] = "]"
          BY <5>1, TokenAt
        <5>3. j + 4 \in 1..(Len(t) - 1) /\ (j + 4) + 1 = j + 5
          BY <2>1, <5>2
        <5>4. j + 4 \in ClosesAt(t)
          BY <5>2, <5>3 DEF ClosesAt
        <5> QED BY <3>10, <5>4
      <4> QED BY <3>7, <4>3, <4>4
    <3>11. CASE t[1] = "[" /\ ~(Len(t) < Len(Opening)) /\ IsPrefix(Opening, t) /\ ClosesAt(t) # {}
      <4>1. PICK k \in 1..(Len(t) - 1) :
              /\ IsFirstClose(t, k) /\ Closed(t) = SubSeq(t, 1, k + 1)
              /\ Closed(t) \in Seq(Letters) /\ Len(Closed(t)) = k + 1
              /\ \A n \in 1..(k + 1) : Closed(t)[n] = t[n]
        BY <3>11, ClosedFacts DEF Texts
      <4>2. /\ k \in 1..(Len(t) - 1) /\ k + 1 \in 0..Len(t) /\ t[k] = "]" /\ t[k + 1] = "]"
            /\ k + 2 \in 2..(Len(t) + 1) /\ (k + 1) + 1 = k + 2
        BY <2>1, <4>1 DEF IsFirstClose, ClosesAt
      <4>3. Drain(t, TRUE) = After(Shown(Closed(t)), Drain(From(t, k + 2), TRUE))
        BY <2>4, <3>11, <4>1, <4>2, DrainUnfold
      <4>4. Shown(Closed(t)) \in Shows
        BY <3>11, ClosedIsShown
      <4>5. CASE Closed(t) = KnownToken
        <5>1. k + 1 = 6 /\ k + 2 = 7 /\ 6 <= Len(t)
          <6>1. k + 1 = 6 /\ Len(t) \in Nat /\ k \in 1..(Len(t) - 1)
            BY <2>1, <4>1, <4>5, KnownLetters
          <6> QED BY ONLY <6>1
        <5>2. \A n \in 1..6 : KnownToken[n] = t[n]
          BY <4>1, <4>5, <5>1
        <5>3. IsPrefix(KnownToken, t)
          BY <5>1, <5>2, PrefixLetters, KnownLetters DEF Texts
        <5>4. Reidentify(t) = <<"v">> \o Reidentify(From(t, 7))
          BY <2>4, <5>3, ReidentifyUnfold
        <5>5. Shown(Closed(t)) = <<"v">>
          BY <4>5 DEF Shown
        <5> QED BY <2>2, <4>2, <4>3, <4>4, <5>1, <5>4, <5>5, StepAgrees
      <4>6. CASE Closed(t) # KnownToken
        <5>1. Shown(Closed(t)) = SubSeq(t, 1, k + 1)
          BY <4>1, <4>6 DEF Shown
        <5>2. ~IsPrefix(KnownToken, t)
          <6> SUFFICES ASSUME IsPrefix(KnownToken, t) PROVE FALSE
            OBVIOUS
          <6>1. 6 <= Len(t) /\ \A n \in 1..6 : KnownToken[n] = t[n]
            <7>1. Len(KnownToken) = 6
              BY KnownLetters
            <7>2. IsPrefix(KnownToken, t) <=>
                    Len(KnownToken) <= Len(t) /\ \A n \in 1..Len(KnownToken) : KnownToken[n] = t[n]
              BY TextPrefix, KnownLetters, Zenon
            <7> QED BY <7>1, <7>2
          <6>2. t[5] = "]" /\ t[6] = "]" /\ t[1] = "[" /\ t[2] = "[" /\ t[3] = "E" /\ t[4] = "T"
            BY <6>1, KnownLetters
          <6>3. 5 \in ClosesAt(t)
            BY <2>1, <6>1, <6>2 DEF ClosesAt
          <6>4. k <= 5
            BY <4>1, <6>3 DEF IsFirstClose
          <6>5. k # 1 /\ k # 2 /\ k # 3 /\ k # 4
            BY <4>2, <6>2
          <6>6. k = 5
            BY <4>2, <6>4, <6>5
          <6>7. Len(Closed(t)) = Len(KnownToken) /\ \A n \in 1..6 : Closed(t)[n] = KnownToken[n]
            BY <4>1, <6>1, <6>6, KnownLetters
          <6>8. Closed(t) = KnownToken
            BY <4>1, <6>7, KnownLetters, SeqEqual DEF Texts
          <6> QED BY <4>6, <6>8
        <5>3. ASSUME NothingNested(t), NEW j \in 1..(k + 1), IsPrefix(KnownToken, From(t, j))
              PROVE  FALSE
          <6>1. j \in 1..(Len(t) + 1) /\ j # 1
            BY <2>1, <3>1, <4>2, <5>2, <5>3
          <6>2. j + 5 <= Len(t) /\ t[j] = "[" /\ t[j + 1] = "[" /\ t[j + 2] = "E"
            BY <5>3, <6>1, TokenAt
          <6>3. j < k /\ 1 < j /\ j \in DOMAIN t /\ 1 \in DOMAIN t
            <7>1. j # k /\ j # k + 1
              BY <4>2, <6>2
            <7> QED BY <2>1, <3>1, <4>2, <6>1, <6>2, <7>1
          <6>4. IsPrefix(Opening, From(t, j))
            <7>1. j + 2 <= Len(t)
              BY <2>1, <6>2
            <7> QED BY <6>1, <6>2, <7>1, TokenAt
          <6>5. ClosesAt(SubSeq(t, 1, j - 1)) # {}
            BY <3>1, <3>11, <5>3, <6>3, <6>4 DEF NothingNested
          <6> DEFINE u == SubSeq(t, 1, j - 1)
          <6>6. Len(u) = j - 1 /\ \A n \in 1..(j - 1) : u[n] = t[n]
            <7>1. j - 1 \in 0..Len(t)
              BY <2>1, <6>2, <6>3
            <7> QED BY <7>1, TakeFacts DEF Texts
          <6> HIDE DEF u
          <6>7. PICK l \in 1..(j - 2) : u[l] = "]" /\ u[l + 1] = "]"
            <7>1. (j - 1) - 1 = j - 2
              BY <6>1
            <7>2. \E l \in 1..(Len(u) - 1) : u[l] = "]" /\ u[l + 1] = "]"
              BY <6>5 DEF ClosesAt, u
            <7> QED BY <6>6, <7>1, <7>2
          <6>8. t[l] = "]" /\ t[l + 1] = "]" /\ l \in 1..(Len(t) - 1) /\ l < k
            BY <2>1, <4>2, <6>2, <6>3, <6>6, <6>7
          <6>9. l \in ClosesAt(t)
            BY <6>8 DEF ClosesAt
          <6>10. k <= l
            BY <4>1, <6>9 DEF IsFirstClose
          <6> QED BY <4>2, <6>8, <6>10
        <5>4. NothingNested(t) => Reidentify(t) = SubSeq(t, 1, k + 1) \o Reidentify(From(t, k + 2))
          <6> SUFFICES ASSUME NothingNested(t)
                       PROVE  Reidentify(t) = SubSeq(t, 1, k + 1) \o Reidentify(From(t, k + 2))
            OBVIOUS
          <6>1. \A j \in 1..(k + 1) : ~IsPrefix(KnownToken, From(t, j))
            BY <5>3
          <6>2. Reidentify(t) = SubSeq(t, 1, k + 1) \o Reidentify(From(t, (k + 1) + 1))
            BY <4>2, <6>1, PlainLetters
          <6> QED BY <4>2, <6>2
        <5> QED BY <2>2, <4>2, <4>3, <4>4, <5>1, <5>4, StepAgrees
      <4> QED BY <4>5, <4>6
    <3> QED BY <3>6, <3>8, <3>9, <3>10, <3>11
  <2> QED BY <2>3, <2>4
<1>2. \A t \in Texts : Len(t) \in Nat
  BY LenProperties DEF Texts
<1>3. 0 \in Good
  BY <1>1, <1>2
<1>4. ASSUME NEW m \in Nat, m \in Good PROVE m + 1 \in Good
  <2> SUFFICES ASSUME NEW t \in Texts, Len(t) <= m + 1 PROVE Agrees(t)
    OBVIOUS
  <2>1. \A s \in Texts : Len(s) < Len(t) => Len(s) <= m
    BY <1>2
  <2> QED BY <1>1, <1>4, <2>1
<1>5. ASSUME NEW t \in Texts PROVE Agrees(t)
  <2>1. Len(t) \in Good
    <3> HIDE DEF Good
    <3> QED BY <1>2, <1>3, <1>4, NatSetInduction
  <2> QED BY <1>2, <2>1
<1> QED BY <1>5

------------------------------------------------------------------------------
(***************************************************************************)
(* The state: what is still to come after any reply so far changes nothing *)
(* of what was shown, whatever is still to come.                           *)
(***************************************************************************)
StreamTypeOK ==
  /\ fed \in Texts /\ buffer \in Texts /\ shown \in Shows
  /\ overflows \in Nat /\ flushed \in BOOLEAN

Continuing(d) == Drain(fed \o d, TRUE).out = shown \o Drain(buffer \o d, TRUE).out

StreamInv ==
  /\ StreamTypeOK
  /\ ~flushed /\ overflows = 0 => \A d \in Texts : Continuing(d)
  /\ flushed => buffer = <<>>
  /\ flushed /\ overflows = 0 => shown = Drain(fed, TRUE).out

LEMMA StreamInitInv ==
  StreamInit => StreamInv
<1> SUFFICES ASSUME StreamInit PROVE StreamInv
  OBVIOUS
<1>1. fed = <<>> /\ buffer = <<>> /\ shown = <<>> /\ overflows = 0 /\ flushed = FALSE
  BY DEF StreamInit
<1>2. <<>> \in Texts /\ <<>> \in Shows
  BY EmptySeq DEF Texts, Shows
<1>3. ASSUME NEW d \in Texts PROVE Continuing(d)
  <2>1. <<>> \o d = d
    BY ConcatEmptySeq DEF Texts
  <2>2. Drain(d, TRUE).out \in Shows
    BY DrainType DEF Drainings
  <2>3. <<>> \o Drain(d, TRUE).out = Drain(d, TRUE).out
    BY <2>2, ConcatEmptySeq DEF Shows
  <2> QED BY <1>1, <2>1, <2>3 DEF Continuing
<1> QED BY <1>1, <1>2, <1>3 DEF StreamInv, StreamTypeOK

LEMMA StreamTypeStep ==
  StreamTypeOK /\ [StreamNext]_streamVars => StreamTypeOK'
<1> SUFFICES ASSUME StreamTypeOK, [StreamNext]_streamVars PROVE StreamTypeOK'
  OBVIOUS
<1>1. fed \in Texts /\ buffer \in Texts /\ shown \in Shows /\ overflows \in Nat /\ flushed \in BOOLEAN
  BY DEF StreamTypeOK
<1>2. ASSUME NEW t \in Texts, NEW final \in BOOLEAN, Take(Drain(t, final))
      PROVE  shown' \in Shows /\ buffer' \in Texts /\ overflows' \in Nat
  <2> DEFINE p == Drain(t, final)
  <2>1. p \in Drainings
    BY DrainType
  <2> HIDE DEF p
  <2>2. p.out \in Shows /\ p.rest \in Texts /\ p.over \in {0, 1}
    BY <2>1 DEF Drainings
  <2>3. shown \o p.out \in Shows
    BY <1>1, <2>2, ConcatProperties DEF Shows
  <2>4. shown' = shown \o p.out /\ buffer' = p.rest /\ overflows' = overflows + p.over
    BY <1>2 DEF Take, p
  <2> QED BY <1>1, <2>2, <2>3, <2>4
<1>3. ASSUME NEW n \in 1..(MaxReply - Len(fed)), NEW delta \in [1..n -> Letters], Feed(delta)
      PROVE  StreamTypeOK'
  <2>1. delta \in Texts
    <3>1. n \in Nat
      BY <1>1, StreamAssumption, LenProperties DEF Texts
    <3> QED BY <3>1, SeqDef DEF Texts
  <2>2. fed \o delta \in Texts /\ buffer \o delta \in Texts
    BY <1>1, <2>1, ConcatProperties DEF Texts
  <2>3. Take(Drain(buffer \o delta, FALSE)) /\ fed' = fed \o delta /\ flushed' = flushed
    BY <1>3 DEF Feed
  <2>4. shown' \in Shows /\ buffer' \in Texts /\ overflows' \in Nat
    BY <1>2, <2>2, <2>3
  <2> QED BY <1>1, <2>2, <2>3, <2>4 DEF StreamTypeOK
<1>4. ASSUME Flush PROVE StreamTypeOK'
  <2>1. Take(Drain(buffer, TRUE)) /\ fed' = fed /\ flushed' = TRUE
    BY <1>4 DEF Flush
  <2>2. shown' \in Shows /\ buffer' \in Texts /\ overflows' \in Nat
    BY <1>1, <1>2, <2>1
  <2> QED BY <1>1, <2>1, <2>2 DEF StreamTypeOK
<1>5. ASSUME UNCHANGED streamVars PROVE StreamTypeOK'
  BY <1>1, <1>5 DEF StreamTypeOK, streamVars
<1> QED BY <1>3, <1>4, <1>5 DEF StreamNext

\* A feed keeps the account: with any letters to come, what is shown and what the rest gives
\* is what one feed of the whole reply gives.
LEMMA FeedContinues ==
  ASSUME StreamTypeOK, NEW delta \in Texts, Feed(delta), overflows' = 0,
         overflows = 0 => \A d \in Texts : Continuing(d),
         NEW d \in Texts
  PROVE  Continuing(d)'
<1> DEFINE b == buffer \o delta
           p == Drain(b, FALSE)
           later == Drain(p.rest \o d, TRUE)
<1>1. fed \in Texts /\ buffer \in Texts /\ shown \in Shows /\ overflows \in Nat
  BY DEF StreamTypeOK
<1>2. b \in Texts /\ delta \o d \in Texts
  BY <1>1, ConcatProperties DEF Texts
<1>3. p \in Drainings
  <2> HIDE DEF b
  <2> QED BY <1>2, DrainType
<1>4. fed' = fed \o delta /\ shown' = shown \o p.out /\ buffer' = p.rest /\ overflows' = overflows + p.over
  BY DEF Feed, Take
<1> HIDE DEF b
<1>5. Continues(b, d)
  BY <1>2, DrainContinues
<1> HIDE DEF p
<1>6. p.out \in Shows /\ p.rest \in Texts /\ p.over \in {0, 1}
  BY <1>3 DEF Drainings
<1>7. overflows = 0 /\ p.over = 0
  BY <1>1, <1>4, <1>6
<1>8. Drain(b \o d, TRUE).out = p.out \o later.out
  BY <1>5, <1>7 DEF Continues, p
<1>9. later.out \in Shows
  <2>1. p.rest \o d \in Texts
    BY <1>6, ConcatProperties DEF Texts
  <2>2. later \in Drainings
    BY <2>1, DrainType
  <2> HIDE DEF later
  <2> QED BY <2>2 DEF Drainings
<1>10. Drain(fed \o (delta \o d), TRUE).out = shown \o Drain(buffer \o (delta \o d), TRUE).out
  BY <1>2, <1>7 DEF Continuing
<1>11. fed \o (delta \o d) = (fed \o delta) \o d /\ buffer \o (delta \o d) = b \o d
  <2>1. fed \in Texts /\ buffer \in Texts /\ delta \in Texts /\ d \in Texts
    BY <1>1
  <2>2. fed \o (delta \o d) = (fed \o delta) \o d
    BY ONLY <2>1, TextsAssociative, Zenon
  <2>3. buffer \o (delta \o d) = (buffer \o delta) \o d
    BY ONLY <2>1, TextsAssociative, Zenon
  <2> QED BY <2>2, <2>3 DEF b
<1>12. shown \o (p.out \o later.out) = (shown \o p.out) \o later.out
  <2> HIDE DEF later
  <2> QED BY <1>1, <1>6, <1>9, ShowsAssociative, Zenon
<1>13. Drain((fed \o delta) \o d, TRUE).out = (shown \o p.out) \o later.out
  BY <1>8, <1>10, <1>11, <1>12
<1> QED BY <1>4, <1>13 DEF Continuing

LEMMA FlushedIsAll ==
  ASSUME StreamTypeOK, Flush, overflows' = 0, overflows = 0 => \A d \in Texts : Continuing(d)
  PROVE  shown' = Drain(fed', TRUE).out
<1> DEFINE p == Drain(buffer, TRUE)
<1>1. fed \in Texts /\ buffer \in Texts /\ overflows \in Nat
  BY DEF StreamTypeOK
<1>2. p \in Drainings
  BY <1>1, DrainType
<1>3. shown' = shown \o p.out /\ fed' = fed /\ overflows' = overflows + p.over
  BY DEF Flush, Take
<1> HIDE DEF p
<1>4. overflows = 0
  <2>1. p.over \in {0, 1}
    BY <1>2 DEF Drainings
  <2> QED BY <1>1, <1>3, <2>1
<1>5. <<>> \in Texts /\ fed \o <<>> = fed /\ buffer \o <<>> = buffer
  BY <1>1, ConcatEmptySeq, EmptySeq DEF Texts
<1>6. Drain(fed \o <<>>, TRUE).out = shown \o Drain(buffer \o <<>>, TRUE).out
  BY <1>4, <1>5 DEF Continuing
<1> QED BY <1>3, <1>5, <1>6 DEF p

\* The end of a stream holds nothing back.
HoldsNothing(t) == Drain(t, TRUE).rest = <<>>

LEMMA FinalRest ==
  \A t \in Texts : HoldsNothing(t)
<1> DEFINE Good == {m \in Nat : \A t \in Texts : Len(t) <= m => HoldsNothing(t)}
<1>1. ASSUME NEW t \in Texts, \A s \in Texts : Len(s) < Len(t) => HoldsNothing(s)
      PROVE  HoldsNothing(t)
  <2>1. Len(t) \in Nat /\ (t = <<>> <=> Len(t) = 0)
    BY EmptySeq, LenProperties DEF Texts
  <2>2. \A i \in 2..(Len(t) + 1) : \A out \in Shows : After(out, Drain(From(t, i), TRUE)).rest = <<>>
    <3> TAKE i \in 2..(Len(t) + 1)
    <3> TAKE out \in Shows
    <3> DEFINE r == From(t, i)
               d == Drain(r, TRUE)
    <3>1. i \in 1..(Len(t) + 1)
      BY <2>1
    <3>2. r \in Texts /\ Len(r) = Len(t) + 1 - i
      BY <3>1, FromFacts DEF Texts
    <3> HIDE DEF r
    <3>3. Len(r) < Len(t)
      BY <2>1, <3>2
    <3>4. d.rest = <<>> /\ d \in Drainings
      BY <1>1, <3>2, <3>3, DrainType DEF HoldsNothing
    <3> HIDE DEF d
    <3>5. After(out, d) = [out |-> out \o d.out, rest |-> d.rest, over |-> d.over]
      BY <3>4, AfterFacts
    <3>6. After(out, d).rest = d.rest
      BY ONLY <3>5
    <3> QED BY <3>4, <3>6 DEF d, r
  <2>3. \A s \in Texts : Release(s).rest = <<>> /\ Undecided(s, TRUE).rest = <<>> /\ Unclosed(s, TRUE).rest = <<>>
    BY DEF Release, Undecided, Unclosed
  <2>4. CASE t = <<>>
    <3>1. Drain(t, TRUE) = Release(t)
      BY <2>4, DrainUnfold
    <3> QED BY <2>3, <3>1, Zenon DEF HoldsNothing
  <2>5. CASE t # <<>>
    <3>1. 2 \in 2..(Len(t) + 1) /\ <<t[1]>> \in Shows /\ <<"[">> \in Shows
      <4>1. 1 \in 1..Len(t)
        BY <2>1, <2>5
      <4>2. t[1] \in Letters
        BY <4>1, ElementOfSeq DEF Texts
      <4> QED BY <4>1, <4>2, SingleLetters
    <3>2. ClosesAt(t) # {} =>
            Len(Closed(t)) + 1 \in 2..(Len(t) + 1) /\ Shown(Closed(t)) \in Shows
      <4> SUFFICES ASSUME ClosesAt(t) # {}
                   PROVE  Len(Closed(t)) + 1 \in 2..(Len(t) + 1) /\ Shown(Closed(t)) \in Shows
        OBVIOUS
      <4>1. Len(Closed(t)) \in 2..Len(t) /\ Shown(Closed(t)) \in Shows
        BY ClosedIsShown
      <4> QED BY <2>1, <4>1
    <3>3. \/ Drain(t, TRUE) = After(<<t[1]>>, Drain(From(t, 2), TRUE))
          \/ Drain(t, TRUE) = Undecided(t, TRUE)
          \/ Drain(t, TRUE) = After(<<"[">>, Drain(From(t, 2), TRUE))
          \/ Drain(t, TRUE) = Unclosed(t, TRUE)
          \/ /\ ClosesAt(t) # {}
             /\ Drain(t, TRUE) = After(Shown(Closed(t)), Drain(From(t, Len(Closed(t)) + 1), TRUE))
      BY <2>5, DrainUnfold
    <3> QED BY <2>2, <2>3, <3>1, <3>2, <3>3, Zenon DEF HoldsNothing
  <2> QED BY <2>4, <2>5
<1>2. \A t \in Texts : Len(t) \in Nat
  BY LenProperties DEF Texts
<1>3. 0 \in Good
  BY <1>1, <1>2
<1>4. ASSUME NEW m \in Nat, m \in Good PROVE m + 1 \in Good
  <2> SUFFICES ASSUME NEW t \in Texts, Len(t) <= m + 1 PROVE HoldsNothing(t)
    OBVIOUS
  <2>1. \A s \in Texts : Len(s) < Len(t) => Len(s) <= m
    BY <1>2
  <2> QED BY <1>1, <1>4, <2>1
<1>5. ASSUME NEW t \in Texts PROVE HoldsNothing(t)
  <2>1. Len(t) \in Good
    <3> HIDE DEF Good
    <3> QED BY <1>2, <1>3, <1>4, NatSetInduction
  <2> QED BY <1>2, <2>1
<1> QED BY <1>5

LEMMA StreamStepInv ==
  StreamInv /\ [StreamNext]_streamVars => StreamInv'
<1> SUFFICES ASSUME StreamInv, [StreamNext]_streamVars PROVE StreamInv'
  OBVIOUS
<1>1. StreamTypeOK /\ StreamTypeOK'
  BY StreamTypeStep DEF StreamInv
<1>2. ASSUME NEW n \in 1..(MaxReply - Len(fed)), NEW delta \in [1..n -> Letters], Feed(delta)
      PROVE  StreamInv'
  <2>1. delta \in Texts
    <3>1. n \in Nat
      BY <1>1, StreamAssumption, LenProperties DEF Texts, StreamTypeOK
    <3> QED BY <3>1, SeqDef DEF Texts
  <2>2. ~flushed /\ ~flushed'
    BY <1>2 DEF Feed
  <2>3. overflows = 0 => \A d \in Texts : Continuing(d)
    BY <2>2 DEF StreamInv
  <2>4. ASSUME overflows' = 0 PROVE \A d \in Texts : Continuing(d)'
    BY <1>1, <1>2, <2>1, <2>3, <2>4, FeedContinues
  <2> QED BY <1>1, <2>2, <2>4 DEF StreamInv
<1>3. ASSUME Flush PROVE StreamInv'
  <2>1. ~flushed /\ flushed' = TRUE /\ buffer' = Drain(buffer, TRUE).rest
    BY <1>3 DEF Flush, Take
  <2>2. buffer' = <<>>
    BY <1>1, <2>1, FinalRest DEF StreamTypeOK, HoldsNothing
  <2>3. overflows = 0 => \A d \in Texts : Continuing(d)
    BY <2>1 DEF StreamInv
  <2>4. overflows' = 0 => shown' = Drain(fed', TRUE).out
    BY <1>1, <1>3, <2>3, FlushedIsAll
  <2> QED BY <1>1, <2>1, <2>2, <2>4 DEF StreamInv
<1>4. ASSUME UNCHANGED streamVars PROVE StreamInv'
  BY <1>1, <1>4 DEF StreamInv, StreamTypeOK, Continuing, streamVars
<1> QED BY <1>2, <1>3, <1>4 DEF StreamNext

LEMMA StreamInvSuffices ==
  StreamInv => CutsCannotBeSeen
<1> SUFFICES ASSUME StreamInv, overflows = 0
             PROVE  /\ shown \o Drain(buffer, TRUE).out = Drain(fed, TRUE).out
                    /\ NothingNested(fed) => /\ IsPrefix(shown, Reidentify(fed))
                                             /\ flushed => shown = Reidentify(fed)
  BY DEF CutsCannotBeSeen
<1> DEFINE now == Drain(buffer, TRUE).out
           whole == Drain(fed, TRUE).out
<1>1. fed \in Texts /\ buffer \in Texts /\ shown \in Shows /\ flushed \in BOOLEAN
  BY DEF StreamInv, StreamTypeOK
<1>2. now \in Shows /\ whole \in Shows
  BY <1>1, DrainType DEF Drainings
<1>3. flushed => buffer = <<>> /\ shown = whole
  BY DEF StreamInv
<1>4. shown \o now = whole
  <2>1. CASE flushed
    <3>1. Drain(<<>>, TRUE) = Release(<<>>)
      BY DrainUnfold, EmptySeq DEF Texts
    <3>2. Drain(<<>>, TRUE).out = <<>>
      BY <3>1, DrainingFields, Zenon DEF Release
    <3>3. shown \o <<>> = shown
      BY <1>1, ConcatEmptySeq DEF Shows
    <3> QED BY <1>3, <2>1, <3>2, <3>3
  <2>2. CASE ~flushed
    <3>1. \A d \in Texts : Continuing(d)
      BY <2>2 DEF StreamInv
    <3>2. <<>> \in Texts /\ fed \o <<>> = fed /\ buffer \o <<>> = buffer
      BY <1>1, ConcatEmptySeq, EmptySeq DEF Texts
    <3>3. Drain(fed \o <<>>, TRUE).out = shown \o Drain(buffer \o <<>>, TRUE).out
      BY <3>1, <3>2 DEF Continuing
    <3> QED BY <3>2, <3>3
  <2> QED BY <1>1, <2>1, <2>2
<1>5. NothingNested(fed) => whole = Reidentify(fed)
  BY <1>1, DrainAgrees DEF Agrees
<1> HIDE DEF now, whole
<1>6. IsPrefix(shown, whole)
  <2> DEFINE S == Letters \cup {"v"}
  <2>1. shown \in Seq(S) /\ now \in Seq(S) /\ whole \in Seq(S)
    BY <1>1, <1>2 DEF Shows
  <2> HIDE DEF S
  <2>2. /\ Len(shown) \in Nat /\ Len(now) \in Nat /\ Len(whole) = Len(shown) + Len(now)
        /\ \A j \in 1..(Len(shown) + Len(now)) : whole[j] = IF j <= Len(shown) THEN shown[j] ELSE now[j - Len(shown)]
    BY ONLY <1>4, <2>1, ConcatProperties, LenProperties
  <2>3. Len(shown) <= Len(whole) /\ \A j \in 1..Len(shown) : shown[j] = whole[j]
    BY <2>2
  <2>4. IsPrefix(shown, whole) <=> Len(shown) <= Len(whole) /\ \A j \in 1..Len(shown) : shown[j] = whole[j]
    BY ONLY <2>1, PrefixLetters
  <2> QED BY <2>3, <2>4
<1> QED BY <1>3, <1>4, <1>5, <1>6 DEF now, whole

------------------------------------------------------------------------------
\* Type correctness of the shield: the text is one of the given ones, what is fed and held
\* back are letters of a reply, and what is shown are letters and what stands for tokens.
ShieldTypeOK == shielding \in Shieldings /\ StreamTypeOK

THEOREM ShieldTypeCorrect ==
  ShieldSpec => []ShieldTypeOK
<1>1. ShieldInit => ShieldTypeOK
  BY StreamInitInv DEF ShieldInit, ShieldTypeOK, StreamInv
<1>2. ShieldTypeOK /\ [ShieldNext]_shieldVars => ShieldTypeOK'
  BY StreamTypeStep DEF ShieldTypeOK, ShieldNext, shieldVars
<1> QED BY <1>1, <1>2, PTL DEF ShieldSpec

\* The inductive invariant: the text is a given one, and the stream keeps its account.
ShieldInv == shielding \in Shieldings /\ StreamInv

LEMMA ShieldInvSuffices ==
  ShieldInv => ShieldedTextIsSeenWhole
<1> SUFFICES ASSUME ShieldInv PROVE ShieldedTextIsSeenWhole
  OBVIOUS
<1> DEFINE text == shielding.text
           hits == shielding.hits
           V == ToSet(text) \cup {h.type : h \in hits}
<1>1. text \in Seq(ToSet(text)) /\ HitsOn(hits, Len(text))
  BY ShieldingsAssumption DEF ShieldInv
<1>2. \A h \in hits : h.type \in V
  OBVIOUS
<1>3. ToSet(text) \subseteq V
  OBVIOUS
<1> HIDE DEF text, hits, V
<1>4. text \in Seq(V)
  BY <1>1, <1>3, SeqMonotonic
<1>5. ShieldedTextIsWhole(text, hits)
  BY <1>1, <1>2, <1>4, ShieldedIsWhole
<1>6. CutsCannotBeSeen
  BY StreamInvSuffices DEF ShieldInv
<1> QED BY <1>5, <1>6 DEF ShieldedTextIsSeenWhole, text, hits

\* For every text and whatever the three layers find on it: every hit meets a replaced span, the
\* replaced spans are hits and apart, and a reply that repeats the redacted text gives the text
\* back.  And for every reply, fed in whatever pieces: unless the cap forced a release, what was
\* shown is what one feed of the whole shows, and without an opening inside another that is what
\* reidentify shows of it.
THEOREM ShieldedTextIsSeenWholeHolds ==
  ShieldSpec => []ShieldedTextIsSeenWhole
<1>1. ShieldInit => ShieldInv
  BY StreamInitInv DEF ShieldInit, ShieldInv
<1>2. ShieldInv /\ [ShieldNext]_shieldVars => ShieldInv'
  BY StreamStepInv DEF ShieldInv, ShieldNext, shieldVars
<1>3. ShieldSpec => []ShieldInv
  BY <1>1, <1>2, PTL DEF ShieldSpec
<1> QED BY <1>3, ShieldInvSuffices, PTL

------------------------------------------------------------------------------
(****************************************************************************)
(* The entries of a sequence at some of its places.                          *)
(****************************************************************************)
\* A function on the first naturals is a sequence.
LEMMA FunctionSeq ==
  ASSUME NEW S, NEW n \in Nat, NEW f \in [1..n -> S]
  PROVE  f \in Seq(S) /\ Len(f) = n /\ DOMAIN f = 1..n
<1>1. f \in Seq(S)
  BY SeqDef
<1>2. DOMAIN f = 1..n /\ DOMAIN f = 1..Len(f) /\ Len(f) \in Nat
  BY <1>1, LenProperties
<1>3. Len(f) = n
  BY <1>2
<1> QED BY <1>1, <1>2, <1>3

LEMMA ListSeq ==
  ASSUME NEW s, IsList(s), NEW S, \A i \in 1..Len(s) : s[i] \in S
  PROVE  s \in Seq(S)
<1>1. Len(s) \in Nat /\ s = [i \in 1..Len(s) |-> s[i]]
  BY DEF IsList
<1>2. s \in [1..Len(s) -> S]
  BY <1>1
<1> QED BY <1>1, <1>2, FunctionSeq

EntryPieces(seq, places) == [i \in DOMAIN seq |-> IF i \in places THEN <<seq[i]>> ELSE <<>>]

LEMMA PiecesType ==
  ASSUME NEW S, NEW seq \in Seq(S), NEW places
  PROVE  /\ EntryPieces(seq, places) \in Seq(Seq(S)) /\ Len(EntryPieces(seq, places)) = Len(seq)
         /\ \A i \in 1..Len(seq) : EntryPieces(seq, places)[i] = IF i \in places THEN <<seq[i]>> ELSE <<>>
<1> DEFINE n == Len(seq)
           f == EntryPieces(seq, places)
<1>1. n \in Nat /\ DOMAIN seq = 1..n
  BY LenProperties
<1>2. \A i \in 1..n : f[i] = IF i \in places THEN <<seq[i]>> ELSE <<>>
  BY <1>1 DEF EntryPieces
<1>3. ASSUME NEW i \in 1..n PROVE <<seq[i]>> \in Seq(S) /\ <<>> \in Seq(S)
  <2>1. seq[i] \in S
    BY ElementOfSeq
  <2> QED BY <2>1, EmptySeq
<1>4. f = [i \in 1..n |-> f[i]]
  BY <1>1 DEF EntryPieces
<1>5. \A i \in 1..n : f[i] \in Seq(S)
  BY <1>2, <1>3
<1> HIDE DEF f, n
<1>6. f \in [1..n -> Seq(S)]
  BY <1>4, <1>5
<1>7. f \in Seq(Seq(S)) /\ Len(f) = n
  BY <1>1, <1>6, FunctionSeq
<1> QED BY <1>2, <1>7 DEF f, n

LEMMA EntriesPieces ==
  \A seq, places : EntriesAt(seq, places) = FlattenSeq(EntryPieces(seq, places))
BY DEF EntriesAt, EntryPieces

LEMMA EntriesType ==
  ASSUME NEW S, NEW seq \in Seq(S), NEW places
  PROVE  EntriesAt(seq, places) \in Seq(S)
BY PiecesType, EntriesPieces, FlatType

LEMMA EntriesEmpty ==
  ASSUME NEW places
  PROVE  EntriesAt(<<>>, places) = <<>>
<1>1. <<>> \in Seq({}) /\ Len(<<>>) = 0
  BY EmptySeq
<1>2. EntryPieces(<<>>, places) \in Seq(Seq({})) /\ Len(EntryPieces(<<>>, places)) = 0
  BY <1>1, PiecesType
<1>3. EntryPieces(<<>>, places) = <<>>
  BY <1>2, EmptySeq
<1> QED BY <1>3, EntriesPieces, FlatEmpty

LEMMA EntriesConcat ==
  ASSUME NEW S, NEW s \in Seq(S), NEW t \in Seq(S), NEW places, NEW later,
         \A i \in 1..Len(t) : i \in later <=> Len(s) + i \in places
  PROVE  EntriesAt(s \o t, places) = EntriesAt(s, places) \o EntriesAt(t, later)
<1> DEFINE a == EntryPieces(s, places)
           b == EntryPieces(t, later)
           c == EntryPieces(s \o t, places)
<1>1. /\ s \o t \in Seq(S) /\ Len(s \o t) = Len(s) + Len(t)
      /\ \A i \in 1..(Len(s) + Len(t)) : (s \o t)[i] = IF i <= Len(s) THEN s[i] ELSE t[i - Len(s)]
      /\ Len(s) \in Nat /\ Len(t) \in Nat
  BY ConcatProperties, LenProperties
<1>2. /\ a \in Seq(Seq(S)) /\ Len(a) = Len(s)
      /\ \A i \in 1..Len(s) : a[i] = IF i \in places THEN <<s[i]>> ELSE <<>>
  BY PiecesType
<1>3. /\ b \in Seq(Seq(S)) /\ Len(b) = Len(t)
      /\ \A i \in 1..Len(t) : b[i] = IF i \in later THEN <<t[i]>> ELSE <<>>
  BY PiecesType
<1> DEFINE w == s \o t
<1>4. /\ c \in Seq(Seq(S)) /\ Len(c) = Len(w)
      /\ \A i \in 1..Len(w) : c[i] = IF i \in places THEN <<w[i]>> ELSE <<>>
  BY <1>1, PiecesType
<1> HIDE DEF a, b, c, w
<1>5. /\ a \o b \in Seq(Seq(S)) /\ Len(a \o b) = Len(a) + Len(b)
      /\ \A i \in 1..(Len(a) + Len(b)) : (a \o b)[i] = IF i <= Len(a) THEN a[i] ELSE b[i - Len(a)]
  <2> DEFINE T == Seq(S)
  <2>1. a \in Seq(T) /\ b \in Seq(T)
    BY <1>2, <1>3
  <2> HIDE DEF T
  <2>2. /\ a \o b \in Seq(T) /\ Len(a \o b) = Len(a) + Len(b)
        /\ \A i \in 1..(Len(a) + Len(b)) : (a \o b)[i] = IF i <= Len(a) THEN a[i] ELSE b[i - Len(a)]
    BY ONLY <2>1, ConcatProperties
  <2> QED BY <2>2 DEF T
<1>6. ASSUME NEW i \in 1..Len(c) PROVE c[i] = (a \o b)[i]
  <2>1. i \in 1..(Len(s) + Len(t)) /\ i \in 1..Len(w) /\ i \in 1..(Len(a) + Len(b))
    BY <1>1, <1>2, <1>3, <1>4 DEF w
  <2>2. CASE i <= Len(s)
    <3>1. i \in 1..Len(s) /\ w[i] = s[i] /\ (a \o b)[i] = a[i]
      BY <1>1, <1>2, <1>5, <2>1, <2>2 DEF w
    <3> QED BY <1>2, <1>4, <2>1, <3>1
  <2>3. CASE ~(i <= Len(s))
    <3>1. i - Len(s) \in 1..Len(t) /\ Len(s) + (i - Len(s)) = i
      BY <1>1, <2>1, <2>3
    <3>2. w[i] = t[i - Len(s)] /\ (a \o b)[i] = b[i - Len(s)]
      BY <1>1, <1>2, <1>5, <2>1, <2>3 DEF w
    <3>3. i - Len(s) \in later <=> i \in places
      BY <3>1
    <3> QED BY <1>3, <1>4, <2>1, <3>1, <3>2, <3>3
  <2> QED BY <2>2, <2>3
<1>7. c = a \o b
  BY <1>1, <1>2, <1>3, <1>4, <1>5, <1>6, SeqEqual DEF w
<1>8. FlattenSeq(a \o b) = FlattenSeq(a) \o FlattenSeq(b)
  BY <1>2, <1>3, FlatConcat
<1> QED BY <1>7, <1>8, EntriesPieces DEF a, b, c

LEMMA EntriesAppend ==
  ASSUME NEW S, NEW s \in Seq(S), NEW e \in S, NEW places
  PROVE  EntriesAt(Append(s, e), places) =
           IF Len(s) + 1 \in places THEN Append(EntriesAt(s, places), e) ELSE EntriesAt(s, places)
<1> DEFINE a == EntryPieces(s, places)
           x == IF Len(s) + 1 \in places THEN <<e>> ELSE <<>>
           c == EntryPieces(Append(s, e), places)
           w == Append(s, e)
<1>1. /\ w \in Seq(S) /\ Len(w) = Len(s) + 1 /\ Len(s) \in Nat
      /\ w[Len(s) + 1] = e /\ \A i \in 1..Len(s) : w[i] = s[i]
  BY AppendProperties, LenProperties
<1>2. /\ a \in Seq(Seq(S)) /\ Len(a) = Len(s)
      /\ \A i \in 1..Len(s) : a[i] = IF i \in places THEN <<s[i]>> ELSE <<>>
  BY PiecesType
<1> HIDE DEF w
<1>4. /\ EntryPieces(w, places) \in Seq(Seq(S)) /\ Len(EntryPieces(w, places)) = Len(w)
      /\ \A i \in 1..Len(w) : EntryPieces(w, places)[i] = IF i \in places THEN <<w[i]>> ELSE <<>>
  BY <1>1, PiecesType
<1>5. x \in Seq(S)
  BY EmptySeq
<1> HIDE DEF a, x
<1>6. /\ Append(a, x) \in Seq(Seq(S)) /\ Len(Append(a, x)) = Len(s) + 1
      /\ Append(a, x)[Len(s) + 1] = x /\ \A i \in 1..Len(s) : Append(a, x)[i] = a[i]
  BY <1>2, <1>5, AppendProperties
<1>7. ASSUME NEW i \in 1..Len(w) PROVE EntryPieces(w, places)[i] = Append(a, x)[i]
  <2>1. CASE i = Len(s) + 1
    BY <1>1, <1>4, <1>6, <2>1 DEF x
  <2>2. CASE i # Len(s) + 1
    <3>1. i \in 1..Len(s)
      BY <1>1, <2>2
    <3> QED BY <1>1, <1>2, <1>4, <1>6, <3>1
  <2> QED BY <2>1, <2>2
<1>8. EntryPieces(w, places) = Append(a, x)
  BY <1>1, <1>4, <1>6, <1>7, SeqEqual
<1>9. FlattenSeq(Append(a, x)) = FlattenSeq(a) \o x
  BY <1>2, <1>5, FlatAppend
<1>10. FlattenSeq(a) \in Seq(S)
  BY <1>2, FlatType
<1>11. FlattenSeq(a) \o x = IF Len(s) + 1 \in places THEN Append(FlattenSeq(a), e) ELSE FlattenSeq(a)
  BY <1>10, AppendIsConcat, ConcatEmptySeq DEF x
<1> QED BY <1>8, <1>9, <1>11, EntriesPieces DEF a, w

\* The places themselves: increasing, those of the set and no others.
ArePlaces(p, n, places) ==
  /\ p \in Seq(1..n)
  /\ \A m \in 1..Len(p) : p[m] \in places
  /\ \A m, k \in 1..Len(p) : m < k => p[m] < p[k]
  /\ \A i \in 1..n : i \in places => \E m \in 1..Len(p) : p[m] = i
Picked(e, s, p) == Len(e) = Len(p) /\ \A m \in 1..Len(p) : e[m] = s[p[m]]

LEMMA EntriesPicked ==
  ASSUME NEW S, NEW places
  PROVE  \A s \in Seq(S) : \E p : ArePlaces(p, Len(s), places) /\ Picked(EntriesAt(s, places), s, p)
<1> DEFINE Q == {s \in Seq(S) : \E p : ArePlaces(p, Len(s), places) /\ Picked(EntriesAt(s, places), s, p)}
<1>1. <<>> \in Q
  <2>1. <<>> \in Seq(1..0) /\ Len(<<>>) = 0 /\ <<>> \in Seq(S)
    BY EmptySeq
  <2>2. ArePlaces(<<>>, 0, places)
    BY <2>1 DEF ArePlaces
  <2>3. Picked(EntriesAt(<<>>, places), <<>>, <<>>)
    BY <2>1, EntriesEmpty DEF Picked
  <2> QED BY <2>1, <2>2, <2>3
<1>2. ASSUME NEW s \in Seq(S), NEW e \in S, s \in Q PROVE Append(s, e) \in Q
  <2> DEFINE w == Append(s, e)
             n == Len(s)
             es == EntriesAt(s, places)
  <2>1. PICK p : ArePlaces(p, n, places) /\ Picked(es, s, p)
    BY <1>2
  <2>2. /\ w \in Seq(S) /\ Len(w) = n + 1 /\ n \in Nat /\ w[n + 1] = e
        /\ \A i \in 1..n : w[i] = s[i]
    BY AppendProperties, LenProperties
  <2>3. EntriesAt(w, places) = IF n + 1 \in places THEN Append(es, e) ELSE es
    BY EntriesAppend
  <2>4. es \in Seq(S)
    BY EntriesType
  <2> HIDE DEF w, n, es
  <2>5. /\ p \in Seq(1..n) /\ Len(p) \in Nat /\ p \in Seq(1..(n + 1))
        /\ \A m \in 1..Len(p) : p[m] \in 1..n /\ p[m] \in places
    <3>1. p \in Seq(1..n) /\ \A m \in 1..Len(p) : p[m] \in places
      BY <2>1 DEF ArePlaces
    <3>2. 1..n \subseteq 1..(n + 1)
      BY <2>2
    <3> QED BY <3>1, <3>2, SeqMonotonic, LenProperties, ElementOfSeq
  <2>6. CASE n + 1 \in places
    <3> DEFINE q == Append(p, n + 1)
    <3>1. n + 1 \in 1..(n + 1)
      BY <2>2
    <3>2. /\ q \in Seq(1..(n + 1)) /\ Len(q) = Len(p) + 1 /\ q[Len(p) + 1] = n + 1
          /\ \A m \in 1..Len(p) : q[m] = p[m]
      BY <2>5, <3>1, AppendProperties
    <3> HIDE DEF q
    <3>3. ArePlaces(q, n + 1, places)
      <4>1. ASSUME NEW m \in 1..Len(q) PROVE q[m] \in places
        <5>1. m = Len(p) + 1 \/ m \in 1..Len(p)
          BY <2>5, <3>2
        <5> QED BY <2>5, <2>6, <3>2, <5>1
      <4>2. ASSUME NEW m \in 1..Len(q), NEW k \in 1..Len(q), m < k PROVE q[m] < q[k]
        <5>1. m \in 1..Len(p) /\ (k = Len(p) + 1 \/ k \in 1..Len(p))
          BY <2>5, <3>2, <4>2, SMTT(30)
        <5>2. CASE k = Len(p) + 1
          <6>1. q[m] \in 1..n /\ q[k] = n + 1
            BY <2>5, <3>2, <5>1, <5>2
          <6> QED BY <2>2, <6>1
        <5>3. CASE k \in 1..Len(p)
          BY <2>1, <3>2, <4>2, <5>1, <5>3 DEF ArePlaces
        <5> QED BY <5>1, <5>2, <5>3
      <4>3. ASSUME NEW i \in 1..(n + 1), i \in places PROVE \E m \in 1..Len(q) : q[m] = i
        <5>1. CASE i = n + 1
          <6>1. Len(p) + 1 \in 1..Len(q)
            BY <2>5, <3>2
          <6> QED BY <3>2, <5>1, <6>1
        <5>2. CASE i # n + 1
          <6>1. i \in 1..n
            BY <2>2, <5>2
          <6>2. PICK m \in 1..Len(p) : p[m] = i
            BY <2>1, <4>3, <6>1 DEF ArePlaces
          <6>3. m \in 1..Len(q)
            BY <2>5, <3>2
          <6> QED BY <3>2, <6>2, <6>3
        <5> QED BY <5>1, <5>2
      <4> QED BY <3>2, <4>1, <4>2, <4>3 DEF ArePlaces
    <3>4. /\ Len(Append(es, e)) = Len(es) + 1 /\ Append(es, e)[Len(es) + 1] = e
          /\ \A m \in 1..Len(es) : Append(es, e)[m] = es[m]
      BY <2>4, AppendProperties
    <3>5. Picked(Append(es, e), w, q)
      <4>1. Len(es) = Len(p) /\ \A m \in 1..Len(p) : es[m] = s[p[m]]
        BY <2>1 DEF Picked
      <4>2. ASSUME NEW m \in 1..Len(q) PROVE Append(es, e)[m] = w[q[m]]
        <5>1. m = Len(p) + 1 \/ m \in 1..Len(p)
          BY <2>5, <3>2
        <5>2. CASE m = Len(p) + 1
          BY <2>2, <3>2, <3>4, <4>1, <5>2
        <5>3. CASE m \in 1..Len(p)
          BY <2>2, <2>5, <3>2, <3>4, <4>1, <5>3
        <5> QED BY <5>1, <5>2, <5>3
      <4> QED BY <3>2, <3>4, <4>1, <4>2 DEF Picked
    <3> QED BY <2>2, <2>3, <2>6, <3>3, <3>5 DEF w
  <2>7. CASE n + 1 \notin places
    <3>1. ArePlaces(p, n + 1, places)
      <4>1. ASSUME NEW i \in 1..(n + 1), i \in places PROVE \E m \in 1..Len(p) : p[m] = i
        <5>1. i \in 1..n
          BY <2>2, <2>7, <4>1
        <5> QED BY <2>1, <4>1, <5>1 DEF ArePlaces
      <4> QED BY <2>1, <2>5, <4>1 DEF ArePlaces
    <3>2. Picked(es, w, p)
      BY <2>1, <2>2, <2>5 DEF Picked
    <3> QED BY <2>2, <2>3, <2>7, <3>1, <3>2 DEF w
  <2> QED BY <2>6, <2>7
<1> HIDE DEF Q
<1>3. \A s \in Seq(S) : s \in Q
  BY <1>1, <1>2, SeqAppended
<1> QED BY <1>3 DEF Q

\* All of them is the sequence itself.
LEMMA EntriesAll ==
  ASSUME NEW S, NEW places
  PROVE  \A s \in Seq(S) : (\A i \in 1..Len(s) : i \in places) => EntriesAt(s, places) = s
<1> DEFINE Q == {s \in Seq(S) : (\A i \in 1..Len(s) : i \in places) => EntriesAt(s, places) = s}
<1>1. <<>> \in Q
  BY EmptySeq, EntriesEmpty
<1>2. ASSUME NEW s \in Seq(S), NEW e \in S, s \in Q PROVE Append(s, e) \in Q
  <2>1. Append(s, e) \in Seq(S) /\ Len(Append(s, e)) = Len(s) + 1 /\ Len(s) \in Nat
    BY AppendProperties, LenProperties
  <2>2. ASSUME \A i \in 1..(Len(s) + 1) : i \in places PROVE EntriesAt(Append(s, e), places) = Append(s, e)
    <3>1. Len(s) + 1 \in places /\ \A i \in 1..Len(s) : i \in places
      BY <2>1, <2>2
    <3>2. EntriesAt(s, places) = s
      BY <1>2, <3>1
    <3> QED BY <3>1, <3>2, EntriesAppend
  <2> QED BY <2>1, <2>2
<1> HIDE DEF Q
<1>3. \A s \in Seq(S) : s \in Q
  BY <1>1, <1>2, SeqAppended
<1> QED BY <1>3 DEF Q

LEMMA EntriesSame ==
  ASSUME NEW S, NEW s \in Seq(S), NEW places, NEW others,
         \A i \in 1..Len(s) : i \in places <=> i \in others
  PROVE  EntriesAt(s, places) = EntriesAt(s, others)
<1>1. DOMAIN s = 1..Len(s)
  BY LenProperties
<1>2. EntryPieces(s, places) = EntryPieces(s, others)
  BY <1>1 DEF EntryPieces
<1> QED BY <1>2, EntriesPieces

------------------------------------------------------------------------------
(****************************************************************************)
(* The tables of a text end at a line of prose, wherever the text is cut.    *)
(****************************************************************************)
LEMMA EndsOne ==
  ASSUME NEW L, NEW text \in Seq(L), NEW i \in 1..Len(text), InTable(text[i])
  PROVE  \E e \in i..Len(text) : EndsOf(text, i) = {e}
<1> DEFINE n == Len(text)
           stop(j) == j = n \/ ~InTable(text[j + 1])
           T == {j \in i..n : stop(j)}
<1>1. n \in Nat /\ i \in Nat /\ i >= 1 /\ i <= n
  BY LenProperties
<1>2. n \in T /\ T \in SUBSET Nat
  BY <1>1
<1>3. PICK e \in T : \A j \in T : e <= j
  <2> HIDE DEF T
  <2> QED BY <1>2, LeastNatural
<1>4. e \in i..n /\ stop(e) /\ \A j \in i..n : j < e => ~stop(j)
  BY <1>1, <1>3
<1> HIDE DEF T, n
<1>5. ASSUME NEW k \in i..e PROVE InTable(text[k])
  <2>1. CASE k = i
    BY <2>1
  <2>2. CASE k # i
    <3>1. k - 1 \in i..n /\ k - 1 < e /\ (k - 1) + 1 = k
      BY <1>1, <1>4, <2>2
    <3>2. ~stop(k - 1)
      BY <1>4, <3>1
    <3> QED BY <3>1, <3>2
  <2> QED BY <2>1, <2>2
<1>6. e \in EndsOf(text, i)
  BY <1>4, <1>5 DEF EndsOf, n
<1>7. ASSUME NEW d \in EndsOf(text, i) PROVE d = e
  <2>1. d \in i..n /\ (\A k \in i..d : InTable(text[k])) /\ stop(d)
    BY <1>7 DEF EndsOf, n
  <2>2. ~(d < e)
    BY <1>4, <2>1
  <2>3. ASSUME e < d PROVE FALSE
    <3>1. e + 1 \in i..d /\ e # n
      BY <1>1, <1>4, <2>1, <2>3
    <3> QED BY <1>4, <2>1, <3>1
  <2> QED BY <1>1, <1>4, <2>1, <2>2, <2>3
<1> QED BY <1>4, <1>6, <1>7 DEF n

RowsOf(lines) == EntriesAt(lines, {n \in DOMAIN lines : lines[n].kind = "row"})

LEMMA TableIs ==
  ASSUME NEW text, NEW i, NEW e, EndsOf(text, i) = {e}
  PROVE  TableAt(text, i) = RowsOf(SubSeq(text, i, e))
<1>1. (CHOOSE j \in EndsOf(text, i) : TRUE) = e
  OBVIOUS
<1> QED BY <1>1 DEF TableAt, RowsOf

LEMMA TableType ==
  ASSUME NEW L, NEW text \in Seq(L), NEW i \in 1..Len(text), InTable(text[i])
  PROVE  TableAt(text, i) \in Seq(L)
<1>1. PICK e \in i..Len(text) : EndsOf(text, i) = {e}
  BY EndsOne
<1>2. Len(text) \in Nat /\ i \in Int /\ e \in Int
  BY <1>1, LenProperties
<1>3. \A k \in i..e : text[k] \in L
  BY <1>1, <1>2, ElementOfSeq
<1>4. SubSeq(text, i, e) \in Seq(L)
  BY <1>2, <1>3, SubSeqProperties
<1>5. RowsOf(SubSeq(text, i, e)) \in Seq(L)
  BY <1>4, EntriesType DEF RowsOf
<1> QED BY <1>1, <1>5, TableIs

\* A table is the same wherever its lines stand, if no line of a table follows them.
Within(x, w, d) ==
  /\ d \in Nat /\ Len(w) >= Len(x) + d
  /\ \A j \in 1..Len(x) : w[j + d] = x[j]
  /\ Len(w) = Len(x) + d \/ ~InTable(w[Len(x) + d + 1])

LEMMA SameTable ==
  ASSUME NEW L, NEW x \in Seq(L), NEW w \in Seq(L), NEW d, Within(x, w, d),
         NEW i \in 1..Len(x), InTable(x[i])
  PROVE  TableAt(w, i + d) = TableAt(x, i)
<1>0. Len(x) \in Nat /\ Len(w) \in Nat /\ d \in Nat /\ Len(w) >= Len(x) + d
  BY LenProperties DEF Within
<1>1. PICK e \in i..Len(x) : EndsOf(x, i) = {e}
  BY EndsOne
<1>2. e \in EndsOf(x, i)
  BY <1>1
<1>3. (\A k \in i..e : InTable(x[k])) /\ (e = Len(x) \/ ~InTable(x[e + 1]))
  BY <1>2 DEF EndsOf
<1>4. i + d \in 1..Len(w) /\ w[i + d] = x[i]
  BY <1>0 DEF Within
<1>5. PICK f \in (i + d)..Len(w) : EndsOf(w, i + d) = {f}
  BY <1>4, EndsOne
<1>6. e + d \in EndsOf(w, i + d)
  <2>1. e + d \in (i + d)..Len(w)
    BY <1>0, <1>1
  <2>2. ASSUME NEW k \in (i + d)..(e + d) PROVE InTable(w[k])
    <3>1. k - d \in i..e /\ k - d \in 1..Len(x) /\ (k - d) + d = k
      BY <1>0, <1>1
    <3>2. w[k] = x[k - d]
      BY <3>1 DEF Within
    <3> QED BY <1>3, <3>1, <3>2
  <2>3. e + d = Len(w) \/ ~InTable(w[(e + d) + 1])
    <3>1. CASE e = Len(x)
      BY <3>1 DEF Within
    <3>2. CASE e # Len(x)
      <4>1. e + 1 \in 1..Len(x) /\ (e + 1) + d = (e + d) + 1
        BY <1>0, <1>1, <3>2
      <4>2. w[(e + d) + 1] = x[e + 1]
        BY <4>1 DEF Within
      <4> QED BY <1>3, <3>2, <4>2
    <3> QED BY <3>1, <3>2
  <2> QED BY <2>1, <2>2, <2>3 DEF EndsOf
<1>7. f = e + d
  BY <1>5, <1>6
<1>8. SubSeq(w, i + d, e + d) = SubSeq(x, i, e)
  <2>1. i \in Int /\ e \in Int /\ i <= e /\ i + d \in Int /\ e + d \in Int
    BY <1>0, <1>1
  <2>2. \A k \in i..e : x[k] \in L
    BY <1>0, <1>1, ElementOfSeq
  <2>3. \A k \in (i + d)..(e + d) : w[k] \in L
    BY <1>0, <1>1, ElementOfSeq
  <2>4. /\ SubSeq(x, i, e) \in Seq(L) /\ Len(SubSeq(x, i, e)) = e - i + 1
        /\ \A k \in 1..(e - i + 1) : SubSeq(x, i, e)[k] = x[i + k - 1]
    BY <2>1, <2>2, SubSeqProperties
  <2>5. /\ SubSeq(w, i + d, e + d) \in Seq(L) /\ Len(SubSeq(w, i + d, e + d)) = (e + d) - (i + d) + 1
        /\ \A k \in 1..((e + d) - (i + d) + 1) : SubSeq(w, i + d, e + d)[k] = w[(i + d) + k - 1]
    <3>1. i + d <= e + d
      BY <1>0, <2>1
    <3> QED BY <2>1, <2>3, <3>1, SubSeqProperties, SMTT(30)
  <2>6. (e + d) - (i + d) + 1 = e - i + 1
    BY <1>0, <2>1
  <2>7. ASSUME NEW k \in 1..(e - i + 1) PROVE w[(i + d) + k - 1] = x[i + k - 1]
    <3>1. i + k - 1 \in 1..Len(x) /\ (i + k - 1) + d = (i + d) + k - 1
      BY <1>0, <1>1, <2>1
    <3> QED BY <3>1 DEF Within
  <2>8. Len(SubSeq(w, i + d, e + d)) = Len(SubSeq(x, i, e))
    BY <2>4, <2>5, <2>6
  <2>9. \A k \in 1..Len(SubSeq(w, i + d, e + d)) : SubSeq(w, i + d, e + d)[k] = SubSeq(x, i, e)[k]
    BY <2>4, <2>5, <2>6, <2>7
  <2> QED BY <2>4, <2>5, <2>8, <2>9, SeqEqual
<1>9. EndsOf(w, i + d) = {e + d}
  BY <1>5, <1>7
<1> QED BY <1>1, <1>8, <1>9, TableIs

\* What begins at each line: a table, or nothing.
Starts(text) == [i \in DOMAIN text |-> IF Begins(text, i) THEN TableAt(text, i) ELSE <<>>]
Long(tables) == {i \in DOMAIN tables : Len(tables[i]) >= 2}

LEMMA StartsType ==
  ASSUME NEW L, NEW text \in Seq(L)
  PROVE  /\ Starts(text) \in Seq(Seq(L)) /\ Len(Starts(text)) = Len(text)
         /\ \A i \in 1..Len(text) : Starts(text)[i] = IF Begins(text, i) THEN TableAt(text, i) ELSE <<>>
         /\ DOMAIN Starts(text) = 1..Len(text) /\ DOMAIN text = 1..Len(text)
<1> DEFINE n == Len(text)
           f == Starts(text)
<1>1. n \in Nat /\ DOMAIN text = 1..n
  BY LenProperties
<1>2. \A i \in 1..n : f[i] = IF Begins(text, i) THEN TableAt(text, i) ELSE <<>>
  BY <1>1 DEF Starts
<1>3. f = [i \in 1..n |-> f[i]]
  BY <1>1 DEF Starts
<1>4. ASSUME NEW i \in 1..n PROVE f[i] \in Seq(L)
  <2>1. CASE Begins(text, i)
    <3>1. InTable(text[i])
      BY <2>1 DEF Begins
    <3>2. TableAt(text, i) \in Seq(L)
      BY <3>1, TableType
    <3> QED BY <1>2, <2>1, <3>2
  <2>2. CASE ~Begins(text, i)
    BY <1>2, <2>2, EmptySeq
  <2> QED BY <2>1, <2>2
<1> HIDE DEF f, n
<1>5. f \in [1..n -> Seq(L)]
  BY <1>3, <1>4
<1>6. f \in Seq(Seq(L)) /\ Len(f) = n /\ DOMAIN f = 1..n
  BY <1>1, <1>5, FunctionSeq
<1> QED BY <1>1, <1>2, <1>6 DEF f, n

LEMMA TablesAre ==
  ASSUME NEW L, NEW text \in Seq(L)
  PROVE  Tables(text) = EntriesAt(Starts(text), Long(Starts(text))) /\ Tables(text) \in Seq(Seq(L))
<1>1. DOMAIN Starts(text) = DOMAIN text /\ Starts(text) \in Seq(Seq(L))
  BY StartsType
<1>2. Tables(text) = EntriesAt(Starts(text), {i \in DOMAIN text : Len(Starts(text)[i]) >= 2})
  BY DEF Tables, Starts
<1>3. Tables(text) = EntriesAt(Starts(text), Long(Starts(text)))
  BY <1>1, <1>2 DEF Long
<1> DEFINE T == Seq(L)
<1> HIDE DEF T
<1>4. EntriesAt(Starts(text), Long(Starts(text))) \in Seq(T)
  <2>1. Starts(text) \in Seq(T)
    BY <1>1 DEF T
  <2> QED BY <2>1, EntriesType
<1> QED BY <1>3, <1>4 DEF T

\* Where a line of prose lies between them, the tables of two texts are those of each.
LEMMA TablesJoin ==
  ASSUME NEW L, Prose \in L, NEW x \in Seq(L), NEW y \in Seq(L)
  PROVE  Tables(Append(x, Prose) \o y) = Tables(x) \o Tables(y)
<1> DEFINE h == Append(x, Prose)
           w == h \o y
           a == Len(x)
           b == Len(y)
           sx == Starts(x)
           sy == Starts(y)
           sw == Starts(w)
<1>1. h \in Seq(L) /\ Len(h) = a + 1 /\ h[a + 1] = Prose /\ (\A i \in 1..a : h[i] = x[i]) /\ a \in Nat /\ b \in Nat
  BY AppendProperties, LenProperties
<1> HIDE DEF h
<1>2. /\ w \in Seq(L) /\ Len(w) = Len(h) + b
      /\ \A i \in 1..(Len(h) + b) : w[i] = IF i <= Len(h) THEN h[i] ELSE y[i - Len(h)]
  BY <1>1, ConcatProperties
<1> HIDE DEF w
<1>3. Len(w) = a + 1 + b /\ (\A i \in 1..a : w[i] = x[i]) /\ w[a + 1] = Prose
  BY <1>1, <1>2
<1>4. \A j \in 1..b : w[j + (a + 1)] = y[j]
  BY <1>1, <1>2
<1>5. ~InTable(Prose)
  BY DEF InTable, Prose
<1>6. Within(x, w, 0)
  <2>1. 0 \in Nat /\ Len(w) >= Len(x) + 0 /\ \A j \in 1..Len(x) : w[j + 0] = x[j]
    BY <1>1, <1>3
  <2>2. Len(x) + 0 + 1 = a + 1
    BY <1>1
  <2> QED BY <1>3, <1>5, <2>1, <2>2 DEF Within
<1>7. Within(y, w, a + 1)
  <2>1. a + 1 \in Nat /\ Len(w) >= Len(y) + (a + 1) /\ Len(w) = Len(y) + (a + 1)
    BY <1>1, <1>3
  <2> QED BY <1>4, <2>1 DEF Within
<1>8. /\ sx \in Seq(Seq(L)) /\ Len(sx) = a /\ DOMAIN sx = 1..a
      /\ \A i \in 1..a : sx[i] = IF Begins(x, i) THEN TableAt(x, i) ELSE <<>>
  BY StartsType
<1>9. /\ sy \in Seq(Seq(L)) /\ Len(sy) = b /\ DOMAIN sy = 1..b
      /\ \A i \in 1..b : sy[i] = IF Begins(y, i) THEN TableAt(y, i) ELSE <<>>
  BY StartsType
<1>10. /\ sw \in Seq(Seq(L)) /\ Len(sw) = a + 1 + b /\ DOMAIN sw = 1..(a + 1 + b)
       /\ \A i \in 1..(a + 1 + b) : sw[i] = IF Begins(w, i) THEN TableAt(w, i) ELSE <<>>
  BY <1>2, <1>3, StartsType
<1> HIDE DEF sx, sy, sw, a, b
<1>11. ASSUME NEW i \in 1..a PROVE sw[i] = sx[i]
  <2>1. w[i] = x[i] /\ (i # 1 => w[i - 1] = x[i - 1])
    BY <1>1, <1>3
  <2>2. Begins(w, i) <=> Begins(x, i)
    BY <2>1 DEF Begins
  <2>3. ASSUME Begins(x, i) PROVE TableAt(w, i) = TableAt(x, i)
    <3>1. InTable(x[i])
      BY <2>3 DEF Begins
    <3>2. TableAt(w, i + 0) = TableAt(x, i)
      BY <1>2, <1>6, <3>1, SameTable DEF a
    <3>3. i + 0 = i
      BY <1>1
    <3> QED BY <3>2, <3>3
  <2>4. i \in 1..(a + 1 + b)
    BY <1>1
  <2> QED BY <1>8, <1>10, <2>2, <2>3, <2>4
<1>12. sw[a + 1] = <<>>
  <2>1. a + 1 \in 1..(a + 1 + b)
    BY <1>1
  <2>2. ~Begins(w, a + 1)
    BY <1>3, <1>5 DEF Begins
  <2> QED BY <1>10, <2>1, <2>2
<1>13. ASSUME NEW i \in 1..b PROVE sw[i + (a + 1)] = sy[i]
  <2> DEFINE k == i + (a + 1)
  <2>1. w[k] = y[i] /\ k # 1 /\ k \in 1..(a + 1 + b)
    BY <1>1, <1>4
  <2>2. i = 1 => ~InTable(w[k - 1])
    <3>1. i = 1 => k - 1 = a + 1
      BY <1>1
    <3> QED BY <1>3, <1>5, <3>1
  <2>3. i # 1 => w[k - 1] = y[i - 1]
    <3>1. i # 1 => i - 1 \in 1..b /\ (i - 1) + (a + 1) = k - 1
      BY <1>1
    <3> QED BY <1>4, <3>1
  <2> HIDE DEF k
  <2>4. Begins(w, k) <=> Begins(y, i)
    BY <2>1, <2>2, <2>3 DEF Begins
  <2>5. ASSUME Begins(y, i) PROVE TableAt(w, k) = TableAt(y, i)
    <3>1. InTable(y[i])
      BY <2>5 DEF Begins
    <3>2. TableAt(w, i + (a + 1)) = TableAt(y, i)
      <4> DEFINE d == a + 1
      <4>1. w \in Seq(L) /\ Within(y, w, d) /\ i \in 1..Len(y)
        BY <1>2, <1>7 DEF b
      <4> HIDE DEF d
      <4>2. TableAt(w, i + d) = TableAt(y, i)
        BY <3>1, <4>1, SameTable
      <4> QED BY <4>2 DEF d
    <3> QED BY <3>2 DEF k
  <2>6. sw[k] = sy[i]
    BY <1>9, <1>10, <2>1, <2>4, <2>5
  <2> QED BY <2>6 DEF k
<1> DEFINE T == Seq(L)
           hx == Append(sx, <<>>)
<1>14. sx \in Seq(T) /\ sy \in Seq(T) /\ sw \in Seq(T) /\ <<>> \in T
  BY <1>8, <1>9, <1>10, EmptySeq
<1> HIDE DEF T
<1>15. hx \in Seq(T) /\ Len(hx) = a + 1 /\ hx[a + 1] = <<>> /\ \A i \in 1..a : hx[i] = sx[i]
  BY <1>8, <1>14, AppendProperties
<1> HIDE DEF hx
<1>16. /\ hx \o sy \in Seq(T) /\ Len(hx \o sy) = (a + 1) + b
       /\ \A i \in 1..((a + 1) + b) : (hx \o sy)[i] = IF i <= a + 1 THEN hx[i] ELSE sy[i - (a + 1)]
  <2>1. hx \in Seq(T) /\ sy \in Seq(T) /\ Len(hx) = a + 1 /\ Len(sy) = b
    BY <1>9, <1>14, <1>15
  <2>2. /\ hx \o sy \in Seq(T) /\ Len(hx \o sy) = Len(hx) + Len(sy)
        /\ \A i \in 1..(Len(hx) + Len(sy)) : (hx \o sy)[i] = IF i <= Len(hx) THEN hx[i] ELSE sy[i - Len(hx)]
    BY ONLY <2>1, ConcatProperties
  <2> QED BY <2>1, <2>2
<1>17. sw = hx \o sy
  <2>1. ASSUME NEW i \in 1..Len(sw) PROVE sw[i] = (hx \o sy)[i]
    <3>0. i \in 1..((a + 1) + b)
      BY <1>1, <1>10
    <3>1. CASE i <= a
      <4>1. i \in 1..a /\ i <= a + 1
        BY <1>1, <3>0, <3>1
      <4> QED BY <1>11, <1>15, <1>16, <3>0, <4>1
    <3>2. CASE i = a + 1
      BY <1>1, <1>12, <1>15, <1>16, <3>0, <3>2
    <3>3. CASE i > a + 1
      <4>1. i - (a + 1) \in 1..b /\ (i - (a + 1)) + (a + 1) = i /\ ~(i <= a + 1)
        BY <1>1, <3>0, <3>3
      <4>2. sw[i] = sy[i - (a + 1)]
        BY <1>13, <4>1
      <4> QED BY <1>16, <3>0, <4>1, <4>2
    <3>4. i <= a \/ i = a + 1 \/ i > a + 1
      BY ONLY <1>1, <3>0
    <3> QED BY <3>1, <3>2, <3>3, <3>4
  <2> QED BY <1>1, <1>10, <1>14, <1>16, <2>1, SeqEqual
<1> DEFINE p == Long(sw)
<1>18. EntriesAt(sw, p) = EntriesAt(hx, p) \o EntriesAt(sy, Long(sy))
  <2>1. ASSUME NEW i \in 1..Len(sy) PROVE i \in Long(sy) <=> Len(hx) + i \in p
    <3>1. Len(hx) + i \in 1..(a + 1 + b) /\ Len(hx) + i = i + (a + 1) /\ i \in 1..b
      BY <1>1, <1>9, <1>15
    <3>2. sw[Len(hx) + i] = sy[i]
      BY <1>13, <3>1
    <3> QED BY <1>9, <1>10, <3>1, <3>2 DEF Long
  <2> DEFINE q == Long(sy)
  <2>2. hx \in Seq(T) /\ sy \in Seq(T) /\ \A i \in 1..Len(sy) : i \in q <=> Len(hx) + i \in p
    BY <1>14, <1>15, <2>1
  <2> HIDE DEF p, q
  <2>3. EntriesAt(hx \o sy, p) = EntriesAt(hx, p) \o EntriesAt(sy, q)
    BY ONLY <2>2, EntriesConcat
  <2> QED BY <1>17, <2>3 DEF q
<1>19. EntriesAt(hx, p) = EntriesAt(sx, p)
  <2>1. a + 1 \notin p
    <3>1. Len(<<>>) = 0
      BY EmptySeq
    <3> QED BY <1>12, <3>1 DEF Long
  <2>2. sx \in Seq(T) /\ <<>> \in T /\ Len(sx) + 1 \notin p
    BY <1>8, <1>14, <2>1
  <2> HIDE DEF p
  <2>3. EntriesAt(Append(sx, <<>>), p) = EntriesAt(sx, p)
    BY ONLY <2>2, EntriesAppend
  <2> QED BY <2>3 DEF hx
<1>20. EntriesAt(sx, p) = EntriesAt(sx, Long(sx))
  <2>1. \A i \in 1..Len(sx) : i \in p <=> i \in Long(sx)
    BY <1>1, <1>8, <1>10, <1>11, SMTT(30) DEF Long
  <2> HIDE DEF p
  <2> QED BY <1>14, <2>1, EntriesSame
<1>22. Tables(w) = EntriesAt(sw, p) /\ Tables(x) = EntriesAt(sx, Long(sx)) /\ Tables(y) = EntriesAt(sy, Long(sy))
  BY <1>2, TablesAre DEF sw, sx, sy
<1>23. Tables(w) = Tables(x) \o Tables(y)
  BY <1>18, <1>19, <1>20, <1>22
<1> QED BY <1>23 DEF w, h

------------------------------------------------------------------------------
(****************************************************************************)
(* The promises and the functions of texts glued together.                   *)
(****************************************************************************)
FunctionsFrom(L) == {FunctionOf(line.cells) : line \in L}

LEMMA FunctionsOfType ==
  ASSUME NEW L, NEW table \in Seq(L)
  PROVE  FunctionsOf(table) \in Seq(FunctionsFrom(L))
<1> DEFINE F == FunctionsFrom(L)
           m == Len(table) - 1
           f == [i \in 1..m |-> FunctionOf(table[i + 1].cells)]
<1>1. Len(table) \in Nat
  BY LenProperties
<1>2. ASSUME NEW i \in 1..m PROVE FunctionOf(table[i + 1].cells) \in F
  <2>1. i + 1 \in 1..Len(table)
    BY <1>1
  <2>2. table[i + 1] \in L
    BY <2>1, ElementOfSeq
  <2> QED BY <2>2 DEF FunctionsFrom
<1>3. f \in Seq(F)
  <2> HIDE DEF F
  <2>1. CASE Len(table) = 0
    <3>1. 1..m = 1..0 /\ 0 \in Nat
      BY <1>1, <2>1
    <3>2. f \in [1..0 -> F]
      BY <1>2, <3>1
    <3> HIDE DEF f
    <3> QED BY <3>1, <3>2, FunctionSeq
  <2>2. CASE Len(table) # 0
    <3>1. m \in Nat /\ f \in [1..m -> F]
      BY <1>1, <1>2, <2>2
    <3> HIDE DEF f, m
    <3> QED BY <3>1, FunctionSeq
  <2> QED BY <2>1, <2>2
<1> DEFINE places == {i \in DOMAIN f : f[i].id # Blank}
<1>4. FunctionsOf(table) = IF table[1].cells # FunctionHeader THEN <<>> ELSE EntriesAt(f, places)
  BY DEF FunctionsOf
<1> HIDE DEF f, F, places
<1>5. EntriesAt(f, places) \in Seq(F) /\ <<>> \in Seq(F)
  BY <1>3, EntriesType, EmptySeq
<1> QED BY <1>4, <1>5 DEF F

FunctionLists(tables) == [n \in DOMAIN tables |-> FunctionsOf(tables[n])]

LEMMA FunctionListsType ==
  ASSUME NEW L, NEW s \in Seq(Seq(L))
  PROVE  /\ FunctionLists(s) \in Seq(Seq(FunctionsFrom(L))) /\ Len(FunctionLists(s)) = Len(s)
         /\ \A n \in 1..Len(s) : FunctionLists(s)[n] = FunctionsOf(s[n])
<1> DEFINE T == Seq(L)
           R == Seq(FunctionsFrom(L))
           k == Len(s)
           f == FunctionLists(s)
<1>0. s \in Seq(T)
  OBVIOUS
<1>1. \A table \in T : FunctionsOf(table) \in R
  BY FunctionsOfType
<1> HIDE DEF T, R
<1>2. k \in Nat /\ DOMAIN s = 1..k /\ \A n \in 1..k : s[n] \in T
  BY <1>0, LenProperties, ElementOfSeq
<1>3. f \in [1..k -> R] /\ \A n \in 1..k : f[n] = FunctionsOf(s[n])
  BY <1>1, <1>2 DEF FunctionLists
<1> HIDE DEF f, k
<1>4. f \in Seq(R) /\ Len(f) = k
  BY <1>2, <1>3, FunctionSeq
<1> QED BY <1>3, <1>4 DEF R, f, k

LEMMA FunctionListsJoin ==
  ASSUME NEW L, NEW s \in Seq(Seq(L)), NEW t \in Seq(Seq(L))
  PROVE  FunctionLists(s \o t) = FunctionLists(s) \o FunctionLists(t)
<1> DEFINE T == Seq(L)
           R == Seq(FunctionsFrom(L))
           w == s \o t
           fs == FunctionLists(s)
           ft == FunctionLists(t)
           fw == FunctionLists(w)
<1>1. fs \in Seq(R) /\ Len(fs) = Len(s) /\ \A n \in 1..Len(s) : fs[n] = FunctionsOf(s[n])
  BY FunctionListsType
<1>2. ft \in Seq(R) /\ Len(ft) = Len(t) /\ \A n \in 1..Len(t) : ft[n] = FunctionsOf(t[n])
  BY FunctionListsType
<1>3. /\ w \in Seq(T) /\ Len(w) = Len(s) + Len(t)
      /\ \A n \in 1..(Len(s) + Len(t)) : w[n] = IF n <= Len(s) THEN s[n] ELSE t[n - Len(s)]
      /\ Len(s) \in Nat /\ Len(t) \in Nat
  <2>1. s \in Seq(T) /\ t \in Seq(T)
    OBVIOUS
  <2> HIDE DEF T
  <2> QED BY <2>1, ConcatProperties, LenProperties
<1>4. fw \in Seq(R) /\ Len(fw) = Len(w) /\ \A n \in 1..Len(w) : fw[n] = FunctionsOf(w[n])
  <2> HIDE DEF w
  <2> QED BY <1>3, FunctionListsType
<1> HIDE DEF R, w, fs, ft, fw
<1>5. /\ fs \o ft \in Seq(R) /\ Len(fs \o ft) = Len(fs) + Len(ft)
      /\ \A n \in 1..(Len(fs) + Len(ft)) : (fs \o ft)[n] = IF n <= Len(fs) THEN fs[n] ELSE ft[n - Len(fs)]
  <2>1. fs \in Seq(R) /\ ft \in Seq(R)
    BY <1>1, <1>2
  <2> QED BY ONLY <2>1, ConcatProperties
<1>6. ASSUME NEW n \in 1..Len(fw) PROVE fw[n] = (fs \o ft)[n]
  <2>0. n \in 1..(Len(s) + Len(t)) /\ n \in 1..Len(w)
    BY <1>3, <1>4
  <2>1. CASE n <= Len(s)
    <3>1. n \in 1..Len(s) /\ w[n] = s[n] /\ (fs \o ft)[n] = fs[n]
      BY <1>1, <1>2, <1>3, <1>5, <2>0, <2>1
    <3> QED BY <1>1, <1>4, <2>0, <3>1
  <2>2. CASE ~(n <= Len(s))
    <3>1. n - Len(s) \in 1..Len(t) /\ w[n] = t[n - Len(s)] /\ (fs \o ft)[n] = ft[n - Len(s)]
      BY <1>1, <1>2, <1>3, <1>5, <2>0, <2>2, SMTT(30)
    <3> QED BY <1>2, <1>4, <2>0, <3>1
  <2> QED BY <2>1, <2>2
<1>7. fw = fs \o ft
  BY <1>1, <1>2, <1>3, <1>4, <1>5, <1>6, SeqEqual
<1> QED BY <1>7 DEF w, fs, ft, fw

LEMMA FunctionsInIs ==
  ASSUME NEW L, NEW text \in Seq(L)
  PROVE  FunctionsIn(text) = FlattenSeq(FunctionLists(Tables(text))) /\ FunctionsIn(text) \in Seq(FunctionsFrom(L))
<1>1. FunctionsIn(text) = FlattenSeq(FunctionLists(Tables(text)))
  BY DEF FunctionsIn, FunctionLists
<1>2. Tables(text) \in Seq(Seq(L))
  BY TablesAre
<1>3. FunctionLists(Tables(text)) \in Seq(Seq(FunctionsFrom(L)))
  BY <1>2, FunctionListsType
<1> QED BY <1>1, <1>3, FlatType

LEMMA FunctionsInJoin ==
  ASSUME NEW L, Prose \in L, NEW x \in Seq(L), NEW y \in Seq(L)
  PROVE  FunctionsIn(Append(x, Prose) \o y) = FunctionsIn(x) \o FunctionsIn(y)
<1> DEFINE w == Append(x, Prose) \o y
           tx == Tables(x)
           ty == Tables(y)
           F == FunctionsFrom(L)
<1>1. w \in Seq(L)
  BY AppendProperties, ConcatProperties
<1>2. Tables(w) = tx \o ty /\ tx \in Seq(Seq(L)) /\ ty \in Seq(Seq(L))
  BY TablesJoin, TablesAre
<1> HIDE DEF w, tx, ty
<1>3. FunctionLists(tx \o ty) = FunctionLists(tx) \o FunctionLists(ty)
  BY <1>2, FunctionListsJoin
<1>4. FunctionLists(tx) \in Seq(Seq(F)) /\ FunctionLists(ty) \in Seq(Seq(F))
  BY <1>2, FunctionListsType
<1>5. FlattenSeq(FunctionLists(tx) \o FunctionLists(ty)) = FlattenSeq(FunctionLists(tx)) \o FlattenSeq(FunctionLists(ty))
  <2> HIDE DEF F
  <2> QED BY <1>4, FlatConcat
<1>6. FunctionsIn(w) = FlattenSeq(FunctionLists(Tables(w))) /\ FunctionsIn(x) = FlattenSeq(FunctionLists(tx))
      /\ FunctionsIn(y) = FlattenSeq(FunctionLists(ty))
  BY <1>1, FunctionsInIs DEF tx, ty
<1>7. FunctionsIn(w) = FunctionsIn(x) \o FunctionsIn(y)
  BY <1>2, <1>3, <1>5, <1>6
<1> QED BY <1>7 DEF w

PromisesIn(text) == UNION {PromisesOf(table) : table \in ToSet(Tables(text))}

LEMMA PromisesInJoin ==
  ASSUME NEW L, Prose \in L, NEW x \in Seq(L), NEW y \in Seq(L)
  PROVE  PromisesIn(Append(x, Prose) \o y) = PromisesIn(x) \cup PromisesIn(y)
<1> DEFINE w == Append(x, Prose) \o y
           tx == Tables(x)
           ty == Tables(y)
           tw == Tables(w)
           T == Seq(L)
<1>1. tw = tx \o ty /\ tx \in Seq(T) /\ ty \in Seq(T)
  BY TablesJoin, TablesAre
<1> HIDE DEF w, tx, ty, tw, T
<1>2. /\ tw \in Seq(T) /\ Len(tw) = Len(tx) + Len(ty)
      /\ \A i \in 1..(Len(tx) + Len(ty)) : tw[i] = IF i <= Len(tx) THEN tx[i] ELSE ty[i - Len(tx)]
  BY <1>1, ConcatProperties
<1>3. /\ Len(tx) \in Nat /\ Len(ty) \in Nat
      /\ DOMAIN tx = 1..Len(tx) /\ DOMAIN ty = 1..Len(ty) /\ DOMAIN tw = 1..Len(tw)
  BY <1>1, <1>2, LenProperties
<1>4. ASSUME NEW table \in ToSet(tw) PROVE table \in ToSet(tx) \cup ToSet(ty)
  <2>1. PICK i \in 1..Len(tw) : tw[i] = table
    BY <1>3, <1>4 DEF ToSet
  <2>2. CASE i <= Len(tx)
    <3>1. i \in 1..Len(tx) /\ tw[i] = tx[i]
      BY <1>2, <1>3, <2>2
    <3> QED BY <1>3, <2>1, <3>1 DEF ToSet
  <2>3. CASE ~(i <= Len(tx))
    <3>1. i - Len(tx) \in 1..Len(ty) /\ tw[i] = ty[i - Len(tx)]
      BY <1>2, <1>3, <2>3
    <3> QED BY <1>3, <2>1, <3>1 DEF ToSet
  <2> QED BY <2>2, <2>3
<1>5. ASSUME NEW table \in ToSet(tx) PROVE table \in ToSet(tw)
  <2>1. PICK i \in 1..Len(tx) : tx[i] = table
    BY <1>3, <1>5 DEF ToSet
  <2>2. i \in 1..Len(tw) /\ tw[i] = tx[i]
    BY <1>2, <1>3
  <2> QED BY <1>3, <2>1, <2>2 DEF ToSet
<1>6. ASSUME NEW table \in ToSet(ty) PROVE table \in ToSet(tw)
  <2>1. PICK i \in 1..Len(ty) : ty[i] = table
    BY <1>3, <1>6 DEF ToSet
  <2>2. Len(tx) + i \in 1..Len(tw) /\ ~(Len(tx) + i <= Len(tx)) /\ (Len(tx) + i) - Len(tx) = i
    BY <1>2, <1>3
  <2>3. tw[Len(tx) + i] = ty[i]
    BY <1>2, <2>2
  <2> QED BY <1>3, <2>1, <2>2, <2>3 DEF ToSet
<1>7. ToSet(tw) = ToSet(tx) \cup ToSet(ty)
  BY <1>4, <1>5, <1>6
<1>8. PromisesIn(w) = PromisesIn(x) \cup PromisesIn(y)
  BY <1>7 DEF PromisesIn, tw, tx, ty
<1> QED BY <1>8 DEF w

LEMMA NothingIn ==
  /\ FunctionsIn(<<>>) = <<>> /\ PromisesIn(<<>>) = {}
<1>1. <<>> \in Seq({}) /\ Len(<<>>) = 0
  BY EmptySeq
<1>2. Starts(<<>>) \in Seq(Seq({})) /\ Len(Starts(<<>>)) = 0
  BY <1>1, StartsType
<1>3. Starts(<<>>) = <<>>
  BY <1>2, EmptySeq
<1>4. Tables(<<>>) = <<>>
  BY <1>1, <1>3, TablesAre, EntriesEmpty
<1>5. FunctionLists(<<>>) \in Seq(Seq(FunctionsFrom({}))) /\ Len(FunctionLists(<<>>)) = 0
  BY <1>1, FunctionListsType, EmptySeq
<1>6. FunctionLists(<<>>) = <<>>
  BY <1>5, EmptySeq
<1>7. FunctionsIn(<<>>) = <<>>
  BY <1>1, <1>4, <1>6, FunctionsInIs, FlatEmpty
<1>8. ToSet(<<>>) = {}
  BY <1>1, LenProperties DEF ToSet
<1> QED BY <1>4, <1>7, <1>8 DEF PromisesIn

LEMMA GlueOne ==
  ASSUME NEW L, Prose \in L, NEW texts \in Seq(Seq(L)), NEW x \in Seq(L)
  PROVE  Glue(Append(texts, x)) = Glue(texts) \o Append(x, Prose) /\ Glue(texts) \in Seq(L)
<1> DEFINE T == Seq(L)
           ended(t) == [n \in DOMAIN t |-> Append(t[n], Prose)]
           w == Append(texts, x)
           k == Len(texts)
<1>0. texts \in Seq(T) /\ x \in T /\ \A t \in T : Append(t, Prose) \in T
  BY AppendProperties
<1> HIDE DEF T
<1>1. ASSUME NEW t \in Seq(T)
      PROVE  ended(t) \in Seq(T) /\ Len(ended(t)) = Len(t) /\ \A n \in 1..Len(t) : ended(t)[n] = Append(t[n], Prose)
  <2>1. Len(t) \in Nat /\ DOMAIN t = 1..Len(t) /\ \A n \in 1..Len(t) : t[n] \in T
    BY LenProperties, ElementOfSeq
  <2>2. ended(t) \in [1..Len(t) -> T]
    BY <1>0, <2>1
  <2>3. ended(t) \in Seq(T) /\ Len(ended(t)) = Len(t)
    <3> DEFINE f == ended(t)
    <3>1. f \in [1..Len(t) -> T]
      BY <2>2
    <3> HIDE DEF f
    <3>2. f \in Seq(T) /\ Len(f) = Len(t)
      BY <2>1, <3>1, FunctionSeq
    <3> QED BY <3>2 DEF f
  <2> QED BY <2>1, <2>3
<1>2. /\ w \in Seq(T) /\ Len(w) = k + 1 /\ w[k + 1] = x /\ k \in Nat
      /\ \A n \in 1..k : w[n] = texts[n]
  BY <1>0, AppendProperties, LenProperties
<1> DEFINE e == ended(texts)
           ew == ended(w)
           last == Append(x, Prose)
<1>3. e \in Seq(T) /\ Len(e) = k /\ \A n \in 1..k : e[n] = Append(texts[n], Prose)
  BY <1>0, <1>1
<1>4. ew \in Seq(T) /\ Len(ew) = k + 1 /\ \A n \in 1..(k + 1) : ew[n] = Append(w[n], Prose)
  BY <1>1, <1>2
<1>5. Glue(texts) = FlattenSeq(e) /\ Glue(w) = FlattenSeq(ew)
  BY DEF Glue
<1>6. last \in T
  BY <1>0
<1> HIDE DEF e, ew, w, k, last
<1>7. /\ Append(e, last) \in Seq(T) /\ Len(Append(e, last)) = k + 1 /\ Append(e, last)[k + 1] = last
      /\ \A n \in 1..k : Append(e, last)[n] = e[n]
  BY <1>3, <1>6, AppendProperties
<1>8. ASSUME NEW n \in 1..(k + 1) PROVE ew[n] = Append(e, last)[n]
  <2>1. CASE n = k + 1
    BY <1>2, <1>4, <1>7, <2>1 DEF last
  <2>2. CASE n # k + 1
    <3>1. n \in 1..k
      BY <1>2, <2>2
    <3> QED BY <1>2, <1>3, <1>4, <1>7, <3>1
  <2> QED BY <2>1, <2>2
<1>9. ew = Append(e, last)
  BY <1>4, <1>7, <1>8, SeqEqual
<1>10. e \in Seq(Seq(L)) /\ last \in Seq(L)
  BY <1>3, <1>6 DEF T
<1>11. FlattenSeq(Append(e, last)) = FlattenSeq(e) \o last /\ FlattenSeq(e) \in Seq(L)
  BY <1>10, FlatAppend, FlatType
<1> QED BY <1>5, <1>9, <1>11 DEF w, last

LEMMA OneEnded ==
  ASSUME NEW L, Prose \in L, NEW x \in Seq(L)
  PROVE  /\ Append(x, Prose) \in Seq(L)
         /\ FunctionsIn(Append(x, Prose)) = FunctionsIn(x)
         /\ PromisesIn(Append(x, Prose)) = PromisesIn(x)
<1> DEFINE px == Append(x, Prose)
           nothing == <<>>
<1>1. px \in Seq(L) /\ nothing \in Seq(L)
  BY EmptySeq, AppendProperties
<1>2. FunctionsIn(nothing) = nothing /\ PromisesIn(nothing) = {}
  BY NothingIn
<1>3. FunctionsIn(x) \o nothing = FunctionsIn(x) /\ px \o nothing = px
  BY <1>1, FunctionsInIs, ConcatEmptySeq
<1> HIDE DEF nothing
<1>4. FunctionsIn(px \o nothing) = FunctionsIn(x) \o FunctionsIn(nothing)
  BY <1>1, FunctionsInJoin
<1>5. PromisesIn(px \o nothing) = PromisesIn(x) \cup PromisesIn(nothing)
  BY <1>1, PromisesInJoin
<1> HIDE DEF px
<1>6. FunctionsIn(px) = FunctionsIn(x)
  BY <1>2, <1>3, <1>4
<1>7. PromisesIn(px) = PromisesIn(x)
  BY <1>2, <1>3, <1>5
<1> QED BY <1>1, <1>6, <1>7 DEF px

\* Two files, and three.
Holds(text, functions, promises) == FunctionsIn(text) = functions /\ PromisesIn(text) = promises

LEMMA GlueTwo ==
  ASSUME NEW L, Prose \in L, NEW x \in Seq(L), NEW y \in Seq(L)
  PROVE  /\ Glue(<<x, y>>) = Append(x, Prose) \o Append(y, Prose)
         /\ Holds(Glue(<<x, y>>), FunctionsIn(x) \o FunctionsIn(y), PromisesIn(x) \cup PromisesIn(y))
<1> DEFINE px == Append(x, Prose)
           py == Append(y, Prose)
<1>1. /\ <<>> \in Seq(Seq(L)) /\ <<x>> \in Seq(Seq(L)) /\ <<x>> = Append(<<>>, x) /\ <<x, y>> = Append(<<x>>, y)
      /\ <<x, y>> \in Seq(Seq(L)) /\ px \in Seq(L) /\ py \in Seq(L) /\ <<>> \in Seq(L)
  BY EmptySeq, AppendProperties
<1>2. Glue(<<>>) = <<>>
  <2>1. DOMAIN <<>> = {}
    BY EmptySeq, LenProperties
  <2>2. [n \in DOMAIN <<>> |-> Append(<<>>[n], Prose)] = <<>>
    BY <2>1
  <2> QED BY <2>2, FlatEmpty DEF Glue
<1>3. Glue(<<x>>) = <<>> \o px
  BY <1>1, <1>2, GlueOne
<1>4. Glue(<<x>>) = px
  BY <1>1, <1>3, ConcatEmptySeq
<1>5. Glue(<<x, y>>) = px \o py
  BY <1>1, <1>4, GlueOne
<1>6. FunctionsIn(py) = FunctionsIn(y) /\ PromisesIn(py) = PromisesIn(y)
  BY OneEnded
<1>7. FunctionsIn(px \o py) = FunctionsIn(x) \o FunctionsIn(py) /\ PromisesIn(px \o py) = PromisesIn(x) \cup PromisesIn(py)
  <2> HIDE DEF py
  <2> QED BY <1>1, FunctionsInJoin, PromisesInJoin
<1> HIDE DEF px, py
<1>9. FunctionsIn(px \o py) = FunctionsIn(x) \o FunctionsIn(y) /\ PromisesIn(px \o py) = PromisesIn(x) \cup PromisesIn(y)
  BY <1>6, <1>7
<1> QED BY <1>5, <1>9 DEF px, py, Holds

LEMMA GlueThree ==
  ASSUME NEW L, Prose \in L, NEW x \in Seq(L), NEW y \in Seq(L), NEW z \in Seq(L)
  PROVE  Holds(Glue(<<x>> \o <<y, z>>), (FunctionsIn(x) \o FunctionsIn(y)) \o FunctionsIn(z),
               (PromisesIn(x) \cup PromisesIn(y)) \cup PromisesIn(z))
<1> DEFINE px == Append(x, Prose)
           py == Append(y, Prose)
           pz == Append(z, Prose)
           F == FunctionsFrom(L)
<1>1. <<x>> \o <<y, z>> = Append(<<x, y>>, z) /\ <<x, y>> \in Seq(Seq(L))
  OBVIOUS
<1>2. px \in Seq(L) /\ py \in Seq(L) /\ pz \in Seq(L)
  BY AppendProperties
<1>3. Glue(Append(<<x, y>>, z)) = Glue(<<x, y>>) \o pz
  BY <1>1, GlueOne
<1>4. Glue(<<x, y>>) = px \o py
  BY GlueTwo
<1> HIDE DEF px, py, pz
<1>5. (px \o py) \o pz = px \o (py \o pz) /\ py \o pz \in Seq(L)
  BY ONLY <1>2, ConcatAssociative, ConcatProperties, SMTT(30)
<1>6. FunctionsIn(py \o pz) = FunctionsIn(y) \o FunctionsIn(pz) /\ PromisesIn(py \o pz) = PromisesIn(y) \cup PromisesIn(pz)
  <2>1. FunctionsIn(Append(y, Prose) \o pz) = FunctionsIn(y) \o FunctionsIn(pz)
    BY <1>2, FunctionsInJoin
  <2>2. PromisesIn(Append(y, Prose) \o pz) = PromisesIn(y) \cup PromisesIn(pz)
    BY <1>2, PromisesInJoin
  <2> QED BY <2>1, <2>2 DEF py
<1>7. FunctionsIn(pz) = FunctionsIn(z) /\ PromisesIn(pz) = PromisesIn(z)
  BY OneEnded DEF pz
<1> DEFINE w == py \o pz
<1>8. FunctionsIn(px \o w) = FunctionsIn(x) \o FunctionsIn(w) /\ PromisesIn(px \o w) = PromisesIn(x) \cup PromisesIn(w)
  <2>1. w \in Seq(L)
    BY <1>5
  <2> HIDE DEF w
  <2> QED BY <2>1, FunctionsInJoin, PromisesInJoin, SMTT(30) DEF px
<1>9. FunctionsIn(x) \in Seq(F) /\ FunctionsIn(y) \in Seq(F) /\ FunctionsIn(z) \in Seq(F)
  BY FunctionsInIs
<1> DEFINE a == FunctionsIn(x)
           b == FunctionsIn(y)
           c == FunctionsIn(z)
<1>10. a \o (b \o c) = (a \o b) \o c
  <2>1. a \in Seq(F) /\ b \in Seq(F) /\ c \in Seq(F)
    BY <1>9
  <2> HIDE DEF a, b, c, F
  <2> QED BY ONLY <2>1, ConcatAssociative, SMTT(30)
<1>11. Glue(<<x>> \o <<y, z>>) = px \o w
  BY <1>1, <1>3, <1>4, <1>5
<1>12. FunctionsIn(w) = b \o c /\ PromisesIn(w) = PromisesIn(y) \cup PromisesIn(z)
  BY <1>6, <1>7
<1> HIDE DEF w
<1>13. FunctionsIn(px \o w) = a \o (b \o c)
  BY <1>8, <1>12
<1>14. PromisesIn(px \o w) = PromisesIn(x) \cup (PromisesIn(y) \cup PromisesIn(z))
  BY <1>8, <1>12
<1> QED BY <1>10, <1>11, <1>13, <1>14 DEF Holds

------------------------------------------------------------------------------
(****************************************************************************)
(* The gated rows and the rows of the machine form: one list, but for the    *)
(* sources of its rows and for the repeated identifiers.                     *)
(****************************************************************************)
IsRow(f) ==
  f = [id |-> f.id, governor |-> f.governor, promise |-> f.promise, trace |-> f.trace, surface |-> f.surface,
       enforcement |-> f.enforcement, dependencies |-> f.dependencies, owner |-> f.owner, source |-> f.source]
SameRow(f, g) ==
  /\ f.id = g.id /\ f.governor = g.governor /\ f.promise = g.promise /\ f.trace = g.trace
  /\ f.surface = g.surface /\ f.enforcement = g.enforcement /\ f.owner = g.owner

LEMMA RowOf ==
  \A cells : IsRow(FunctionOf(cells))
BY DEF IsRow, FunctionOf

LEMMA SourcedRow ==
  ASSUME NEW f, IsRow(f), NEW s
  PROVE  IsRow([f EXCEPT !.source = s]) /\ SameRow([f EXCEPT !.source = s], f)
<1> DEFINE g == [f EXCEPT !.source = s]
<1>1. g = [id |-> f.id, governor |-> f.governor, promise |-> f.promise, trace |-> f.trace, surface |-> f.surface,
           enforcement |-> f.enforcement, dependencies |-> f.dependencies, owner |-> f.owner, source |-> s]
  BY DEF IsRow
<1> HIDE DEF g
<1>2. IsRow(g) /\ SameRow(g, f)
  BY <1>1 DEF IsRow, SameRow
<1> QED BY <1>2 DEF g

\* A list of rows that is another but for the sources.
Rows(r) == \A i \in DOMAIN r : IsRow(r[i])
SameRows(r, n, h) == DOMAIN r = 1..n /\ Rows(r) /\ \A i \in 1..n : SameRow(r[i], h[i])

LEMMA RowsFrom ==
  ASSUME NEW L, NEW h \in Seq(FunctionsFrom(L))
  PROVE  Rows(h) /\ DOMAIN h = 1..Len(h) /\ Len(h) \in Nat
<1>1. DOMAIN h = 1..Len(h) /\ Len(h) \in Nat /\ \A i \in 1..Len(h) : h[i] \in FunctionsFrom(L)
  BY LenProperties, ElementOfSeq
<1>2. \A f \in FunctionsFrom(L) : IsRow(f)
  BY RowOf DEF FunctionsFrom
<1> QED BY <1>1, <1>2 DEF Rows

LEMMA SourcedRows ==
  ASSUME NEW h, NEW n \in Nat, Rows(h), DOMAIN h = 1..n, NEW s
  PROVE  /\ SameRows(Sourced(h, s), n, h)
         /\ \E R : Sourced(h, s) \in Seq(R) /\ Len(Sourced(h, s)) = n
<1> DEFINE r == Sourced(h, s)
<1>1. r = [i \in 1..n |-> [h[i] EXCEPT !.source = s]]
  BY DEF Sourced
<1>2. \A i \in 1..n : r[i] = [h[i] EXCEPT !.source = s]
  BY <1>1
<1>3. \A i \in 1..n : IsRow(r[i]) /\ SameRow(r[i], h[i])
  <2> TAKE i \in 1..n
  <2>1. IsRow(h[i])
    BY DEF Rows
  <2>2. IsRow([h[i] EXCEPT !.source = s]) /\ SameRow([h[i] EXCEPT !.source = s], h[i])
    BY <2>1, SourcedRow
  <2> QED BY <1>2, <2>2
<1>4. DOMAIN r = 1..n
  BY <1>1
<1> DEFINE R == {r[i] : i \in 1..n}
<1>5. r \in [1..n -> R]
  <2>1. \A i \in 1..n : r[i] \in R
    OBVIOUS
  <2> HIDE DEF R
  <2> QED BY <1>1, <2>1
<1> HIDE DEF r, R
<1>6. r \in Seq(R) /\ Len(r) = n
  BY <1>5, FunctionSeq
<1> QED BY <1>3, <1>4, <1>6 DEF SameRows, Rows, r

PartsOf(x, y, z) == (FunctionsIn(x) \o FunctionsIn(y)) \o FunctionsIn(z)
PromisesInAll(x, y, z) == (PromisesIn(x) \cup PromisesIn(y)) \cup PromisesIn(z)

LEMMA PartsFacts ==
  ASSUME NEW L, NEW x \in Seq(L), NEW y \in Seq(L), NEW z \in Seq(L)
  PROVE  /\ FunctionsIn(x) \o FunctionsIn(y) \in Seq(FunctionsFrom(L))
         /\ PartsOf(x, y, z) \in Seq(FunctionsFrom(L))
<1> DEFINE F == FunctionsFrom(L)
<1>1. FunctionsIn(x) \in Seq(F) /\ FunctionsIn(y) \in Seq(F) /\ FunctionsIn(z) \in Seq(F)
  BY FunctionsInIs
<1> HIDE DEF F
<1>2. FunctionsIn(x) \o FunctionsIn(y) \in Seq(F)
  BY <1>1, ConcatProperties
<1> DEFINE a == FunctionsIn(x) \o FunctionsIn(y)
<1> HIDE DEF a
<1>3. a \in Seq(F)
  BY <1>2 DEF a
<1>4. a \o FunctionsIn(z) \in Seq(F)
  BY <1>1, <1>3, ConcatProperties
<1> QED BY <1>2, <1>4 DEF PartsOf, F, a

LEMMA GatedIs ==
  ASSUME NEW L, Prose \in L, NEW x \in Seq(L), NEW y \in Seq(L), NEW z \in Seq(L)
  PROVE  /\ ParseSource(x, <<y, z>>).promises = PromisesInAll(x, y, z)
         /\ SameRows(ParseSource(x, <<y, z>>).functions, Len(PartsOf(x, y, z)), PartsOf(x, y, z))
<1> DEFINE h == PartsOf(x, y, z)
           n == Len(h)
           all == ParseText(Glue(<<x>> \o <<y, z>>), "v0.md")
           r == Sourced(h, "v0.md")
           gated == ParseSource(x, <<y, z>>)
<1>1. FunctionsIn(Glue(<<x>> \o <<y, z>>)) = h /\ PromisesIn(Glue(<<x>> \o <<y, z>>)) = PromisesInAll(x, y, z)
  <2>1. Holds(Glue(<<x>> \o <<y, z>>), (FunctionsIn(x) \o FunctionsIn(y)) \o FunctionsIn(z),
              (PromisesIn(x) \cup PromisesIn(y)) \cup PromisesIn(z))
    BY GlueThree
  <2> QED BY <2>1 DEF Holds, PartsOf, PromisesInAll
<1>2. all.promises = PromisesInAll(x, y, z) /\ all.functions = r
  BY <1>1 DEF ParseText, PromisesIn
<1>3. Rows(h) /\ DOMAIN h = 1..n /\ n \in Nat
  BY PartsFacts, RowsFrom
<1>4. SameRows(r, n, h)
  <2> HIDE DEF h, n
  <2> QED BY <1>3, SourcedRows
<1> HIDE DEF all, r, h, n
<1> DEFINE inside == {f.id : f \in UNION {ToSet(ParseText(<<y, z>>[k], "supplement").functions) : k \in DOMAIN <<y, z>>}}
           source(i) == IF all.functions[i].id \in inside THEN "supplement" ELSE all.functions[i].source
<1>5. /\ gated.promises = all.promises
      /\ gated.functions = [i \in DOMAIN all.functions |-> [all.functions[i] EXCEPT !.source = source(i)]]
  BY DEF ParseSource, all
<1> HIDE DEF inside, gated
<1>6. DOMAIN gated.functions = 1..n /\ \A i \in 1..n : gated.functions[i] = [r[i] EXCEPT !.source = source(i)]
  <2>1. DOMAIN r = 1..n
    BY <1>4 DEF SameRows
  <2> HIDE DEF source
  <2> QED BY <1>2, <1>5, <2>1
<1>7. ASSUME NEW i \in 1..n PROVE IsRow(gated.functions[i]) /\ SameRow(gated.functions[i], h[i])
  <2>1. IsRow(r[i]) /\ SameRow(r[i], h[i])
    BY <1>4 DEF SameRows, Rows
  <2> DEFINE s == source(i)
             g == [r[i] EXCEPT !.source = s]
  <2>2. gated.functions[i] = g
    BY <1>6
  <2> HIDE DEF s
  <2>3. IsRow(g) /\ SameRow(g, r[i])
    BY <2>1, SourcedRow
  <2> HIDE DEF g
  <2> QED BY <2>1, <2>2, <2>3 DEF SameRow
<1>8. SameRows(gated.functions, n, h)
  BY <1>6, <1>7 DEF SameRows, Rows
<1> QED BY <1>2, <1>5, <1>8 DEF gated, h, n

LEMMA FlatTwo ==
  ASSUME NEW S, NEW s \in Seq(S), NEW t \in Seq(S)
  PROVE  FlattenSeq(<<s, t>>) = s \o t
<1>1. <<s>> \in Seq(Seq(S)) /\ <<s, t>> = Append(<<s>>, t)
  OBVIOUS
<1>2. FlattenSeq(Append(<<s>>, t)) = FlattenSeq(<<s>>) \o t
  BY <1>1, FlatAppend
<1> QED BY <1>1, <1>2, FlatOne

LEMMA FormIs ==
  ASSUME NEW L, Prose \in L, NEW x \in Seq(L), NEW y \in Seq(L), NEW z \in Seq(L)
  PROVE  /\ ParseV1(Glue(<<x, y>>), <<z>>).promises = PromisesInAll(x, y, z)
         /\ \E k : /\ ParseV1(Glue(<<x, y>>), <<z>>).functions = Deduplicated(k)
                   /\ SameRows(k, Len(PartsOf(x, y, z)), PartsOf(x, y, z))
                   /\ \E R : k \in Seq(R)
<1> DEFINE h == PartsOf(x, y, z)
           n == Len(h)
           b == FunctionsIn(x) \o FunctionsIn(y)
           c == FunctionsIn(z)
           v1 == Glue(<<x, y>>)
           first == ParseText(v1, "v1.md")
           second == ParseText(z, "supplement")
           parts == <<first>> \o [i \in DOMAIN <<z>> |-> ParseText(<<z>>[i], "supplement")]
           F == FunctionsFrom(L)
           r == Sourced(b, "v1.md")
           q == Sourced(c, "supplement")
           k == r \o q
<1>1. FunctionsIn(v1) = b /\ PromisesIn(v1) = PromisesIn(x) \cup PromisesIn(y)
  <2>1. Holds(Glue(<<x, y>>), FunctionsIn(x) \o FunctionsIn(y), PromisesIn(x) \cup PromisesIn(y))
    BY GlueTwo
  <2> QED BY <2>1 DEF Holds
<1>2. first.functions = r /\ first.promises = PromisesIn(x) \cup PromisesIn(y)
  BY <1>1 DEF ParseText, PromisesIn
<1>3. second.functions = q /\ second.promises = PromisesIn(z)
  BY DEF ParseText, PromisesIn
<1>4. [i \in DOMAIN <<z>> |-> ParseText(<<z>>[i], "supplement")] = <<second>>
  OBVIOUS
<1> HIDE DEF first, second
<1>5. parts = <<first, second>>
  <2> DEFINE S == {first, second}
  <2>1. <<first>> \in Seq(S) /\ second \in S /\ <<first, second>> = Append(<<first>>, second)
    OBVIOUS
  <2> HIDE DEF S
  <2>2. Append(<<first>>, second) = <<first>> \o <<second>>
    BY <2>1, AppendIsConcat
  <2> QED BY <1>4, <2>1, <2>2
<1>6. /\ b \in Seq(F) /\ c \in Seq(F) /\ h = b \o c /\ h \in Seq(F)
  BY PartsFacts, FunctionsInIs DEF PartsOf
<1> HIDE DEF h, b, c, F, r, q
<1>7. /\ Rows(b) /\ DOMAIN b = 1..Len(b) /\ Len(b) \in Nat /\ Rows(c) /\ DOMAIN c = 1..Len(c) /\ Len(c) \in Nat
  BY <1>6, RowsFrom DEF F
<1>8. /\ n = Len(b) + Len(c)
      /\ \A i \in 1..(Len(b) + Len(c)) : h[i] = IF i <= Len(b) THEN b[i] ELSE c[i - Len(b)]
  <2>1. b \in Seq(F) /\ c \in Seq(F)
    BY <1>6
  <2>2. /\ Len(b \o c) = Len(b) + Len(c)
        /\ \A i \in 1..(Len(b) + Len(c)) : (b \o c)[i] = IF i <= Len(b) THEN b[i] ELSE c[i - Len(b)]
    BY ONLY <2>1, ConcatProperties
  <2> QED BY <1>6, <2>2
<1>9. SameRows(r, Len(b), b) /\ \E R : r \in Seq(R) /\ Len(r) = Len(b)
  BY <1>7, SourcedRows DEF r
<1>10. SameRows(q, Len(c), c) /\ \E R : q \in Seq(R) /\ Len(q) = Len(c)
  BY <1>7, SourcedRows DEF q
<1>11. PICK R1, R2 : r \in Seq(R1) /\ Len(r) = Len(b) /\ q \in Seq(R2) /\ Len(q) = Len(c)
  BY <1>9, <1>10
<1> DEFINE R == R1 \cup R2
<1>12. r \in Seq(R) /\ q \in Seq(R)
  <2>1. R1 \subseteq R /\ R2 \subseteq R
    OBVIOUS
  <2> HIDE DEF R
  <2> QED BY <1>11, <2>1, SeqMonotonic
<1> HIDE DEF R
<1>13. /\ k \in Seq(R) /\ Len(k) = Len(r) + Len(q)
       /\ \A i \in 1..(Len(r) + Len(q)) : k[i] = IF i <= Len(r) THEN r[i] ELSE q[i - Len(r)]
  BY ONLY <1>12, ConcatProperties
<1>14. FlattenSeq(<<r, q>>) = k
  BY <1>12, FlatTwo
<1>15. FlattenSeq([i \in DOMAIN parts |-> parts[i].functions]) = k
  <2>1. [i \in DOMAIN <<first, second>> |-> <<first, second>>[i].functions] = <<first.functions, second.functions>>
    OBVIOUS
  <2> QED BY <1>2, <1>3, <1>5, <1>14, <2>1
<1>16. UNION {parts[i].promises : i \in DOMAIN parts} = PromisesInAll(x, y, z)
  <2>1. {<<first, second>>[i].promises : i \in DOMAIN <<first, second>>} = {first.promises, second.promises}
    <3>1. DOMAIN <<first, second>> = {1, 2} /\ <<first, second>>[1] = first /\ <<first, second>>[2] = second
      OBVIOUS
    <3> DEFINE pair == <<first, second>>
    <3> HIDE DEF pair
    <3>2. DOMAIN pair = {1, 2} /\ pair[1] = first /\ pair[2] = second
      BY <3>1 DEF pair
    <3>3. {pair[i].promises : i \in DOMAIN pair} = {first.promises, second.promises}
      BY <3>2
    <3> QED BY <3>3 DEF pair
  <2>2. UNION {first.promises, second.promises} = PromisesInAll(x, y, z)
    BY <1>2, <1>3 DEF PromisesInAll
  <2> QED BY <1>5, <2>1, <2>2
<1>17. /\ ParseV1(v1, <<z>>).promises = UNION {parts[i].promises : i \in DOMAIN parts}
       /\ ParseV1(v1, <<z>>).functions = Deduplicated(FlattenSeq([i \in DOMAIN parts |-> parts[i].functions]))
  BY DEF ParseV1, first
<1> HIDE DEF k, parts
<1>18. SameRows(k, n, h)
  <2>1. DOMAIN k = 1..n
    <3>1. DOMAIN k = 1..Len(k)
      BY <1>13, LenProperties
    <3> QED BY <1>8, <1>11, <1>13, <3>1
  <2>2. ASSUME NEW i \in 1..n PROVE IsRow(k[i]) /\ SameRow(k[i], h[i])
    <3>1. CASE i <= Len(b)
      <4>1. i \in 1..Len(b) /\ k[i] = r[i] /\ h[i] = b[i]
        BY <1>7, <1>8, <1>11, <1>13, <3>1
      <4> QED BY <1>9, <4>1 DEF SameRows, Rows
    <3>2. CASE ~(i <= Len(b))
      <4>1. i - Len(b) \in 1..Len(c) /\ k[i] = q[i - Len(b)] /\ h[i] = c[i - Len(b)]
        BY <1>7, <1>8, <1>11, <1>13, <3>2
      <4> QED BY <1>10, <4>1 DEF SameRows, Rows
    <3> QED BY <3>1, <3>2
  <2> QED BY <2>1, <2>2 DEF SameRows, Rows
<1>19. ParseV1(v1, <<z>>).promises = PromisesInAll(x, y, z) /\ ParseV1(v1, <<z>>).functions = Deduplicated(k)
  BY <1>15, <1>16, <1>17
<1> QED BY <1>13, <1>18, <1>19 DEF h, n

------------------------------------------------------------------------------
(****************************************************************************)
(* What the gates and the queries say of a row, they say of its like.        *)
(****************************************************************************)
Orphaned(case, f, promises) ==
  \/ case = "a" /\ f.promise = {}
  \/ case = "b" /\ PromTokens(f.promise) # {} /\ PromTokens(f.promise) \cap promises = {}
  \/ case = "c" /\ f.trace = {}
  \/ case = "d" /\ f.trace \ ({Narrative, WholeJourney} \cup PartIISteps) # {}

LEMMA OrphansAre ==
  \A model, o : o \in Orphans(model) <=>
    \E case \in {"a", "b", "c", "d"} : \E f \in ToSet(model.functions) :
      o = <<case, f.id>> /\ Orphaned(case, f, model.promises)
<1> TAKE model, o
<1> DEFINE functions == ToSet(model.functions)
           A == {f \in functions : f.promise = {}}
           B == {f \in functions : PromTokens(f.promise) # {} /\ PromTokens(f.promise) \cap model.promises = {}}
           C == {f \in functions : f.trace = {}}
           D == {f \in functions : f.trace \ ({Narrative, WholeJourney} \cup PartIISteps) # {}}
           of(case, found) == {<<case, f.id>> : f \in found}
<1>1. Orphans(model) = UNION {of("a", A), of("b", B), of("c", C), of("d", D)}
  BY DEF Orphans
<1>2. \A case : /\ \A f \in functions : f \in A <=> Orphaned("a", f, model.promises)
                /\ \A f \in functions : f \in B <=> Orphaned("b", f, model.promises)
                /\ \A f \in functions : f \in C <=> Orphaned("c", f, model.promises)
                /\ \A f \in functions : f \in D <=> Orphaned("d", f, model.promises)
  BY DEF Orphaned
<1>3. A \subseteq functions /\ B \subseteq functions /\ C \subseteq functions /\ D \subseteq functions
  OBVIOUS
<1> HIDE DEF A, B, C, D, functions
<1>4. o \in Orphans(model) <=>
        \/ \E f \in A : o = <<"a", f.id>>
        \/ \E f \in B : o = <<"b", f.id>>
        \/ \E f \in C : o = <<"c", f.id>>
        \/ \E f \in D : o = <<"d", f.id>>
  BY <1>1
<1>5. (\E case \in {"a", "b", "c", "d"} : \E f \in functions : o = <<case, f.id>> /\ Orphaned(case, f, model.promises))
      <=> \/ \E f \in functions : o = <<"a", f.id>> /\ Orphaned("a", f, model.promises)
          \/ \E f \in functions : o = <<"b", f.id>> /\ Orphaned("b", f, model.promises)
          \/ \E f \in functions : o = <<"c", f.id>> /\ Orphaned("c", f, model.promises)
          \/ \E f \in functions : o = <<"d", f.id>> /\ Orphaned("d", f, model.promises)
  OBVIOUS
<1> QED BY <1>2, <1>3, <1>4, <1>5 DEF functions

LEMMA GreenLeavesNoOrphan ==
  ASSUME NEW model, SchemaErrors(model) \cup VocabularyErrors(model) = {}
  PROVE  Orphans(model) = {}
<1> SUFFICES ASSUME NEW o, o \in Orphans(model) PROVE FALSE
  OBVIOUS
<1>1. PICK case \in {"a", "b", "c", "d"}, f \in ToSet(model.functions) :
        o = <<case, f.id>> /\ Orphaned(case, f, model.promises)
  BY OrphansAre
<1>2. f \notin SchemaErrors(model) /\ f \notin VocabularyErrors(model)
  OBVIOUS
<1>3. f.promise # {} /\ f.trace # {}
  BY <1>2 DEF SchemaErrors
<1>4. /\ PromTokens(f.promise) \ model.promises = {}
      /\ f.trace \ (PartIISteps \cup {Narrative, WholeJourney}) = {}
  BY <1>2 DEF VocabularyErrors
<1> QED BY <1>1, <1>3, <1>4 DEF Orphaned

\* The first row of each identifier, wherever the list has one.
IsFirst(k, i) == \A j \in 1..(i - 1) : k[j].id # k[i].id

LEMMA FirstOfEach ==
  ASSUME NEW k, NEW n \in Nat, NEW i \in 1..n
  PROVE  \E j \in 1..n : k[j].id = k[i].id /\ IsFirst(k, j)
<1> DEFINE T == {j \in 1..n : k[j].id = k[i].id}
<1>1. T \in SUBSET Nat /\ i \in T
  OBVIOUS
<1>2. PICK j \in T : \A m \in T : j <= m
  <2> HIDE DEF T
  <2> QED BY <1>1, LeastNatural
<1>3. j \in 1..n /\ k[j].id = k[i].id
  BY <1>2
<1>4. ASSUME NEW m \in 1..(j - 1) PROVE k[m].id # k[j].id
  <2>1. m \in 1..n /\ ~(j <= m)
    BY <1>3
  <2>2. m \notin T
    BY <1>2, <2>1
  <2> QED BY <1>3, <2>1, <2>2
<1> QED BY <1>3, <1>4 DEF IsFirst

\* The rows of the machine form are like the gated ones, in their order, and none is missing.
LikeGated(form, gated) ==
  /\ form.promises = gated.promises
  /\ \E q : /\ \A m \in DOMAIN form.functions :
                 q[m] \in DOMAIN gated.functions /\ SameRow(form.functions[m], gated.functions[q[m]])
            /\ \A m, l \in DOMAIN form.functions : m < l => q[m] < q[l]
  /\ \A i \in DOMAIN gated.functions : \E m \in DOMAIN form.functions : form.functions[m].id = gated.functions[i].id
  /\ \E d \in Nat : DOMAIN form.functions = 1..d

LEMMA FormIsLikeGated ==
  ASSUME NEW L, Prose \in L, NEW x \in Seq(L), NEW y \in Seq(L), NEW z \in Seq(L)
  PROVE  LikeGated(ParseV1(Glue(<<x, y>>), <<z>>), ParseSource(x, <<y, z>>))
<1> DEFINE h == PartsOf(x, y, z)
           n == Len(h)
           gated == ParseSource(x, <<y, z>>)
           form == ParseV1(Glue(<<x, y>>), <<z>>)
<1>1. n \in Nat
  BY PartsFacts, LenProperties
<1>2. gated.promises = PromisesInAll(x, y, z) /\ SameRows(gated.functions, n, h)
  BY GatedIs
<1>3. /\ form.promises = PromisesInAll(x, y, z)
      /\ \E k : form.functions = Deduplicated(k) /\ SameRows(k, n, h) /\ \E R : k \in Seq(R)
  BY FormIs, SMTT(30)
<1>4. PICK k, R : form.functions = Deduplicated(k) /\ SameRows(k, n, h) /\ k \in Seq(R)
  BY <1>3
<1> DEFINE firsts == {i \in DOMAIN k : \A j \in 1..(i - 1) : k[j].id # k[i].id}
           e == EntriesAt(k, firsts)
<1>5. form.functions = e
  BY <1>4 DEF Deduplicated
<1> HIDE DEF h, n, gated, form, e
<1>6. Len(k) = n /\ DOMAIN k = 1..n
  <2>1. DOMAIN k = 1..n /\ DOMAIN k = 1..Len(k) /\ Len(k) \in Nat
    BY <1>4, LenProperties DEF SameRows
  <2> QED BY <1>1, <2>1
<1>7. PICK q : ArePlaces(q, Len(k), firsts) /\ Picked(EntriesAt(k, firsts), k, q)
  <2> HIDE DEF firsts
  <2> QED BY <1>4, EntriesPicked
<1>8. /\ Len(e) = Len(q) /\ (\A m \in 1..Len(q) : e[m] = k[q[m]]) /\ q \in Seq(1..n)
      /\ \A m, l \in 1..Len(q) : m < l => q[m] < q[l]
      /\ \A i \in 1..n : i \in firsts => \E m \in 1..Len(q) : q[m] = i
  BY <1>6, <1>7 DEF ArePlaces, Picked, e
<1>9. DOMAIN e = 1..Len(e) /\ Len(e) \in Nat
  <2> HIDE DEF firsts
  <2>1. e \in Seq(R)
    BY <1>4, EntriesType DEF e
  <2> QED BY <2>1, LenProperties
<1>10. DOMAIN form.functions = 1..Len(q) /\ Len(q) \in Nat
  BY <1>5, <1>8, <1>9
<1>11. DOMAIN gated.functions = 1..n /\ \A i \in 1..n : SameRow(k[i], h[i]) /\ SameRow(gated.functions[i], h[i])
  BY <1>2, <1>4 DEF SameRows
<1>12. ASSUME NEW m \in 1..Len(q)
       PROVE  q[m] \in 1..n /\ SameRow(form.functions[m], gated.functions[q[m]])
  <2>1. q[m] \in 1..n
    BY <1>8, ElementOfSeq
  <2>2. form.functions[m] = k[q[m]]
    BY <1>5, <1>8
  <2> QED BY <1>11, <2>1, <2>2 DEF SameRow
<1>13. ASSUME NEW i \in 1..n PROVE \E m \in 1..Len(q) : form.functions[m].id = gated.functions[i].id
  <2>1. PICK j \in 1..n : k[j].id = k[i].id /\ IsFirst(k, j)
    BY ONLY <1>1, i \in 1..n, FirstOfEach
  <2>2. j \in firsts
    BY <1>6, <2>1 DEF IsFirst
  <2>3. PICK m \in 1..Len(q) : q[m] = j
    BY <1>8, <2>2
  <2>4. form.functions[m] = k[j]
    BY <1>5, <1>8, <2>3
  <2> QED BY <1>11, <2>1, <2>4 DEF SameRow
<1>14. LikeGated(form, gated)
  <2>1. form.promises = gated.promises
    BY <1>2, <1>3 DEF form
  <2>2. /\ \A m \in DOMAIN form.functions :
             q[m] \in DOMAIN gated.functions /\ SameRow(form.functions[m], gated.functions[q[m]])
        /\ \A m, l \in DOMAIN form.functions : m < l => q[m] < q[l]
    BY <1>8, <1>10, <1>11, <1>12
  <2>3. \A i \in DOMAIN gated.functions : \E m \in DOMAIN form.functions : form.functions[m].id = gated.functions[i].id
    BY <1>10, <1>11, <1>13
  <2> QED BY <1>10, <2>1, <2>2, <2>3 DEF LikeGated
<1> QED BY <1>14 DEF form, gated

\* What the conjuncts of the property ask of two such models.
ReadsAs(form, gated, testable) ==
  /\ {f.id : f \in ToSet(form.functions)} = {f.id : f \in ToSet(gated.functions)}
  /\ Orphans(form) \subseteq Orphans(gated)
  /\ {<<form.functions[p[1]].id, form.functions[p[2]].id>> : p \in Redundancies(form)} \subseteq
       {<<gated.functions[p[1]].id, gated.functions[p[2]].id>> : p \in Redundancies(gated)}
  /\ {f.id : f \in Unverified(form, testable)} \subseteq {f.id : f \in Unverified(gated, testable)}
  /\ Gaps(gated) \subseteq Gaps(form)

LEMMA LikeIsAsReported ==
  ASSUME NEW form, NEW gated, LikeGated(form, gated), NEW testable
  PROVE  ReadsAs(form, gated, testable)
<1> DEFINE ff == form.functions
           gf == gated.functions
<1>1. PICK q : /\ \A m \in DOMAIN ff : q[m] \in DOMAIN gf /\ SameRow(ff[m], gf[q[m]])
               /\ \A m, l \in DOMAIN ff : m < l => q[m] < q[l]
  BY DEF LikeGated
<1>2. /\ form.promises = gated.promises
      /\ \A i \in DOMAIN gf : \E m \in DOMAIN ff : ff[m].id = gf[i].id
  BY DEF LikeGated
<1>3. ASSUME NEW f \in ToSet(ff) PROVE \E g \in ToSet(gf) : SameRow(f, g)
  <2>1. PICK m \in DOMAIN ff : ff[m] = f
    BY DEF ToSet
  <2>2. gf[q[m]] \in ToSet(gf)
    BY <1>1 DEF ToSet
  <2> QED BY <1>1, <2>1, <2>2
<1>4. ASSUME NEW g \in ToSet(gf) PROVE \E f \in ToSet(ff) : f.id = g.id
  <2>1. PICK i \in DOMAIN gf : gf[i] = g
    BY DEF ToSet
  <2>2. PICK m \in DOMAIN ff : ff[m].id = gf[i].id
    BY <1>2
  <2>3. ff[m] \in ToSet(ff)
    BY DEF ToSet
  <2> QED BY <2>1, <2>2, <2>3
<1>5. {f.id : f \in ToSet(ff)} = {f.id : f \in ToSet(gf)}
  <2>1. \A f \in ToSet(ff) : \E g \in ToSet(gf) : f.id = g.id
    BY <1>3 DEF SameRow
  <2> HIDE DEF ff, gf
  <2> QED BY <1>4, <2>1
<1>6. Orphans(form) \subseteq Orphans(gated)
  <2> SUFFICES ASSUME NEW o \in Orphans(form) PROVE o \in Orphans(gated)
    OBVIOUS
  <2>1. PICK case \in {"a", "b", "c", "d"}, f \in ToSet(ff) : o = <<case, f.id>> /\ Orphaned(case, f, form.promises)
    BY OrphansAre
  <2>2. PICK g \in ToSet(gf) : SameRow(f, g)
    BY <1>3
  <2>3. o = <<case, g.id>> /\ Orphaned(case, g, gated.promises)
    BY <1>2, <2>1, <2>2 DEF SameRow, Orphaned
  <2> QED BY <2>3, OrphansAre
<1>7. {<<ff[p[1]].id, ff[p[2]].id>> : p \in Redundancies(form)} \subseteq
        {<<gf[p[1]].id, gf[p[2]].id>> : p \in Redundancies(gated)}
  <2> SUFFICES ASSUME NEW p \in Redundancies(form)
               PROVE  \E r \in Redundancies(gated) : <<ff[p[1]].id, ff[p[2]].id>> = <<gf[r[1]].id, gf[r[2]].id>>
    OBVIOUS
  <2>1. /\ p[1] \in DOMAIN ff /\ p[2] \in DOMAIN ff /\ p[1] < p[2]
        /\ PromTokens(ff[p[1]].promise) = PromTokens(ff[p[2]].promise) /\ PromTokens(ff[p[1]].promise) # {}
        /\ ff[p[1]].surface = ff[p[2]].surface /\ ff[p[1]].surface # Blank
    BY DEF Redundancies
  <2> DEFINE r == <<q[p[1]], q[p[2]]>>
  <2>2. r \in (DOMAIN gf) \X (DOMAIN gf) /\ r[1] = q[p[1]] /\ r[2] = q[p[2]] /\ r[1] < r[2]
    BY <1>1, <2>1
  <2>3. SameRow(ff[p[1]], gf[r[1]]) /\ SameRow(ff[p[2]], gf[r[2]])
    BY <1>1, <2>1
  <2> HIDE DEF r
  <2>4. r \in Redundancies(gated)
    BY <2>1, <2>2, <2>3 DEF Redundancies, SameRow
  <2> QED BY <2>3, <2>4 DEF SameRow
<1>8. {f.id : f \in Unverified(form, testable)} \subseteq {f.id : f \in Unverified(gated, testable)}
  <2> SUFFICES ASSUME NEW f \in Unverified(form, testable) PROVE \E g \in Unverified(gated, testable) : f.id = g.id
    OBVIOUS
  <2>1. f \in ToSet(ff) /\ f.enforcement \notin testable /\ f.surface \notin testable
    BY DEF Unverified
  <2>2. PICK g \in ToSet(gf) : SameRow(f, g)
    BY <1>3, <2>1
  <2> QED BY <2>1, <2>2 DEF SameRow, Unverified
<1>9. Gaps(gated) \subseteq Gaps(form)
  <2>1. UNION {f.promise : f \in ToSet(ff)} \subseteq UNION {f.promise : f \in ToSet(gf)}
    BY <1>3 DEF SameRow
  <2>2. UNION {f.trace : f \in ToSet(ff)} \subseteq UNION {f.trace : f \in ToSet(gf)}
    BY <1>3 DEF SameRow
  <2> DEFINE pf == UNION {f.promise : f \in ToSet(ff)}
             pg == UNION {f.promise : f \in ToSet(gf)}
             tf == UNION {f.trace : f \in ToSet(ff)}
             tg == UNION {f.trace : f \in ToSet(gf)}
  <2>3. /\ Gaps(form) = {<<"a", p>> : p \in form.promises \ pf} \cup {<<"b", s>> : s \in PartIISteps \ tf}
        /\ Gaps(gated) = {<<"a", p>> : p \in gated.promises \ pg} \cup {<<"b", s>> : s \in PartIISteps \ tg}
    BY DEF Gaps
  <2> HIDE DEF pf, pg, tf, tg
  <2>4. pf \subseteq pg /\ tf \subseteq tg
    BY <2>1, <2>2 DEF pf, pg, tf, tg
  <2> QED BY <1>2, <2>3, <2>4
<1> QED BY <1>5, <1>6, <1>7, <1>8, <1>9 DEF ReadsAs

LEMMA FormOfLists ==
  ASSUME NEW doc, IsList(doc.v0), IsList(doc.old), IsList(doc.later), NEW testable
  PROVE  FormIsAsReported(doc, testable)
<1> DEFINE x == doc.v0
           y == doc.old
           z == doc.later
           L == {Prose} \cup {x[i] : i \in 1..Len(x)} \cup {y[i] : i \in 1..Len(y)} \cup {z[i] : i \in 1..Len(z)}
           form == ParseV1(Glue(<<x, y>>), <<z>>)
           gated == ParseSource(x, <<y, z>>)
<1>1. /\ \A i \in 1..Len(x) : x[i] \in L
      /\ \A i \in 1..Len(y) : y[i] \in L
      /\ \A i \in 1..Len(z) : z[i] \in L
      /\ Prose \in L
  OBVIOUS
<1>2. IsList(x) /\ IsList(y) /\ IsList(z)
  OBVIOUS
<1> HIDE DEF L, x, y, z
<1>3. x \in Seq(L) /\ y \in Seq(L) /\ z \in Seq(L)
  BY <1>1, <1>2, ListSeq
<1>4. LikeGated(form, gated)
  BY <1>1, <1>3, FormIsLikeGated
<1>5. SchemaErrors(gated) \cup VocabularyErrors(gated) = {} => Orphans(gated) = {}
  BY GreenLeavesNoOrphan
<1> HIDE DEF form, gated
<1>6. ReadsAs(form, gated, testable)
  BY <1>4, LikeIsAsReported
<1> QED BY <1>5, <1>6 DEF FormIsAsReported, ReadsAs, form, gated, x, y, z

------------------------------------------------------------------------------
(****************************************************************************)
(* The log and the subjects, one at a time.                                  *)
(****************************************************************************)
LEMMA FoldsLines ==
  ASSUME NEW base, NEW s, Len(s) \in Nat, DOMAIN s = 1..Len(s)
  PROVE  \E held : Chain("line", base, held, s) /\ FoldLeft(ReadLine, base, s) = held[Len(s)]
<1> DEFINE n == Len(s)
           once(f, x) == IF x = {} THEN base ELSE ReadLine(f[x \ {Max(x)}], s[Max(x)])
           h == CHOOSE f : f = [x \in SUBSET (1..n) |-> once(f, x)]
<1>1. FoldLeft(ReadLine, base, s) = h[1..n]
  BY DEF FoldLeft, MapThenFoldSet
<1>2. PICK g : IsFold("line", base, g, s, n)
  BY FoldsExist
<1>3. \A f : \A x \in SUBSET (1..n) : once(f, x) = Unfolded("line", base, f, s, x)
  BY DEF Unfolded, Once
<1>4. g = [x \in SUBSET (1..n) |-> once(g, x)]
  <2> HIDE DEF once
  <2> QED BY <1>2, <1>3 DEF IsFold
<1>5. h = [x \in SUBSET (1..n) |-> once(h, x)]
  BY <1>4
<1> HIDE DEF h
<1>6. IsFold("line", base, h, s, n)
  <2> HIDE DEF once
  <2> QED BY <1>3, <1>5 DEF IsFold
<1> QED BY <1>1, <1>6, FoldsChain

LEMMA FoldsClaims ==
  ASSUME NEW base, NEW s, Len(s) \in Nat, DOMAIN s = 1..Len(s)
  PROVE  \E held : Chain("claim", base, held, s) /\ FoldLeft(Claim, base, s) = held[Len(s)]
<1> DEFINE n == Len(s)
           once(f, x) == IF x = {} THEN base ELSE Claim(f[x \ {Max(x)}], s[Max(x)])
           h == CHOOSE f : f = [x \in SUBSET (1..n) |-> once(f, x)]
<1>1. FoldLeft(Claim, base, s) = h[1..n]
  BY DEF FoldLeft, MapThenFoldSet
<1>2. PICK g : IsFold("claim", base, g, s, n)
  BY FoldsExist
<1>3. \A f : \A x \in SUBSET (1..n) : once(f, x) = Unfolded("claim", base, f, s, x)
  BY DEF Unfolded, Once
<1>4. g = [x \in SUBSET (1..n) |-> once(g, x)]
  <2> HIDE DEF once
  <2> QED BY <1>2, <1>3 DEF IsFold
<1>5. h = [x \in SUBSET (1..n) |-> once(h, x)]
  BY <1>4
<1> HIDE DEF h
<1>6. IsFold("claim", base, h, s, n)
  <2> HIDE DEF once
  <2> QED BY <1>3, <1>5 DEF IsFold
<1> QED BY <1>1, <1>6, FoldsChain

------------------------------------------------------------------------------
(****************************************************************************)
(* The log, read line by line, gives the decisions its headings open.        *)
(****************************************************************************)
Headings(log) == {i \in DOMAIN log : log[i].kind = "heading"}
AllOf(log) == [i \in DOMAIN log |-> Decision(log, i)]
DecidedBy(log, m) == EntriesAt(SubSeq(AllOf(log), 1, m), Headings(log))
IsLog(log) == IsList(log) /\ \A i \in DOMAIN log : log[i].kind \in {"heading", "section", "text"}

LEMMA DecidedFacts ==
  ASSUME NEW log, IsLog(log)
  PROVE  /\ Len(log) \in Nat /\ DOMAIN log = 1..Len(log)
         /\ DecidedBy(log, 0) = <<>>
         /\ DecidedBy(log, Len(log)) = Decisions(log)
         /\ \A m \in Nat : m + 1 <= Len(log) =>
              DecidedBy(log, m + 1) =
                IF log[m + 1].kind = "heading" THEN Append(DecidedBy(log, m), Decision(log, m + 1))
                ELSE DecidedBy(log, m)
<1> DEFINE n == Len(log)
           all == AllOf(log)
           heads == Headings(log)
           S == {all[i] : i \in 1..n}
<1>1. n \in Nat /\ DOMAIN log = 1..n
  BY DEF IsLog, IsList
<1>2. all = [i \in 1..n |-> all[i]] /\ \A i \in 1..n : all[i] = Decision(log, i)
  BY <1>1 DEF AllOf
<1>3. \A i \in 1..n : i \in heads <=> log[i].kind = "heading"
  BY <1>1 DEF Headings
<1>4. \A i \in 1..n : all[i] \in S
  OBVIOUS
<1>5. \A m : DecidedBy(log, m) = EntriesAt(SubSeq(all, 1, m), heads)
  BY DEF DecidedBy
<1>6. Decisions(log) = EntriesAt(all, heads)
  BY DEF Decisions, AllOf, Headings
<1> HIDE DEF all, heads, S, n
<1>7. all \in Seq(S) /\ Len(all) = n
  <2>1. all \in [1..n -> S]
    BY <1>2, <1>4
  <2> QED BY <1>1, <2>1, FunctionSeq
<1>8. DecidedBy(log, 0) = <<>>
  <2>1. SubSeq(all, 1, 0) = <<>>
    BY SubSeqEmpty
  <2> QED BY <1>5, <2>1, EntriesEmpty
<1>9. DecidedBy(log, n) = Decisions(log)
  <2>1. SubSeq(all, 1, n) = all
    BY <1>7, SubSeqFull
  <2> QED BY <1>5, <1>6, <2>1
<1>10. ASSUME NEW m \in Nat, m + 1 <= n
       PROVE  DecidedBy(log, m + 1) =
                IF log[m + 1].kind = "heading" THEN Append(DecidedBy(log, m), Decision(log, m + 1))
                ELSE DecidedBy(log, m)
  <2> DEFINE s == SubSeq(all, 1, m)
  <2>1. SubSeq(all, 1, m + 1) = Append(s, all[m + 1])
    BY <1>7, <1>10, SliceOne
  <2>2. m \in 0..Len(all) /\ m + 1 \in 1..n
    BY <1>1, <1>7, <1>10
  <2>3. s \in Seq(S) /\ Len(s) = m
    BY <1>7, <2>2, TakeFacts
  <2> HIDE DEF s
  <2>4. EntriesAt(Append(s, all[m + 1]), heads) =
          IF m + 1 \in heads THEN Append(EntriesAt(s, heads), all[m + 1]) ELSE EntriesAt(s, heads)
    <3>1. all[m + 1] \in S /\ Len(s) + 1 = m + 1
      BY <1>4, <2>2, <2>3
    <3> QED BY ONLY <2>3, <3>1, EntriesAppend, ZenonT(30)
  <2>5. DecidedBy(log, m) = EntriesAt(s, heads) /\ DecidedBy(log, m + 1) = EntriesAt(Append(s, all[m + 1]), heads)
    BY <1>5, <2>1 DEF s
  <2> QED BY <1>2, <1>3, <2>2, <2>4, <2>5
<1> QED BY <1>1, <1>8, <1>9, <1>10 DEF n

\* What the reader holds after m lines.
IsReader(st) == st = [entries |-> st.entries, open |-> st.open, entry |-> st.entry, said |-> st.said]
OpenedAt(st, log, m, h) ==
  /\ log[h].kind = "heading" /\ \A k \in (h + 1)..m : log[k].kind = "text"
  /\ st.entry = log[h].entry
  /\ st.said = UNION {log[j].said : j \in h..m}
  /\ st.entries = DecidedBy(log, h - 1)
  /\ DecidedBy(log, m) = DecidedBy(log, h)
ReadUpto(st, log, m) ==
  /\ IsReader(st) /\ st.open \in BOOLEAN
  /\ ~st.open => st.entries = DecidedBy(log, m)
  /\ st.open => \E h \in 1..m : OpenedAt(st, log, m, h)

LEMMA ClosedIsDecided ==
  ASSUME NEW log, IsLog(log), NEW m \in 0..Len(log), NEW st, ReadUpto(st, log, m),
         m # Len(log) => log[m + 1].kind # "text"
  PROVE  ClosedEntry(st) = DecidedBy(log, m)
<1>1. Len(log) \in Nat /\ st.open \in BOOLEAN
  BY DecidedFacts DEF ReadUpto
<1>2. CASE ~st.open
  BY <1>2 DEF ReadUpto, ClosedEntry
<1>3. CASE st.open
  <2>1. PICK h \in 1..m : OpenedAt(st, log, m, h)
    BY <1>3 DEF ReadUpto
  <2>2. h \in Nat /\ h >= 1 /\ h <= m /\ m \in Nat /\ m <= Len(log)
    BY <1>1
  <2>3. BlockOf(log, h) = h..m
    <3>1. ASSUME NEW j \in BlockOf(log, h) PROVE j \in h..m
      <4>1. j \in h..Len(log) /\ \A k \in (h + 1)..j : log[k].kind = "text"
        BY <3>1 DEF BlockOf
      <4>2. ASSUME j > m PROVE FALSE
        <5>1. m + 1 \in (h + 1)..j /\ m # Len(log)
          BY <1>1, <2>2, <4>1, <4>2
        <5> QED BY <4>1, <5>1
      <4> QED BY <1>1, <2>2, <4>1, <4>2
    <3>2. ASSUME NEW j \in h..m PROVE j \in BlockOf(log, h)
      <4>1. j \in h..Len(log) /\ \A k \in (h + 1)..j : k \in (h + 1)..m
        BY <1>1, <2>2
      <4> QED BY <2>1, <4>1 DEF BlockOf, OpenedAt
    <3> QED BY <3>1, <3>2
  <2>4. [id |-> st.entry, subjects |-> SubjectIdentifiers(st.said)] = Decision(log, h)
    BY <2>1, <2>3 DEF Decision, OpenedAt
  <2>5. ClosedEntry(st) = Append(DecidedBy(log, h - 1), Decision(log, h))
    BY <1>3, <2>1, <2>4 DEF ClosedEntry, OpenedAt
  <2>6. h - 1 \in Nat /\ (h - 1) + 1 = h /\ h <= Len(log)
    BY <1>1, <2>2
  <2>7. DecidedBy(log, h) = Append(DecidedBy(log, h - 1), Decision(log, h))
    <3>1. (h - 1) + 1 <= Len(log) /\ log[(h - 1) + 1].kind = "heading"
      BY <2>1, <2>6 DEF OpenedAt
    <3>2. DecidedBy(log, (h - 1) + 1) = Append(DecidedBy(log, h - 1), Decision(log, (h - 1) + 1))
      BY <2>6, <3>1, DecidedFacts
    <3> QED BY <2>6, <3>2
  <2> QED BY <2>1, <2>5, <2>7 DEF OpenedAt
<1> QED BY <1>1, <1>2, <1>3

LEMMA ReadsOneMore ==
  ASSUME NEW log, IsLog(log), NEW m \in Nat, m + 1 <= Len(log), NEW st, ReadUpto(st, log, m)
  PROVE  ReadUpto(ReadLine(st, log[m + 1]), log, m + 1)
<1> DEFINE line == log[m + 1]
           new == ReadLine(st, line)
<1>1. Len(log) \in Nat /\ m + 1 \in 1..Len(log) /\ m \in 0..Len(log) /\ m # Len(log) /\ DOMAIN log = 1..Len(log)
  BY DecidedFacts
<1>2. line.kind \in {"heading", "section", "text"}
  BY <1>1 DEF IsLog
<1>3. line.kind # "text" => ClosedEntry(st) = DecidedBy(log, m)
  BY <1>1, ClosedIsDecided
<1>4. DecidedBy(log, m + 1) =
        IF line.kind = "heading" THEN Append(DecidedBy(log, m), Decision(log, m + 1)) ELSE DecidedBy(log, m)
  BY DecidedFacts
<1>5. IsReader(st) /\ st.open \in BOOLEAN
  BY DEF ReadUpto
<1>6. CASE line.kind = "heading"
  <2>1. new = [entries |-> ClosedEntry(st), open |-> TRUE, entry |-> line.entry, said |-> line.said]
    BY <1>6 DEF ReadLine
  <2> HIDE DEF new
  <2>2. /\ new.entries = DecidedBy(log, m) /\ new.open = TRUE /\ new.entry = line.entry
        /\ new.said = line.said /\ IsReader(new)
    BY <1>3, <1>6, <2>1 DEF IsReader
  <2>3. (m + 1)..(m + 1) = {m + 1} /\ ((m + 1) + 1)..(m + 1) = {} /\ (m + 1) - 1 = m /\ m + 1 \in 1..(m + 1)
    <3>1. \A j : j \in (m + 1)..(m + 1) => j = m + 1
      BY ONLY m \in Nat
    <3>2. m + 1 \in (m + 1)..(m + 1) /\ (m + 1) - 1 = m /\ m + 1 \in 1..(m + 1)
      BY ONLY m \in Nat
    <3>3. \A j : j \notin ((m + 1) + 1)..(m + 1)
      BY ONLY m \in Nat
    <3> QED BY ONLY <3>1, <3>2, <3>3
  <2>4. UNION {log[j].said : j \in (m + 1)..(m + 1)} = line.said
    BY <2>3
  <2>5. OpenedAt(new, log, m + 1, m + 1)
    BY <1>6, <2>2, <2>3, <2>4 DEF OpenedAt
  <2>6. ReadUpto(new, log, m + 1)
    BY <2>2, <2>3, <2>5 DEF ReadUpto
  <2> QED BY <2>6 DEF new
<1>7. CASE line.kind = "section"
  <2>1. new = [st EXCEPT !.entries = ClosedEntry(st), !.open = FALSE]
    BY <1>7 DEF ReadLine
  <2> HIDE DEF new
  <2>2. new = [entries |-> ClosedEntry(st), open |-> FALSE, entry |-> st.entry, said |-> st.said]
    BY <1>5, <2>1 DEF IsReader
  <2>3. new.entries = DecidedBy(log, m + 1) /\ new.open = FALSE /\ IsReader(new)
    BY <1>3, <1>4, <1>7, <2>2 DEF IsReader
  <2>4. ReadUpto(new, log, m + 1)
    BY <2>3 DEF ReadUpto
  <2> QED BY <2>4 DEF new
<1>8. CASE line.kind = "text"
  <2>0. DecidedBy(log, m + 1) = DecidedBy(log, m)
    BY <1>4, <1>8
  <2>1. new = IF st.open THEN [st EXCEPT !.said = @ \cup line.said] ELSE st
    BY <1>8 DEF ReadLine
  <2> HIDE DEF new
  <2>2. CASE ~st.open
    BY <2>0, <2>1, <2>2 DEF ReadUpto, new
  <2>3. CASE st.open
    <3>1. new = [entries |-> st.entries, open |-> st.open, entry |-> st.entry, said |-> st.said \cup line.said]
      BY <1>5, <2>1, <2>3 DEF IsReader
    <3>2. /\ new.entries = st.entries /\ new.open = TRUE /\ new.entry = st.entry
          /\ new.said = st.said \cup line.said /\ IsReader(new)
      BY <1>5, <2>3, <3>1 DEF IsReader
    <3>3. PICK h \in 1..m : OpenedAt(st, log, m, h)
      BY <2>3 DEF ReadUpto
    <3>4. h \in 1..(m + 1) /\ \A j : j \in h..(m + 1) <=> j \in h..m \/ j = m + 1
      BY ONLY m \in Nat, h \in 1..m
    <3>5. UNION {log[j].said : j \in h..(m + 1)} = (UNION {log[j].said : j \in h..m}) \cup line.said
      BY <3>4
    <3>6. ASSUME NEW k \in (h + 1)..(m + 1) PROVE log[k].kind = "text"
      <4>1. k = m + 1 \/ k \in (h + 1)..m
        BY ONLY m \in Nat, h \in 1..m, k \in (h + 1)..(m + 1)
      <4> QED BY <1>8, <3>3, <4>1 DEF OpenedAt
    <3>7. OpenedAt(new, log, m + 1, h)
      BY <2>0, <3>2, <3>3, <3>5, <3>6 DEF OpenedAt
    <3>8. ReadUpto(new, log, m + 1)
      BY <3>2, <3>4, <3>7 DEF ReadUpto
    <3> QED BY <3>8 DEF new
  <2> QED BY <1>5, <2>2, <2>3
<1> QED BY <1>2, <1>6, <1>7, <1>8

LEMMA LogIsRead ==
  ASSUME NEW log, IsLog(log)
  PROVE  LoadQ1(log) = Decisions(log)
<1> DEFINE n == Len(log)
           base == [entries |-> <<>>, open |-> FALSE, entry |-> Blank, said |-> {}]
<1>1. n \in Nat /\ DOMAIN log = 1..n
  BY DecidedFacts
<1> HIDE DEF base
<1>2. PICK held : Chain("line", base, held, log) /\ FoldLeft(ReadLine, base, log) = held[n]
  BY <1>1, FoldsLines
<1> DEFINE Good == {m \in Nat : m <= n => ReadUpto(held[m], log, m)}
<1>3. 0 \in Good
  <2>1. held[0] = base
    BY <1>2 DEF Chain
  <2>2. base.entries = <<>> /\ base.open = FALSE /\ IsReader(base)
    BY DEF base, IsReader
  <2>3. ReadUpto(base, log, 0)
    BY <2>2, DecidedFacts DEF ReadUpto
  <2> QED BY <2>1, <2>3
<1>4. ASSUME NEW m \in Nat, m \in Good PROVE m + 1 \in Good
  <2>1. ASSUME m + 1 <= n PROVE ReadUpto(held[m + 1], log, m + 1)
    <3>1. m <= n /\ m + 1 \in 1..n /\ (m + 1) - 1 = m
      BY <1>1, <2>1
    <3>2. ReadUpto(held[m], log, m)
      BY <1>4, <3>1
    <3>3. held[m + 1] = ReadLine(held[m], log[m + 1])
      <4>1. held[m + 1] = Once("line", held[(m + 1) - 1], log[m + 1])
        BY <1>2, <3>1 DEF Chain
      <4> QED BY <3>1, <4>1 DEF Once
    <3> QED BY <2>1, <3>2, <3>3, ReadsOneMore
  <2> QED BY <2>1
<1>5. ReadUpto(held[n], log, n)
  <2>1. n \in Good
    <3> HIDE DEF Good
    <3> QED BY <1>1, <1>3, <1>4, NatSetInduction
  <2> QED BY <1>1, <2>1
<1>6. ClosedEntry(held[n]) = DecidedBy(log, n)
  BY <1>1, <1>5, ClosedIsDecided
<1>7. LoadQ1(log) = ClosedEntry(held[n])
  BY <1>2 DEF LoadQ1, base
<1> QED BY <1>6, <1>7, DecidedFacts

------------------------------------------------------------------------------
(****************************************************************************)
(* The index of what has been said, and the reports made with it.            *)
(****************************************************************************)
SaysFirst(said, s, n) == s \in said[n].subjects /\ \A m \in 1..(n - 1) : s \notin said[m].subjects
FirstToSay(said, s) == CHOOSE n \in DOMAIN said : SaysFirst(said, s, n)
Spoken(said) == UNION {said[n].subjects : n \in DOMAIN said}
IndexOf(index, said) ==
  /\ DOMAIN index = Spoken(said)
  /\ \A s \in Spoken(said) : index[s] = said[FirstToSay(said, s)].id

ClaimedUpto(index, said, m) ==
  /\ \A s : s \in DOMAIN index <=> \E k \in 1..m : s \in said[k].subjects
  /\ \A s \in DOMAIN index : \E k \in 1..m : SaysFirst(said, s, k) /\ index[s] = said[k].id

LEMMA ClaimsOneMore ==
  ASSUME NEW said, NEW m \in Nat, NEW index, ClaimedUpto(index, said, m)
  PROVE  ClaimedUpto(Claim(index, said[m + 1]), said, m + 1)
<1> DEFINE source == said[m + 1]
           new == Claim(index, source)
<1>1. /\ DOMAIN new = DOMAIN index \cup source.subjects
      /\ \A s \in DOMAIN new : new[s] = IF s \in DOMAIN index THEN index[s] ELSE source.id
  BY DEF Claim
<1> HIDE DEF new
<1>2. \A k : k \in 1..(m + 1) <=> k \in 1..m \/ k = m + 1
  BY ONLY m \in Nat
<1>3. \A s : s \in DOMAIN new <=> \E k \in 1..(m + 1) : s \in said[k].subjects
  BY <1>1, <1>2 DEF ClaimedUpto
<1>4. ASSUME NEW s \in DOMAIN new
      PROVE  \E k \in 1..(m + 1) : SaysFirst(said, s, k) /\ new[s] = said[k].id
  <2>1. CASE s \in DOMAIN index
    <3>1. PICK k \in 1..m : SaysFirst(said, s, k) /\ index[s] = said[k].id
      BY <2>1 DEF ClaimedUpto
    <3> QED BY <1>1, <1>2, <2>1, <3>1
  <2>2. CASE s \notin DOMAIN index
    <3>1. s \in source.subjects /\ new[s] = source.id
      BY <1>1, <2>2
    <3>2. \A k \in 1..m : s \notin said[k].subjects
      BY <2>2 DEF ClaimedUpto
    <3>3. (m + 1) - 1 = m
      BY ONLY m \in Nat
    <3>4. SaysFirst(said, s, m + 1)
      BY <3>1, <3>2, <3>3 DEF SaysFirst
    <3> QED BY <1>2, <3>1, <3>4
  <2> QED BY <2>1, <2>2
<1>5. ClaimedUpto(new, said, m + 1)
  BY <1>3, <1>4 DEF ClaimedUpto
<1> QED BY <1>5 DEF new

LEMMA ClaimsAreFirst ==
  ASSUME NEW said, Len(said) \in Nat, DOMAIN said = 1..Len(said)
  PROVE  IndexOf(FoldLeft(Claim, <<>>, said), said)
<1> DEFINE n == Len(said)
<1>1. PICK held : Chain("claim", <<>>, held, said) /\ FoldLeft(Claim, <<>>, said) = held[n]
  BY FoldsClaims
<1> DEFINE Good == {m \in Nat : m <= n => ClaimedUpto(held[m], said, m)}
<1>2. 0 \in Good
  <2>1. held[0] = <<>> /\ DOMAIN <<>> = {} /\ \A k : k \notin 1..0
    BY <1>1 DEF Chain
  <2>2. ClaimedUpto(held[0], said, 0)
    BY <2>1 DEF ClaimedUpto
  <2> QED BY <2>2
<1>3. ASSUME NEW m \in Nat, m \in Good PROVE m + 1 \in Good
  <2>1. ASSUME m + 1 <= n PROVE ClaimedUpto(held[m + 1], said, m + 1)
    <3>1. m <= n /\ m + 1 \in 1..n /\ (m + 1) - 1 = m
      BY <2>1
    <3>2. ClaimedUpto(held[m], said, m)
      BY <1>3, <3>1
    <3>3. held[m + 1] = Claim(held[m], said[m + 1])
      <4>1. held[m + 1] = Once("claim", held[(m + 1) - 1], said[m + 1])
        BY <1>1, <3>1 DEF Chain
      <4> QED BY <3>1, <4>1 DEF Once
    <3> QED BY <3>2, <3>3, ClaimsOneMore
  <2> QED BY <2>1
<1> DEFINE index == held[n]
<1>4. ClaimedUpto(index, said, n)
  <2>1. n \in Good
    <3> HIDE DEF Good
    <3> QED BY <1>2, <1>3, NatSetInduction
  <2> QED BY <2>1
<1> HIDE DEF index
<1>5. DOMAIN index = Spoken(said)
  BY <1>4 DEF ClaimedUpto, Spoken
<1>6. ASSUME NEW s \in Spoken(said) PROVE index[s] = said[FirstToSay(said, s)].id
  <2>1. PICK k \in 1..n : SaysFirst(said, s, k) /\ index[s] = said[k].id
    BY <1>4, <1>5 DEF ClaimedUpto
  <2>2. FirstToSay(said, s) \in 1..n /\ SaysFirst(said, s, FirstToSay(said, s))
    BY <2>1 DEF FirstToSay
  <2> DEFINE j == FirstToSay(said, s)
  <2> HIDE DEF j
  <2>3. j \in 1..n /\ SaysFirst(said, s, j)
    BY <2>2 DEF j
  <2>4. ~(j < k)
    <3>1. j < k => j \in 1..(k - 1)
      BY <2>3
    <3> QED BY <2>1, <2>3, <3>1 DEF SaysFirst
  <2>5. ~(k < j)
    <3>1. k < j => k \in 1..(j - 1)
      BY <2>3
    <3> QED BY <2>1, <2>3, <3>1 DEF SaysFirst
  <2>6. j = k
    BY <2>3, <2>4, <2>5
  <2> QED BY <2>1, <2>6 DEF j
<1>7. IndexOf(index, said)
  BY <1>5, <1>6 DEF IndexOf
<1> QED BY <1>1, <1>7 DEF index

Annotated(report, said) ==
  /\ \A e \in report.new : e.subjects \cap Spoken(said) = {}
  /\ \A o \in report.overlaps :
       /\ o.by = {said[FirstToSay(said, s)].id : s \in o.entry.subjects \cap Spoken(said)}
       /\ o.by # {}

LEMMA ReportsAreAnnotated ==
  ASSUME NEW said, NEW index, IndexOf(index, said), NEW found
  PROVE  Annotated(Report(found, index), said)
<1> DEFINE known == Spoken(said)
           report == Report(found, index)
<1>1. DOMAIN index = known /\ \A s \in known : index[s] = said[FirstToSay(said, s)].id
  BY DEF IndexOf
<1>2. \A subjects : OverlapsFor(subjects, index) = {index[s] : s \in subjects \cap known}
  BY <1>1 DEF OverlapsFor
<1>3. /\ report.new = {e \in found : OverlapsFor(e.subjects, index) = {}}
      /\ report.overlaps = {[entry |-> e, by |-> OverlapsFor(e.subjects, index)] :
                              e \in {x \in found : OverlapsFor(x.subjects, index) # {}}}
  BY DEF Report
<1> HIDE DEF known, report
<1>4. ASSUME NEW e \in report.new PROVE e.subjects \cap known = {}
  <2>1. {index[s] : s \in e.subjects \cap known} = {}
    BY <1>2, <1>3
  <2> QED BY <2>1
<1>5. ASSUME NEW o \in report.overlaps
      PROVE  o.by = {said[FirstToSay(said, s)].id : s \in o.entry.subjects \cap known} /\ o.by # {}
  <2>1. PICK e \in found : o = [entry |-> e, by |-> OverlapsFor(e.subjects, index)] /\ OverlapsFor(e.subjects, index) # {}
    BY <1>3
  <2>2. o.entry = e /\ o.by = OverlapsFor(e.subjects, index)
    BY <2>1
  <2>3. o.by = {index[s] : s \in o.entry.subjects \cap known}
    BY <1>2, <2>2
  <2>4. {index[s] : s \in o.entry.subjects \cap known} = {said[FirstToSay(said, s)].id : s \in o.entry.subjects \cap known}
    BY <1>1
  <2> QED BY <2>1, <2>2, <2>3, <2>4
<1> QED BY <1>4, <1>5 DEF Annotated, known, report

LEMMA MechanicalReports ==
  ASSUME NEW model, NEW log, NEW findings, NEW testable, NEW n \in 1..4
  PROVE  \E found : RunQueries(model, log, findings, testable).mechanical[n] =
                      Report(found, ArchaeologicalIndex(LoadQ1(log), findings))
<1> DEFINE index == ArchaeologicalIndex(LoadQ1(log), findings)
           r1 == Q1Report(model, index)
           r2 == Q2Report(model, index)
           r3 == Q3Report(model, index)
           r4 == Q4Report(model, testable, index)
<1>1. RunQueries(model, log, findings, testable).mechanical = <<r1, r2, r3, r4>>
  BY DEF RunQueries
<1> HIDE DEF index
<1>2. \E found : r1 = Report(found, index)
  BY DEF Q1Report
<1>3. \E found : r2 = Report(found, index)
  BY DEF Q2Report
<1>4. \E found : r3 = Report(found, index)
  BY DEF Q3Report
<1>5. \E found : r4 = Report(found, index)
  BY DEF Q4Report
<1> HIDE DEF r1, r2, r3, r4
<1>6. n = 1 \/ n = 2 \/ n = 3 \/ n = 4
  OBVIOUS
<1> QED BY <1>1, <1>2, <1>3, <1>4, <1>5, <1>6 DEF index

------------------------------------------------------------------------------
(****************************************************************************)
(* The findings, counted.                                                    *)
(****************************************************************************)
AreFindings(F) == \A f \in F : f.query \in {"Q2", "Q3"} /\ f.ruled \in BOOLEAN

LEMMA FindingsAre ==
  ASSUME NEW rows, IsList(rows)
  PROVE  \E F : ParseFindings(rows) \in Seq(F) /\ AreFindings(F)
<1> DEFINE R == {rows[i] : i \in 1..Len(rows)}
           places == {n \in DOMAIN rows : IsFinding(rows[n])}
           found == EntriesAt(rows, places)
           F == {Finding(r) : r \in {x \in R : IsFinding(x)}}
           findings == [n \in DOMAIN found |-> Finding(found[n])]
<1>1. rows \in Seq(R)
  BY ListSeq
<1>2. PICK p : ArePlaces(p, Len(rows), places) /\ Picked(found, rows, p)
  BY <1>1, EntriesPicked
<1>3. found \in Seq(R)
  BY <1>1, EntriesType
<1>4. Len(found) \in Nat /\ DOMAIN found = 1..Len(found)
  BY <1>3, LenProperties
<1>5. \A n \in 1..Len(found) : found[n] \in R
  BY <1>3, ElementOfSeq
<1>6. ASSUME NEW n \in 1..Len(found) PROVE IsFinding(found[n])
  <2>1. n \in 1..Len(p) /\ found[n] = rows[p[n]]
    BY <1>2, <1>6 DEF Picked
  <2>2. p[n] \in places
    BY <1>2, <2>1 DEF ArePlaces
  <2> QED BY <2>1, <2>2
<1>7. ParseFindings(rows) = findings
  BY DEF ParseFindings
<1> HIDE DEF R, found
<1>8. \A n \in 1..Len(found) : Finding(found[n]) \in F
  BY <1>5, <1>6
<1>9. AreFindings(F)
  <2>1. ASSUME NEW r \in {x \in R : IsFinding(x)} PROVE Finding(r).query = r.query /\ Finding(r).ruled = (r.ruled # "no")
    BY DEF Finding
  <2> QED BY <2>1 DEF AreFindings, IsFinding
<1> HIDE DEF F
<1>10. findings \in [1..Len(found) -> F]
  BY <1>4, <1>8
<1>11. findings \in Seq(F)
  BY <1>4, <1>10, FunctionSeq
<1> QED BY <1>7, <1>9, <1>11

\* As many names as are asked for, all of them there: each is there once, and no other.
LEMMA EachNameOnce ==
  ASSUME NEW n \in Nat, NEW names, DOMAIN names = 1..n, names = [i \in 1..n |-> names[i]],
         NEW E, IsFiniteSet(E), n = Cardinality(E), \A e \in E : \E i \in 1..n : names[i] = e
  PROVE  /\ \A i \in 1..n : names[i] \in E
         /\ \A i, j \in 1..n : names[i] = names[j] => i = j
<1> DEFINE S == 1..n
           T == {names[i] : i \in S}
<1>1. IsFiniteSet(S) /\ Cardinality(S) = n
  <2>1. 1 \in Int /\ n \in Int /\ n = IF 1 > n THEN 0 ELSE n - 1 + 1
    BY ONLY n \in Nat
  <2> QED BY <2>1, FS_Interval
<1>2. names \in Surjection(S, T)
  BY DEF Surjection
<1>3. E \in SUBSET T
  OBVIOUS
<1> HIDE DEF S, T
<1>4. /\ IsFiniteSet(T) /\ Cardinality(T) <= Cardinality(S)
      /\ Cardinality(T) = Cardinality(S) <=> names \in Injection(S, T)
  BY <1>1, <1>2, FS_Surjection
<1>5. Cardinality(E) <= Cardinality(T) /\ (Cardinality(T) = Cardinality(E) => T = E)
  BY <1>3, <1>4, FS_Subset
<1>6. Cardinality(T) \in Nat
  BY <1>4, FS_CardinalityType
<1>7. Cardinality(T) = n
  BY <1>1, <1>4, <1>5, <1>6
<1>8. T = E /\ names \in Injection(S, T)
  BY <1>1, <1>4, <1>5, <1>7
<1> QED BY <1>8 DEF S, T, Injection, IsInjective

\* Places taken without repetition, all of them: as many as there are.
LEMMA AllPlacesOnce ==
  ASSUME NEW n \in Nat, NEW w \in Seq(1..n),
         \A i, j \in 1..Len(w) : w[i] = w[j] => i = j,
         \A k \in 1..n : \E i \in 1..Len(w) : w[i] = k
  PROVE  Len(w) = n
<1> DEFINE S == 1..Len(w)
           T == 1..n
<1>0. Len(w) \in Nat /\ DOMAIN w = S /\ \A i \in S : w[i] \in T
  BY LenProperties, ElementOfSeq
<1>1. IsFiniteSet(S) /\ Cardinality(S) = Len(w)
  <2> DEFINE m == Len(w)
  <2> HIDE DEF m
  <2>1. m \in Nat
    BY <1>0 DEF m
  <2>2. 1 \in Int /\ m \in Int /\ m = IF 1 > m THEN 0 ELSE m - 1 + 1
    BY ONLY <2>1
  <2> QED BY <2>2, FS_Interval DEF m
<1>2. IsFiniteSet(T) /\ Cardinality(T) = n
  <2>1. 1 \in Int /\ n \in Int /\ n = IF 1 > n THEN 0 ELSE n - 1 + 1
    BY ONLY n \in Nat
  <2> QED BY <2>1, FS_Interval
<1>3. w \in [S -> T]
  <2>1. w = [i \in 1..Len(w) |-> w[i]]
    BY LenProperties
  <2> QED BY <1>0, <2>1
<1>4. w \in Bijection(S, T)
  <2>1. w \in Injection(S, T)
    BY <1>3 DEF Injection, IsInjective
  <2>2. w \in Surjection(S, T)
    BY <1>3 DEF Surjection
  <2> QED BY <2>1, <2>2 DEF Bijection
<1>5. Cardinality(T) = Cardinality(S)
  BY <1>1, <1>4, FS_Bijection DEF ExistsBijection
<1> QED BY <1>1, <1>2, <1>5

\* The rulings on a function are of findings in the ledger.
LEMMA RulingsInLedger ==
  ASSUME NEW F, NEW findings \in Seq(F), NEW function
  PROVE  ToSet(RulingsOf(function, findings)) \subseteq ToSet(SupersessionLedger(findings))
<1> DEFINE n == Len(findings)
           mine == {k \in DOMAIN findings : findings[k].ruled /\ Fun(function.id) \in findings[k].observation}
           all == {k \in DOMAIN findings : findings[k].ruled}
           a == EntriesAt(findings, mine)
           b == EntriesAt(findings, all)
<1>1. PICK p : ArePlaces(p, n, mine) /\ Picked(a, findings, p)
  BY EntriesPicked
<1>2. PICK q : ArePlaces(q, n, all) /\ Picked(b, findings, q)
  BY EntriesPicked
<1>3. a \in Seq(F) /\ b \in Seq(F)
  BY EntriesType
<1>4. DOMAIN a = 1..Len(a) /\ DOMAIN b = 1..Len(b)
  BY <1>3, LenProperties
<1>5. DOMAIN findings = 1..n
  BY LenProperties
<1>6. mine \subseteq all
  OBVIOUS
<1>7. RulingsOf(function, findings) = a /\ SupersessionLedger(findings) = b
  BY DEF RulingsOf, SupersessionLedger
<1> HIDE DEF mine, all, a, b
<1>8. ASSUME NEW m \in DOMAIN a PROVE \E k \in DOMAIN b : b[k] = a[m]
  <2>1. m \in 1..Len(p) /\ a[m] = findings[p[m]]
    BY <1>1, <1>4 DEF Picked
  <2>2. p[m] \in mine /\ p[m] \in 1..n
    BY <1>1, <2>1, ElementOfSeq DEF ArePlaces
  <2>3. PICK k \in 1..Len(q) : q[k] = p[m]
    BY <1>2, <1>6, <2>2 DEF ArePlaces
  <2> QED BY <1>2, <1>4, <2>1, <2>3 DEF Picked
<1> QED BY <1>7, <1>8 DEF ToSet

------------------------------------------------------------------------------
Listed(findings) == Q2Archaeology(findings) \o Q3Archaeology(findings)

\* Every finding is listed, each once.
LEMMA ListedOnce ==
  ASSUME NEW F, AreFindings(F), NEW findings \in Seq(F)
  PROVE  \E w : /\ w \in Seq(1..Len(findings)) /\ Len(Listed(findings)) = Len(w)
                /\ DOMAIN Listed(findings) = 1..Len(w)
                /\ \A m \in 1..Len(w) : Listed(findings)[m] = findings[w[m]]
                /\ \A i, j \in 1..Len(w) : w[i] = w[j] => i = j
                /\ \A k \in 1..Len(findings) : \E i \in 1..Len(w) : w[i] = k
<1> DEFINE n == Len(findings)
           two == {k \in DOMAIN findings : findings[k].query = "Q2"}
           three == {k \in DOMAIN findings : findings[k].query = "Q3"}
           a == EntriesAt(findings, two)
           b == EntriesAt(findings, three)
<1>1. PICK p : ArePlaces(p, n, two) /\ Picked(a, findings, p)
  BY EntriesPicked
<1>2. PICK q : ArePlaces(q, n, three) /\ Picked(b, findings, q)
  BY EntriesPicked
<1>3. a \in Seq(F) /\ b \in Seq(F)
  BY EntriesType
<1>4. n \in Nat /\ DOMAIN findings = 1..n /\ \A k \in 1..n : findings[k].query \in {"Q2", "Q3"}
  BY LenProperties, ElementOfSeq DEF AreFindings
<1>5. Listed(findings) = a \o b
  BY DEF Listed, Q2Archaeology, Q3Archaeology
<1>6. \A k \in 1..n : k \in two \/ k \in three
  BY <1>4
<1>7. \A k : ~(k \in two /\ k \in three)
  OBVIOUS
<1> HIDE DEF two, three, a, b, n
<1>8. /\ p \in Seq(1..n) /\ q \in Seq(1..n) /\ Len(a) = Len(p) /\ Len(b) = Len(q)
      /\ Len(p) \in Nat /\ Len(q) \in Nat
      /\ \A m \in 1..Len(p) : p[m] \in two /\ a[m] = findings[p[m]] /\ p[m] \in 1..n
      /\ \A m \in 1..Len(q) : q[m] \in three /\ b[m] = findings[q[m]] /\ q[m] \in 1..n
  <2>1. p \in Seq(1..n) /\ q \in Seq(1..n)
    BY <1>1, <1>2 DEF ArePlaces
  <2>2. \A m \in 1..Len(p) : p[m] \in 1..n
    BY <2>1, ElementOfSeq
  <2>3. \A m \in 1..Len(q) : q[m] \in 1..n
    BY <2>1, ElementOfSeq
  <2>4. Len(p) \in Nat /\ Len(q) \in Nat
    BY <2>1, LenProperties
  <2> QED BY <1>1, <1>2, <2>1, <2>2, <2>3, <2>4 DEF ArePlaces, Picked
<1> DEFINE w == p \o q
           l == a \o b
<1>9. /\ w \in Seq(1..n) /\ Len(w) = Len(p) + Len(q)
      /\ \A i \in 1..(Len(p) + Len(q)) : w[i] = IF i <= Len(p) THEN p[i] ELSE q[i - Len(p)]
  BY <1>8, ConcatProperties
<1>10. /\ l \in Seq(F) /\ Len(l) = Len(p) + Len(q)
       /\ \A i \in 1..(Len(p) + Len(q)) : l[i] = IF i <= Len(p) THEN a[i] ELSE b[i - Len(p)]
  <2>1. /\ l \in Seq(F) /\ Len(l) = Len(a) + Len(b)
        /\ \A i \in 1..(Len(a) + Len(b)) : l[i] = IF i <= Len(a) THEN a[i] ELSE b[i - Len(a)]
    BY <1>3, ConcatProperties
  <2> QED BY <1>8, <2>1
<1> HIDE DEF w, l
<1>11. DOMAIN l = 1..Len(w)
  BY <1>9, <1>10, LenProperties
<1>12. \A i \in 1..Len(w) : i \in 1..Len(p) \/ (~(i <= Len(p)) /\ i - Len(p) \in 1..Len(q))
  <2>1. \A i \in 1..(Len(p) + Len(q)) : i \in 1..Len(p) \/ (~(i <= Len(p)) /\ i - Len(p) \in 1..Len(q))
    BY ONLY <1>8
  <2> QED BY <1>9, <2>1
<1>13. ASSUME NEW i \in 1..Len(w) PROVE l[i] = findings[w[i]]
  <2>0. i \in 1..(Len(p) + Len(q))
    BY <1>9
  <2>1. CASE i \in 1..Len(p)
    <3>1. i <= Len(p)
      BY <2>1
    <3>2. w[i] = p[i] /\ l[i] = a[i]
      BY <1>9, <1>10, <2>0, <3>1
    <3> QED BY <1>8, <2>1, <3>2
  <2>2. CASE ~(i <= Len(p)) /\ i - Len(p) \in 1..Len(q)
    <3>1. w[i] = q[i - Len(p)] /\ l[i] = b[i - Len(p)]
      BY <1>9, <1>10, <2>0, <2>2
    <3> QED BY <1>8, <2>2, <3>1
  <2> QED BY <1>12, <2>1, <2>2
<1>14. ASSUME NEW i \in 1..Len(w), NEW j \in 1..Len(w), w[i] = w[j] PROVE i = j
  <2>1. CASE i \in 1..Len(p) /\ j \in 1..Len(p)
    <3>1. w[i] = p[i] /\ w[j] = p[j]
      BY <1>8, <1>9, <2>1
    <3>2. i < j => p[i] < p[j]
      BY <1>1, <2>1 DEF ArePlaces
    <3>3. j < i => p[j] < p[i]
      BY <1>1, <2>1 DEF ArePlaces
    <3>4. p[i] \in 1..n /\ p[j] \in 1..n
      BY <1>8, <2>1
    <3>5. p[i] = p[j] /\ p[i] \in Int /\ i \in Int /\ j \in Int
      <4>1. p[i] = p[j]
        BY <1>14, <3>1
      <4>2. p[i] \in Int
        BY <3>4
      <4>3. i \in Int /\ j \in Int
        BY <2>1
      <4> QED BY <4>1, <4>2, <4>3
    <3> QED BY ONLY <3>2, <3>3, <3>5
  <2>2. CASE ~(i <= Len(p)) /\ ~(j <= Len(p))
    <3> DEFINE x == i - Len(p)
               y == j - Len(p)
    <3>0. x \in 1..Len(q) /\ y \in 1..Len(q)
      BY <1>8, <1>12, <2>2
    <3>1. w[i] = q[x] /\ w[j] = q[y]
      BY <1>9, <2>2
    <3>2. x < y => q[x] < q[y]
      BY <1>2, <3>0 DEF ArePlaces
    <3>3. y < x => q[y] < q[x]
      BY <1>2, <3>0 DEF ArePlaces
    <3>4. q[x] \in 1..n /\ q[y] \in 1..n
      BY <1>8, <3>0
    <3> HIDE DEF x, y
    <3>5. q[x] = q[y] /\ q[x] \in Int /\ x \in Int /\ y \in Int
      <4>1. q[x] = q[y]
        BY <1>14, <3>1
      <4>2. q[x] \in Int
        BY <3>4
      <4>3. x \in Int /\ y \in Int
        BY <3>0
      <4> QED BY <4>1, <4>2, <4>3
    <3>6. x = y
      BY ONLY <3>2, <3>3, <3>5
    <3>7. i \in Int /\ j \in Int /\ Len(p) \in Int
      BY <1>8
    <3> QED BY ONLY <3>6, <3>7 DEF x, y
  <2>3. CASE i \in 1..Len(p) /\ ~(j <= Len(p))
    <3>1. w[i] = p[i] /\ w[j] = q[j - Len(p)] /\ j - Len(p) \in 1..Len(q)
      BY <1>8, <1>9, <1>12, <2>3
    <3>2. w[i] \in two /\ w[j] \in three
      BY <1>8, <2>3, <3>1
    <3> QED BY <1>7, <1>14, <3>2
  <2>4. CASE ~(i <= Len(p)) /\ j \in 1..Len(p)
    <3>1. w[j] = p[j] /\ w[i] = q[i - Len(p)] /\ i - Len(p) \in 1..Len(q)
      BY <1>8, <1>9, <1>12, <2>4
    <3>2. w[j] \in two /\ w[i] \in three
      BY <1>8, <2>4, <3>1
    <3> QED BY <1>7, <1>14, <3>2
  <2> QED BY <1>12, <2>1, <2>2, <2>3, <2>4
<1>15. ASSUME NEW k \in 1..n PROVE \E i \in 1..Len(w) : w[i] = k
  <2>1. CASE k \in two
    <3>1. PICK m \in 1..Len(p) : p[m] = k
      BY <1>1, <2>1 DEF ArePlaces
    <3>2. m \in 1..Len(w) /\ m \in 1..(Len(p) + Len(q)) /\ m <= Len(p)
      BY <1>8, <1>9
    <3> QED BY <1>9, <3>1, <3>2
  <2>2. CASE k \in three
    <3>1. PICK m \in 1..Len(q) : q[m] = k
      BY <1>2, <2>2 DEF ArePlaces
    <3> DEFINE i == Len(p) + m
    <3>2. i \in 1..(Len(p) + Len(q)) /\ ~(i <= Len(p)) /\ i - Len(p) = m
      BY <1>8
    <3>3. w[i] = q[m] /\ i \in 1..Len(w)
      BY <1>9, <3>2
    <3> QED BY <3>1, <3>3
  <2> QED BY <1>6, <2>1, <2>2
<1>16. w \in Seq(1..n) /\ Len(l) = Len(w)
  BY <1>9, <1>10
<1>17. /\ w \in Seq(1..Len(findings)) /\ Len(Listed(findings)) = Len(w)
       /\ DOMAIN Listed(findings) = 1..Len(w)
       /\ \A m \in 1..Len(w) : Listed(findings)[m] = findings[w[m]]
  BY <1>5, <1>11, <1>13, <1>16 DEF l, n
<1>18. \A i, j \in 1..Len(w) : w[i] = w[j] => i = j
  BY <1>14
<1>19. \A k \in 1..Len(findings) : \E i \in 1..Len(w) : w[i] = k
  BY <1>15 DEF n
<1> QED BY <1>17, <1>18, <1>19

\* When the findings gate is green, each finding it asks for is listed once, and nothing else.
LEMMA CoveredAreListed ==
  ASSUME NEW F, AreFindings(F), NEW findings \in Seq(F), FindingsCovered(findings, {})
  PROVE  /\ Len(Listed(findings)) = Cardinality(ExpectedFindings)
         /\ \A id \in ExpectedFindings : Cardinality({n \in DOMAIN Listed(findings) : Listed(findings)[n].id = id}) = 1
<1> DEFINE n == Len(findings)
           names == [i \in 1..n |-> findings[i].id]
           listed == Listed(findings)
           E == ExpectedFindings
<1>1. n \in Nat /\ DOMAIN findings = 1..n
  BY LenProperties
<1>2. ToSet(findings) = {findings[i] : i \in 1..n}
  BY <1>1 DEF ToSet
<1>3. \A i \in 1..n : findings[i].ruled
  BY <1>2 DEF FindingsCovered
<1>4. SupersessionLedger(findings) = findings
  <2> DEFINE all == {k \in DOMAIN findings : findings[k].ruled}
  <2>1. \A i \in 1..Len(findings) : i \in all
    BY <1>1, <1>3
  <2> HIDE DEF all
  <2>2. EntriesAt(findings, all) = findings
    BY <2>1, EntriesAll
  <2> QED BY <2>2 DEF SupersessionLedger, all
<1>5. n = Cardinality(E)
  BY <1>4 DEF FindingsCovered
<1>6. \A e \in E : \E i \in 1..n : names[i] = e
  <2>1. E \subseteq {f.id : f \in ToSet(findings)}
    BY DEF FindingsCovered
  <2> QED BY <1>2, <2>1
<1>7. DOMAIN names = 1..n /\ names = [i \in 1..n |-> names[i]] /\ \A i \in 1..n : names[i] = findings[i].id
  OBVIOUS
<1>8. IsFiniteSet(E)
  BY DocumentsAssumption
<1> HIDE DEF names, n, E
<1>9. \A i, j \in 1..n : names[i] = names[j] => i = j
  BY <1>1, <1>5, <1>6, <1>7, <1>8, EachNameOnce
<1>10. PICK w : /\ w \in Seq(1..n) /\ Len(listed) = Len(w) /\ DOMAIN listed = 1..Len(w)
                /\ \A m \in 1..Len(w) : listed[m] = findings[w[m]]
                /\ \A i, j \in 1..Len(w) : w[i] = w[j] => i = j
                /\ \A k \in 1..n : \E i \in 1..Len(w) : w[i] = k
  BY ListedOnce, SMTT(30) DEF n
<1> HIDE DEF listed
<1>11. Len(w) = n
  BY <1>1, <1>10, AllPlacesOnce
<1>12. \A m \in 1..Len(w) : w[m] \in 1..n
  BY <1>10, ElementOfSeq
<1>13. ASSUME NEW id \in E PROVE Cardinality({m \in DOMAIN listed : listed[m].id = id}) = 1
  <2>1. PICK k \in 1..n : names[k] = id
    BY <1>6
  <2>2. PICK i \in 1..Len(w) : w[i] = k
    BY <1>10
  <2>3. ASSUME NEW m \in 1..Len(w) PROVE listed[m].id = id <=> m = i
    <3>1. listed[m].id = names[w[m]] /\ w[m] \in 1..n
      BY <1>7, <1>10, <1>12
    <3>2. names[w[m]] = names[w[i]] => m = i
      BY <1>9, <1>10, <2>2, <3>1
    <3> QED BY <2>1, <2>2, <3>1, <3>2
  <2>4. {m \in DOMAIN listed : listed[m].id = id} = {i}
    BY <1>10, <2>2, <2>3
  <2> QED BY <2>4, FS_Singleton
<1> QED BY <1>5, <1>10, <1>11, <1>13 DEF listed, E

------------------------------------------------------------------------------
Sayings(findings) ==
  [n \in DOMAIN findings |->
     [id |-> findings[n].id, subjects |-> SubjectIdentifiers(findings[n].subject \cup findings[n].observation)]]
Said(log, findings) == Decisions(log) \o Sayings(findings)

LEMMA SaidIsList ==
  ASSUME NEW log, IsLog(log), NEW F, NEW findings \in Seq(F)
  PROVE  Len(Said(log, findings)) \in Nat /\ DOMAIN Said(log, findings) = 1..Len(Said(log, findings))
<1> DEFINE a == [i \in DOMAIN log |-> Decision(log, i)]
           b == Sayings(findings)
           A == {a[i] : i \in DOMAIN log}
           B == {b[i] : i \in DOMAIN findings}
           S == A \cup B
<1>1. Len(log) \in Nat /\ DOMAIN log = 1..Len(log)
  BY DecidedFacts
<1>2. Len(findings) \in Nat /\ DOMAIN findings = 1..Len(findings)
  BY LenProperties
<1>3. a \in Seq(S)
  <2>1. a \in [1..Len(log) -> S]
    BY <1>1
  <2> HIDE DEF a, S
  <2> QED BY <1>1, <2>1, FunctionSeq
<1>4. b \in Seq(S)
  <2>1. b \in [1..Len(findings) -> S]
    BY <1>2 DEF Sayings
  <2> HIDE DEF b, S
  <2> QED BY <1>2, <2>1, FunctionSeq
<1>5. Decisions(log) = EntriesAt(a, {i \in DOMAIN log : log[i].kind = "heading"})
  BY DEF Decisions
<1> HIDE DEF a, b, S
<1>6. Decisions(log) \in Seq(S)
  BY <1>3, <1>5, EntriesType
<1>7. Decisions(log) \o b \in Seq(S)
  BY <1>4, <1>6, ConcatProperties
<1> QED BY <1>7, LenProperties DEF Said, b

LEMMA SaidIsIndexed ==
  ASSUME NEW log, IsLog(log), NEW F, NEW findings \in Seq(F)
  PROVE  IndexOf(ArchaeologicalIndex(LoadQ1(log), findings), Said(log, findings))
<1>1. ArchaeologicalIndex(LoadQ1(log), findings) = FoldLeft(Claim, <<>>, Said(log, findings))
  BY LogIsRead DEF ArchaeologicalIndex, Said, Sayings
<1> QED BY <1>1, SaidIsList, ClaimsAreFirst

------------------------------------------------------------------------------
\* The promise of the standing queries, of given reports.
NothingLost(reports, decisions, findings, said, functions) ==
  /\ reports.decided = [n \in DOMAIN decisions |-> decisions[n].id]
  /\ \A n \in 1..4 : Annotated(reports.mechanical[n], said)
  /\ FindingsCovered(findings, {}) =>
       LET listed == reports.found[1] \o reports.found[2]
       IN  /\ \A id \in ExpectedFindings : Cardinality({n \in DOMAIN listed : listed[n].id = id}) = 1
           /\ Len(listed) = Cardinality(ExpectedFindings)
           /\ \A f \in functions : ToSet(RulingsOf(f, findings)) \subseteq ToSet(SupersessionLedger(findings))

LEMMA NothingIsLost ==
  ASSUME NEW model, NEW log, IsLog(log), NEW rows, IsList(rows), NEW testable
  PROVE  QueriesLoseNothing(model, log, rows, testable)
<1> DEFINE findings == ParseFindings(rows)
           reports == RunQueries(model, log, findings, testable)
           said == Said(log, findings)
           index == ArchaeologicalIndex(LoadQ1(log), findings)
<1>1. PICK F : findings \in Seq(F) /\ AreFindings(F)
  BY FindingsAre
<1>2. QueriesLoseNothing(model, log, rows, testable)
        <=> NothingLost(reports, Decisions(log), findings, said, ToSet(model.functions))
  BY DEF QueriesLoseNothing, NothingLost, Annotated, FirstToSay, SaysFirst, Spoken, Said, Sayings
<1>3. /\ reports.decided = Q1Archaeology(LoadQ1(log))
      /\ reports.found = <<Q2Archaeology(findings), Q3Archaeology(findings)>>
  BY DEF RunQueries
<1>4. \A n \in 1..4 : \E found : reports.mechanical[n] = Report(found, index)
  BY MechanicalReports
<1> HIDE DEF findings, reports, said, index
<1>5. reports.decided = [n \in DOMAIN Decisions(log) |-> Decisions(log)[n].id]
  BY <1>3, LogIsRead DEF Q1Archaeology
<1>6. IndexOf(index, said)
  BY <1>1, SaidIsIndexed DEF index, said
<1>7. \A n \in 1..4 : Annotated(reports.mechanical[n], said)
  BY <1>4, <1>6, ReportsAreAnnotated
<1>8. reports.found[1] \o reports.found[2] = Listed(findings)
  BY <1>3 DEF Listed
<1>9. \A f : ToSet(RulingsOf(f, findings)) \subseteq ToSet(SupersessionLedger(findings))
  BY <1>1, RulingsInLedger
<1>10. ASSUME FindingsCovered(findings, {})
       PROVE  /\ \A id \in ExpectedFindings :
                   Cardinality({n \in DOMAIN Listed(findings) : Listed(findings)[n].id = id}) = 1
              /\ Len(Listed(findings)) = Cardinality(ExpectedFindings)
  BY <1>1, <1>10, CoveredAreListed
<1>11. NothingLost(reports, Decisions(log), findings, said, ToSet(model.functions))
  BY <1>5, <1>7, <1>8, <1>9, <1>10 DEF NothingLost
<1> QED BY <1>2, <1>11 DEF findings, reports, said

\* For every documents the registry is read from, whatever their length: no row of the machine
\* form is an orphan, redundant or unverified that the queries do not report, green gates leave
\* no orphan, and no gap is hidden; the queries read the log's decisions whole, name the first
\* to speak of every subject that is raised again, and when the findings gate is green list
\* each expected finding once.
THEOREM RegistryFormIsAsReportedHolds == RegistrySpec => []RegistryFormIsAsReported
<1>1. ASSUME registryDocs \in SUBSET RegistryDocs PROVE RegistryFormIsAsReported
  <2>1. ASSUME NEW doc \in registryDocs
        PROVE  /\ FormIsAsReported(doc, Testable)
               /\ QueriesLoseNothing(ParseSource(doc.v0, <<doc.old, doc.later>>), doc.log, doc.rows, Testable)
    <3>1. doc \in RegistryDocs
      BY <1>1
    <3>2. IsList(doc.v0) /\ IsList(doc.old) /\ IsList(doc.later) /\ IsLog(doc.log) /\ IsList(doc.rows)
      BY <3>1, DocumentsAssumption DEF IsLog
    <3>3. FormIsAsReported(doc, Testable)
      BY <3>2, FormOfLists
    <3>4. QueriesLoseNothing(ParseSource(doc.v0, <<doc.old, doc.later>>), doc.log, doc.rows, Testable)
      BY <3>2, NothingIsLost
    <3> QED BY <3>3, <3>4
  <2> QED BY <2>1 DEF RegistryFormIsAsReported
<1>2. ASSUME registryDocs \in SUBSET RegistryDocs, [FALSE]_registryDocs PROVE (registryDocs \in SUBSET RegistryDocs)'
  BY <1>2
<1> QED BY <1>1, <1>2, PTL DEF RegistrySpec
================================================================================
