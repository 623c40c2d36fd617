--------------------------- MODULE Redaction_proofs ---------------------------
(* For any archives and any requests, interrupted anywhere and repeated: the *)
(* rows that name a binary find it, what a completed redaction was asked to  *)
(* erase is gone, and what nobody asked for is as it was.                    *)
EXTENDS Anonymization, TLAPS, SequenceTheorems, FiniteSetTheorems, WellFoundedInduction

(*------------------------------- induction -------------------------------*)
LEMMA LeastNatural ==
  ASSUME NEW T \in SUBSET Nat, T # {}
  PROVE  \E x \in T : \A y \in T : x <= y
<1> DEFINE R == OpToRel(<, Nat)
<1>1. IsWellFoundedOn(R, Nat)
  BY NatLessThanWellFounded
<1>2. \A x, y \in Nat : <<y, x>> \notin R => x <= y
  BY DEF OpToRel
<1> HIDE DEF R
<1>3. PICK x \in T : \A y \in T : ~ (<<y, x>> \in R)
  BY <1>1, WFMin
<1>4. ASSUME NEW y \in T PROVE x <= y
  BY <1>2, <1>3
<1> QED BY <1>4

\* Induction over the natural numbers, for a set of them.
LEMMA NaturalInduction ==
  ASSUME NEW T \in SUBSET Nat, 0 \in T, \A n \in T : n + 1 \in T
  PROVE  T = Nat
<1> SUFFICES ASSUME Nat \ T # {} PROVE FALSE
  OBVIOUS
<1>1. PICK x \in Nat \ T : \A y \in Nat \ T : x <= y
  BY LeastNatural
<1>2. x # 0 /\ x - 1 \in Nat
  BY <1>1
<1>3. x - 1 \in T
  BY <1>1, <1>2
<1> QED BY <1>1, <1>2, <1>3

\* Induction over sequences, from the front: for a set of them.
LEMMA SequenceInduction ==
  ASSUME NEW R, NEW T \in SUBSET Seq(R), <<>> \in T,
         \A s \in T : \A e \in R : Append(s, e) \in T
  PROVE  T = Seq(R)
<1> DEFINE Lengths == {n \in Nat : \A s \in Seq(R) : Len(s) = n => s \in T}
<1>1. 0 \in Lengths
  BY EmptySeq
<1>2. ASSUME NEW n \in Lengths PROVE n + 1 \in Lengths
  <2> SUFFICES ASSUME NEW s \in Seq(R), Len(s) = n + 1 PROVE s \in T
    OBVIOUS
  <2>1. n \in Nat /\ s # <<>>
    BY EmptySeq
  <2>2. PICK front \in Seq(R), e \in R : s = Append(front, e)
    BY <2>1, SequenceEmptyOrAppend
  <2>3. Len(s) = Len(front) + 1 /\ Len(front) \in Nat
    BY <2>2, AppendProperties, LenProperties
  <2>4. front \in T
    BY <2>1, <2>3
  <2> QED BY <2>2, <2>4
<1> HIDE DEF Lengths
<1>3. Lengths = Nat
  <2>1. Lengths \in SUBSET Nat
    BY DEF Lengths
  <2> QED BY <1>1, <1>2, <2>1, NaturalInduction
<1> QED BY <1>3, LenProperties DEF Lengths

(*-------------------------------- filters --------------------------------*)
\* The recursion of Those, over the first n rows.
IsUpTo(f, rows, K, n) ==
  f = [m \in 0..n |->
        IF m = 0 THEN <<>>
        ELSE IF rows[m] \in K THEN Append(f[m - 1], rows[m]) ELSE f[m - 1]]

LEMMA UpToExists ==
  ASSUME NEW rows, NEW K
  PROVE  \A n \in Nat : \E f : IsUpTo(f, rows, K, n)
<1> DEFINE T == {n \in Nat : \E f : IsUpTo(f, rows, K, n)}
<1>1. 0 \in T
  <2> DEFINE f == [m \in 0..0 |-> <<>>]
  <2>1. IsUpTo(f, rows, K, 0)
    BY DEF IsUpTo
  <2> QED BY <2>1
<1>2. ASSUME NEW n \in T PROVE n + 1 \in T
  <2>1. PICK f : IsUpTo(f, rows, K, n)
    OBVIOUS
  <2> DEFINE Step(h, m) == IF m = 0 THEN <<>>
                           ELSE IF rows[m] \in K THEN Append(h[m - 1], rows[m]) ELSE h[m - 1]
             g == [m \in 0..(n + 1) |-> IF m = n + 1 THEN Step(f, m) ELSE f[m]]
  <2>2. n \in Nat
    OBVIOUS
  <2>3. \A m \in 0..n : f[m] = Step(f, m)
    BY <2>1, <2>2 DEF IsUpTo
  <2>4. \A m \in 0..(n + 1) : m = 0 \/ (m - 1 \in 0..n /\ m - 1 \in 0..(n + 1) /\ m - 1 # n + 1)
    BY <2>2
  <2>5. \A m \in 0..n : g[m] = f[m]
    BY <2>2
  <2>6. g[n + 1] = Step(f, n + 1)
    BY <2>2
  <2> HIDE DEF g
  <2>7. \A m \in 0..(n + 1) : g[m] = Step(g, m)
    <3> TAKE m \in 0..(n + 1)
    <3>1. Step(g, m) = Step(f, m)
      BY <2>4, <2>5
    <3>2. g[m] = Step(f, m)
      BY <2>2, <2>3, <2>5, <2>6
    <3> QED BY <3>1, <3>2
  <2>8. g = [m \in 0..(n + 1) |-> Step(g, m)]
    <3>1. g = [m \in 0..(n + 1) |-> g[m]]
      BY DEF g
    <3> QED BY <2>7, <3>1
  <2>9. IsUpTo(g, rows, K, n + 1)
    BY <2>8 DEF IsUpTo
  <2> QED BY <2>2, <2>9
<1>3. T = Nat
  <2> HIDE DEF T
  <2>1. T \in SUBSET Nat
    BY DEF T
  <2> QED BY <1>1, <1>2, <2>1, NaturalInduction
<1> QED BY <1>3

LEMMA ThoseUnfolds ==
  ASSUME NEW rows, NEW K, Len(rows) \in Nat
  PROVE  \E f : IsUpTo(f, rows, K, Len(rows)) /\ Those(rows, K) = f[Len(rows)]
<1> DEFINE F == CHOOSE f : IsUpTo(f, rows, K, Len(rows))
<1>1. IsUpTo(F, rows, K, Len(rows))
  BY UpToExists, Zenon
<1>2. Those(rows, K) = F[Len(rows)]
  BY Zenon DEF Those, IsUpTo
<1> QED BY <1>1, <1>2

LEMMA ThoseOfNone == ASSUME NEW K PROVE Those(<<>>, K) = <<>>
<1>1. Len(<<>>) = 0
  BY EmptySeq
<1>2. PICK f : IsUpTo(f, <<>>, K, 0) /\ Those(<<>>, K) = f[0]
  BY <1>1, ThoseUnfolds
<1>3. f[0] = <<>>
  BY <1>2 DEF IsUpTo
<1> QED BY <1>2, <1>3

LEMMA ThoseOfAppend ==
  ASSUME NEW R, NEW s \in Seq(R), NEW e \in R, NEW K
  PROVE  Those(Append(s, e), K) = IF e \in K THEN Append(Those(s, K), e) ELSE Those(s, K)
<1> DEFINE t == Append(s, e)
           n == Len(s)
<1>1. n \in Nat /\ Len(t) = n + 1 /\ (\A i \in 1..n : t[i] = s[i]) /\ t[n + 1] = e
  BY AppendProperties, LenProperties
<1> HIDE DEF t, n
<1>2. PICK f : IsUpTo(f, s, K, n) /\ Those(s, K) = f[n]
  BY <1>1, ThoseUnfolds DEF n
<1>3. PICK g : IsUpTo(g, t, K, n + 1) /\ Those(t, K) = g[n + 1]
  <2>1. Len(t) \in Nat
    BY <1>1
  <2>2. \E g : IsUpTo(g, t, K, Len(t)) /\ Those(t, K) = g[Len(t)]
    BY <2>1, ThoseUnfolds
  <2> QED BY <1>1, <2>2
<1> DEFINE T == {m \in Nat : m <= n => g[m] = f[m]}
<1>4. 0 \in T
  BY <1>1, <1>2, <1>3 DEF IsUpTo
<1>5. ASSUME NEW m \in T PROVE m + 1 \in T
  <2> SUFFICES ASSUME m + 1 <= n PROVE g[m + 1] = f[m + 1]
    OBVIOUS
  <2>1. m \in Nat /\ m + 1 \in 0..n /\ m + 1 \in 0..(n + 1) /\ m + 1 \in 1..n /\ (m + 1) - 1 = m
        /\ m + 1 # 0
    BY <1>1
  <2>2. g[m] = f[m] /\ t[m + 1] = s[m + 1]
    BY <1>1, <2>1
  <2>3. f[m + 1] = IF s[m + 1] \in K THEN Append(f[m], s[m + 1]) ELSE f[m]
    BY <1>2, <2>1 DEF IsUpTo
  <2>4. g[m + 1] = IF t[m + 1] \in K THEN Append(g[m], t[m + 1]) ELSE g[m]
    BY <1>3, <2>1 DEF IsUpTo
  <2> QED BY <2>2, <2>3, <2>4
<1>6. g[n] = f[n]
  <2> HIDE DEF T
  <2>1. T \in SUBSET Nat
    BY DEF T
  <2>2. T = Nat
    BY <1>4, <1>5, <2>1, NaturalInduction
  <2> QED BY <1>1, <2>2 DEF T
<1>7. g[n + 1] = IF e \in K THEN Append(g[n], e) ELSE g[n]
  <2>1. n + 1 \in 0..(n + 1) /\ n + 1 # 0 /\ (n + 1) - 1 = n
    BY <1>1
  <2> QED BY <1>1, <1>3, <2>1 DEF IsUpTo
<1> QED BY <1>2, <1>3, <1>6, <1>7 DEF t

LEMMA ToSetOfAppend ==
  ASSUME NEW R, NEW s \in Seq(R), NEW e \in R
  PROVE  ToSet(Append(s, e)) = ToSet(s) \cup {e}
<1>1. /\ Append(s, e) \in Seq(R) /\ Len(s) \in Nat /\ Len(Append(s, e)) = Len(s) + 1
      /\ \A i \in 1..Len(s) : Append(s, e)[i] = s[i]
      /\ Append(s, e)[Len(s) + 1] = e
  BY AppendProperties, LenProperties
<1>2. DOMAIN s = 1..Len(s) /\ DOMAIN Append(s, e) = 1..(Len(s) + 1)
  BY <1>1, LenProperties
<1> QED BY <1>1, <1>2 DEF ToSet

\* What the filter keeps, it keeps from the rows; and it forgets none of K.
LEMMA ThoseAreRows ==
  ASSUME NEW R, NEW K
  PROVE  \A s \in Seq(R) : Those(s, K) \in Seq(R) /\ ToSet(Those(s, K)) = ToSet(s) \cap K
<1> DEFINE T == {s \in Seq(R) : /\ Those(s, K) \in Seq(R)
                                /\ ToSet(Those(s, K)) = ToSet(s) \cap K}
<1>1. <<>> \in T
  <2>1. <<>> \in Seq(R) /\ ToSet(<<>>) = {}
    BY EmptySeq DEF ToSet
  <2> QED BY <2>1, ThoseOfNone
<1>2. ASSUME NEW s \in T, NEW e \in R PROVE Append(s, e) \in T
  <2>2. Append(s, e) \in Seq(R) /\ s \in Seq(R) /\ Those(s, K) \in Seq(R)
    BY AppendProperties
  <2>3. ToSet(Append(s, e)) = ToSet(s) \cup {e} /\ ToSet(Those(s, K)) = ToSet(s) \cap K
    BY <2>2, ToSetOfAppend
  <2>4. CASE e \in K
    <3>1. Those(Append(s, e), K) = Append(Those(s, K), e)
      BY <2>2, <2>4, ThoseOfAppend
    <3>2. /\ ToSet(Append(Those(s, K), e)) = ToSet(Those(s, K)) \cup {e}
          /\ Append(Those(s, K), e) \in Seq(R)
      BY <2>2, ToSetOfAppend, AppendProperties
    <3> QED BY <2>2, <2>3, <2>4, <3>1, <3>2
  <2>5. CASE e \notin K
    <3>1. Those(Append(s, e), K) = Those(s, K)
      BY <2>2, <2>5, ThoseOfAppend
    <3> QED BY <2>2, <2>3, <2>5, <3>1
  <2> QED BY <2>4, <2>5
<1>3. T = Seq(R)
  <2> HIDE DEF T
  <2>1. T \in SUBSET Seq(R)
    BY DEF T
  <2> QED BY <1>1, <1>2, <2>1, SequenceInduction
<1> QED BY <1>3

\* The rows, each replaced by its image under N.
Mapped(s, N) == [i \in DOMAIN s |-> N[s[i]]]

LEMMA MappedIsSeq ==
  ASSUME NEW R, NEW S, NEW s \in Seq(R), NEW N, \A r \in R : N[r] \in S
  PROVE  /\ Mapped(s, N) \in Seq(S) /\ Len(Mapped(s, N)) = Len(s)
         /\ ToSet(Mapped(s, N)) = {N[r] : r \in ToSet(s)}
<1>1. Len(s) \in Nat /\ DOMAIN s = 1..Len(s) /\ \A i \in DOMAIN s : s[i] \in R
  BY LenProperties, ElementOfSeq
<1>2. Mapped(s, N) = [i \in 1..Len(s) |-> N[s[i]]]
  BY <1>1 DEF Mapped
<1>3. \A i \in 1..Len(s) : N[s[i]] \in S
  BY <1>1
<1>4. Mapped(s, N) \in Seq(S) /\ Len(Mapped(s, N)) = Len(s)
  BY <1>1, <1>2, <1>3, IsASeq, LenProperties
<1>5. ToSet(Mapped(s, N)) = {N[r] : r \in ToSet(s)}
  BY <1>1 DEF Mapped, ToSet
<1> QED BY <1>4, <1>5

LEMMA MappedOfNone == ASSUME NEW N PROVE Mapped(<<>>, N) = <<>>
<1> DEFINE R == {N}
           none == <<>>
<1>1. none \in Seq(R) /\ Len(none) = 0 /\ DOMAIN none = 1..0
  BY EmptySeq, LenProperties
<1> HIDE DEF R, none
<1>2. Mapped(none, N) = [i \in 1..0 |-> N[none[i]]]
  BY <1>1 DEF Mapped
<1>3. Mapped(none, N) \in Seq(R) /\ Len(Mapped(none, N)) = 0
  <2>1. \A i \in 1..0 : N[none[i]] \in R
    OBVIOUS
  <2> QED BY <1>2, <2>1, IsASeq, LenProperties
<1>4. Mapped(none, N) = <<>>
  BY <1>3, EmptySeq
<1> QED BY <1>4 DEF none

LEMMA MappedOfAppend ==
  ASSUME NEW R, NEW s \in Seq(R), NEW e \in R, NEW N
  PROVE  Mapped(Append(s, e), N) = Append(Mapped(s, N), N[e])
<1> DEFINE S == {N[r] : r \in R}
           t == Append(s, e)
           n == Len(s)
           m == Mapped(s, N)
           u == Mapped(t, N)
           v == Append(m, N[e])
<1>1. n \in Nat /\ t \in Seq(R) /\ Len(t) = n + 1 /\ (\A i \in 1..n : t[i] = s[i]) /\ t[n + 1] = e
  BY AppendProperties, LenProperties
<1>2. DOMAIN s = 1..n /\ DOMAIN t = 1..(n + 1)
  BY <1>1, LenProperties
<1>3. N[e] \in S /\ \A r \in R : N[r] \in S
  OBVIOUS
<1>4. m \in Seq(S) /\ Len(m) = n
  BY <1>3, MappedIsSeq
<1>5. u \in Seq(S) /\ Len(u) = n + 1
  <2> HIDE DEF S, t
  <2>1. Mapped(t, N) \in Seq(S) /\ Len(Mapped(t, N)) = Len(t)
    BY <1>1, <1>3, MappedIsSeq
  <2> QED BY <1>1, <2>1
<1>6. (\A i \in 1..n : m[i] = N[s[i]]) /\ (\A i \in 1..(n + 1) : u[i] = N[t[i]])
  BY <1>2 DEF Mapped
<1> HIDE DEF S, t, m, u, n
<1>7. v \in Seq(S) /\ Len(v) = n + 1 /\ (\A i \in 1..n : v[i] = m[i]) /\ v[n + 1] = N[e]
  BY <1>3, <1>4, AppendProperties
<1> HIDE DEF v
<1>8. \A i \in 1..(n + 1) : u[i] = v[i]
  BY <1>1, <1>6, <1>7
<1>9. u = v
  BY <1>5, <1>7, <1>8, SeqEqual
<1> QED BY <1>9 DEF u, v, m, t

\* A filter after a rewriting is a filter before it.
Preimage(R, N, K) == {r \in R : N[r] \in K}

LEMMA FilterOfMapped ==
  ASSUME NEW R, NEW K, NEW N, NEW s \in Seq(R)
  PROVE  Those(Mapped(s, N), K) = Mapped(Those(s, Preimage(R, N, K)), N)
<1> DEFINE J == Preimage(R, N, K)
           S == {N[r] : r \in R}
           T == {r \in Seq(R) : Those(Mapped(r, N), K) = Mapped(Those(r, J), N)}
<1>1. <<>> \in T
  <2>1. <<>> \in Seq(R)
    BY EmptySeq
  <2>2. Those(<<>>, J) = <<>> /\ Mapped(<<>>, N) = <<>> /\ Those(<<>>, K) = <<>>
    BY ThoseOfNone, MappedOfNone
  <2> QED BY <2>1, <2>2
<1>2. ASSUME NEW v \in T, NEW e \in R PROVE Append(v, e) \in T
  <2>1. v \in Seq(R) /\ Append(v, e) \in Seq(R) /\ Those(Mapped(v, N), K) = Mapped(Those(v, J), N)
    BY AppendProperties
  <2>2. e \in J <=> N[e] \in K
    BY DEF Preimage
  <2>8. \A r \in R : N[r] \in S
    OBVIOUS
  <2> HIDE DEF T, J, S
  <2>3. Mapped(v, N) \in Seq(S) /\ N[e] \in S
    BY <2>1, <2>8, MappedIsSeq
  <2>4. Those(v, J) \in Seq(R)
    BY <2>1, ThoseAreRows
  <2>5. Mapped(Append(v, e), N) = Append(Mapped(v, N), N[e])
    BY <2>1, MappedOfAppend
  <2>6. CASE e \in J
    <3>1. Those(Append(Mapped(v, N), N[e]), K) = Append(Those(Mapped(v, N), K), N[e])
      BY <2>2, <2>3, <2>6, ThoseOfAppend
    <3>2. Those(Append(v, e), J) = Append(Those(v, J), e)
      BY <2>1, <2>6, ThoseOfAppend
    <3>3. Mapped(Append(Those(v, J), e), N) = Append(Mapped(Those(v, J), N), N[e])
      BY <2>4, MappedOfAppend
    <3> QED BY <2>1, <2>5, <3>1, <3>2, <3>3 DEF T
  <2>7. CASE e \notin J
    <3>1. Those(Append(Mapped(v, N), N[e]), K) = Those(Mapped(v, N), K)
      BY <2>2, <2>3, <2>7, ThoseOfAppend
    <3>2. Those(Append(v, e), J) = Those(v, J)
      BY <2>1, <2>7, ThoseOfAppend
    <3> QED BY <2>1, <2>5, <3>1, <3>2 DEF T
  <2> QED BY <2>6, <2>7
<1>3. T = Seq(R)
  <2> HIDE DEF T
  <2>1. T \in SUBSET Seq(R)
    BY DEF T
  <2> QED BY <1>1, <1>2, <2>1, SequenceInduction
<1> QED BY <1>3

\* Two filters in a row are one.
LEMMA FilterOfThose ==
  ASSUME NEW R, NEW K, NEW L
  PROVE  \A s \in Seq(R) : Those(Those(s, K), L) = Those(s, K \cap L)
<1> DEFINE T == {s \in Seq(R) : Those(Those(s, K), L) = Those(s, K \cap L)}
<1>1. <<>> \in T
  <2>1. <<>> \in Seq(R)
    BY EmptySeq
  <2>2. Those(<<>>, K) = <<>> /\ Those(<<>>, L) = <<>> /\ Those(<<>>, K \cap L) = <<>>
    BY ThoseOfNone
  <2> QED BY <2>1, <2>2
<1>2. ASSUME NEW s \in T, NEW e \in R PROVE Append(s, e) \in T
  <2>1. s \in Seq(R) /\ Append(s, e) \in Seq(R) /\ Those(Those(s, K), L) = Those(s, K \cap L)
    BY AppendProperties
  <2> HIDE DEF T
  <2>2. Those(s, K) \in Seq(R)
    BY <2>1, ThoseAreRows
  <2>3. Those(Append(s, e), K) = IF e \in K THEN Append(Those(s, K), e) ELSE Those(s, K)
    BY <2>1, ThoseOfAppend
  <2>4. Those(Append(Those(s, K), e), L)
          = IF e \in L THEN Append(Those(Those(s, K), L), e) ELSE Those(Those(s, K), L)
    BY <2>2, ThoseOfAppend
  <2>5. Those(Append(s, e), K \cap L)
          = IF e \in K \cap L THEN Append(Those(s, K \cap L), e) ELSE Those(s, K \cap L)
    BY <2>1, ThoseOfAppend
  <2>6. Those(Those(Append(s, e), K), L) = Those(Append(s, e), K \cap L)
    <3>1. CASE e \in K
      <4>1. Those(Append(s, e), K) = Append(Those(s, K), e)
        BY <2>3, <3>1
      <4>2. CASE e \in L
        <5>1. e \in K \cap L
          BY <3>1, <4>2
        <5>2. /\ Those(Append(Those(s, K), e), L) = Append(Those(Those(s, K), L), e)
              /\ Those(Append(s, e), K \cap L) = Append(Those(s, K \cap L), e)
          BY <2>4, <2>5, <4>2, <5>1
        <5> QED BY ONLY <2>1, <4>1, <5>2
      <4>3. CASE e \notin L
        <5>1. e \notin K \cap L
          BY <4>3
        <5>2. /\ Those(Append(Those(s, K), e), L) = Those(Those(s, K), L)
              /\ Those(Append(s, e), K \cap L) = Those(s, K \cap L)
          BY <2>4, <2>5, <4>3, <5>1
        <5> QED BY ONLY <2>1, <4>1, <5>2
      <4> QED BY <4>2, <4>3
    <3>2. CASE e \notin K
      <4>1. e \notin K \cap L
        BY <3>2
      <4> QED BY ONLY <2>1, <2>3, <2>5, <3>2, <4>1
    <3> QED BY <3>1, <3>2
  <2> QED BY <2>1, <2>6 DEF T
<1>3. T = Seq(R)
  <2> HIDE DEF T
  <2>1. T \in SUBSET Seq(R)
    BY DEF T
  <2> QED BY <1>1, <1>2, <2>1, SequenceInduction
<1> QED BY <1>3

\* A filter only looks at the rows there are.
LEMMA FilterOfSame ==
  ASSUME NEW R, NEW K, NEW L, K \cap R = L \cap R
  PROVE  \A s \in Seq(R) : Those(s, K) = Those(s, L)
<1> DEFINE T == {s \in Seq(R) : Those(s, K) = Those(s, L)}
<1>1. <<>> \in T
  BY EmptySeq, ThoseOfNone
<1>2. ASSUME NEW s \in T, NEW e \in R PROVE Append(s, e) \in T
  <2>1. s \in Seq(R) /\ Append(s, e) \in Seq(R) /\ Those(s, K) = Those(s, L)
    BY AppendProperties
  <2>2. e \in K <=> e \in L
    OBVIOUS
  <2> HIDE DEF T
  <2>3. Those(Append(s, e), K) = IF e \in K THEN Append(Those(s, K), e) ELSE Those(s, K)
    BY <2>1, ThoseOfAppend
  <2>4. Those(Append(s, e), L) = IF e \in L THEN Append(Those(s, L), e) ELSE Those(s, L)
    BY <2>1, ThoseOfAppend
  <2> QED BY <2>1, <2>2, <2>3, <2>4 DEF T
<1>3. T = Seq(R)
  <2> HIDE DEF T
  <2>1. T \in SUBSET Seq(R)
    BY DEF T
  <2> QED BY <1>1, <1>2, <2>1, SequenceInduction
<1> QED BY <1>3

\* J is what two filters keep, the second after a rewriting by N; O what a
\* second rewriting by M makes of it.
KeptByBoth(R, K, N, L, J) == \A r \in R : r \in J <=> r \in K /\ N[r] \in L
SameImage(R, N, M, J, O) == \A r \in R : r \in J => O[r] = M[N[r]]

\* A rewriting followed by another: one filter and one image.
LEMMA RewrittenTwice ==
  ASSUME NEW R, NEW s \in Seq(R), NEW K, NEW N,
         NEW L, NEW M, NEW J, NEW O, KeptByBoth(R, K, N, L, J), SameImage(R, N, M, J, O)
  PROVE  Mapped(Those(Mapped(Those(s, K), N), L), M) = Mapped(Those(s, J), O)
<1> DEFINE H == Preimage(R, N, L)
           t == Those(s, J)
<1>1. Those(s, K) \in Seq(R)
  BY ThoseAreRows
<1>2. Those(Mapped(Those(s, K), N), L) = Mapped(Those(Those(s, K), H), N)
  BY <1>1, FilterOfMapped
<1>3. Those(Those(s, K), H) = Those(s, K \cap H)
  BY FilterOfThose
<1>4. Those(s, K \cap H) = t
  <2>1. (K \cap H) \cap R = J \cap R
    BY DEF Preimage, KeptByBoth
  <2> HIDE DEF H
  <2> QED BY <2>1, FilterOfSame
<1>5. t \in Seq(R) /\ ToSet(t) = ToSet(s) \cap J
  BY ThoseAreRows
<1> HIDE DEF t
<1>6. Len(t) \in Nat /\ DOMAIN t = 1..Len(t) /\ \A i \in DOMAIN t : t[i] \in J \cap R
  <2>1. Len(t) \in Nat /\ DOMAIN t = 1..Len(t) /\ \A i \in DOMAIN t : t[i] \in R
    BY <1>5, LenProperties, ElementOfSeq
  <2>2. \A i \in DOMAIN t : t[i] \in ToSet(t)
    BY DEF ToSet
  <2> QED BY <1>5, <2>1, <2>2
<1>7. Mapped(Mapped(t, N), M) = Mapped(t, O)
  BY <1>6 DEF Mapped, SameImage
<1> QED BY <1>2, <1>3, <1>4, <1>7 DEF t

LEMMA MappedToItself ==
  ASSUME NEW R, NEW s \in Seq(R), NEW N, \A r \in ToSet(s) : N[r] = r
  PROVE  Mapped(s, N) = s
<1>1. Len(s) \in Nat /\ s = [i \in DOMAIN s |-> s[i]] /\ DOMAIN s = 1..Len(s)
  BY LenProperties
<1>2. \A i \in DOMAIN s : N[s[i]] = s[i]
  BY DEF ToSet
<1> QED BY <1>1, <1>2 DEF Mapped

\* A rewriting that leaves the rows of J alone, followed by a filter.
LEMMA RewrittenThenFiltered ==
  ASSUME NEW R, NEW s \in Seq(R), NEW K, NEW N,
         NEW L, NEW J, KeptByBoth(R, K, N, L, J), \A r \in R : r \in J => N[r] = r
  PROVE  Those(Mapped(Those(s, K), N), L) = Those(s, J)
<1> DEFINE H == Preimage(R, N, L)
           t == Those(s, J)
<1>1. Those(s, K) \in Seq(R)
  BY ThoseAreRows
<1>2. Those(Mapped(Those(s, K), N), L) = Mapped(Those(Those(s, K), H), N)
  BY <1>1, FilterOfMapped
<1>3. Those(Those(s, K), H) = Those(s, K \cap H)
  BY FilterOfThose
<1>4. Those(s, K \cap H) = t
  <2>1. (K \cap H) \cap R = J \cap R
    BY DEF Preimage, KeptByBoth
  <2> HIDE DEF H
  <2> QED BY <2>1, FilterOfSame
<1>5. t \in Seq(R) /\ ToSet(t) = ToSet(s) \cap J
  BY ThoseAreRows
<1>6. ToSet(s) \subseteq R
  BY ElementOfSeq, LenProperties DEF ToSet
<1> HIDE DEF t, H
<1>7. Mapped(t, N) = t
  BY <1>5, <1>6, MappedToItself
<1> QED BY <1>2, <1>3, <1>4, <1>7 DEF t

LEMMA SequencesAreRows == ASSUME NEW R, NEW s \in Seq(R) PROVE AreRows(s)
<1>1. Len(s) \in Nat /\ s = [i \in 1..Len(s) |-> s[i]] /\ DOMAIN s = 1..Len(s)
  BY LenProperties
<1>2. \A i \in 1..Len(s) : s[i] \in ToSet(s)
  BY <1>1 DEF ToSet
<1> QED BY <1>1, <1>2, IsASeq DEF AreRows

(*-------------------------- the rewritten rows ---------------------------*)
\* What the transformation of each file keeps, and what it makes of a row.
PostsKept(posts, q) == {p \in ToSet(posts) : ~ (p.user = q.user /\ q.mode = "remove")}
PostNew(posts, q) ==
  [p \in ToSet(posts) |->
     [p EXCEPT !.reactors = @ \ {q.user},
               !.user = IF @ = q.user THEN Pseudonym(q.user) ELSE @]]
UsersKept(users, q) == {u \in ToSet(users) : ~ (u.id = q.user /\ q.mode = "remove")}
UserNew(users, q) ==
  [u \in ToSet(users) |->
     IF u.id # q.user THEN u
     ELSE [u EXCEPT !.id = Pseudonym(q.user), !.names = {},
                    !.username = Pseudonym(q.user), !.avatar = FALSE]]
FilesKept(files, q) == {f \in ToSet(files) : ~ (f.user = q.user /\ q.mode = "remove")}
FileNew(files, q) ==
  [f \in ToSet(files) |-> IF f.user # q.user THEN f ELSE [f EXCEPT !.user = Pseudonym(q.user)]]

LEMMA RewriteIsMapped ==
  ASSUME NEW rows, AreRows(rows), NEW K \in SUBSET ToSet(rows), NEW N
  PROVE  /\ AreRows(Mapped(Those(rows, K), N))
         /\ ToSet(Mapped(Those(rows, K), N)) = {N[r] : r \in K}
         /\ \A i \in DOMAIN Those(rows, K) : Those(rows, K)[i] \in ToSet(rows)
<1> DEFINE R == ToSet(rows)
           S == {N[r] : r \in R}
           t == Those(rows, K)
<1>1. rows \in Seq(R)
  BY DEF AreRows
<1>2. t \in Seq(R) /\ ToSet(t) = K
  <2>1. t \in Seq(R)
    BY <1>1, ThoseAreRows
  <2>2. ToSet(t) = ToSet(rows) \cap K
    BY <1>1, ThoseAreRows
  <2> QED BY <2>1, <2>2
<1>3. \A r \in R : N[r] \in S
  OBVIOUS
<1> HIDE DEF S, t, R
<1>4. Mapped(t, N) \in Seq(S) /\ ToSet(Mapped(t, N)) = {N[r] : r \in K}
  BY <1>2, <1>3, MappedIsSeq
<1>5. AreRows(Mapped(t, N))
  BY <1>4, SequencesAreRows
<1>6. \A i \in DOMAIN t : t[i] \in R
  BY <1>2 DEF ToSet, R
<1> QED BY <1>4, <1>5, <1>6 DEF t, R

LEMMA RedactedPosts ==
  ASSUME NEW posts, AreRows(posts), NEW q
  PROVE  RedactPosts(posts, q) = Mapped(Those(posts, PostsKept(posts, q)), PostNew(posts, q))
<1> DEFINE kept == Those(posts, PostsKept(posts, q))
<1>1. \A i \in DOMAIN kept : kept[i] \in ToSet(posts)
  BY RewriteIsMapped DEF PostsKept
<1>2. RedactPosts(posts, q) =
        [i \in DOMAIN kept |->
           [kept[i] EXCEPT !.reactors = @ \ {q.user},
                           !.user = IF @ = q.user THEN Pseudonym(q.user) ELSE @]]
  BY DEF RedactPosts, Rewrite, PostsKept
<1> HIDE DEF kept
<1>3. RedactPosts(posts, q) = Mapped(kept, PostNew(posts, q))
  BY <1>1, <1>2 DEF Mapped, PostNew
<1> QED BY <1>3 DEF kept

LEMMA RedactedUsers ==
  ASSUME NEW users, AreRows(users), NEW q
  PROVE  RedactUsers(users, q) = Mapped(Those(users, UsersKept(users, q)), UserNew(users, q))
<1> DEFINE kept == Those(users, UsersKept(users, q))
<1>1. \A i \in DOMAIN kept : kept[i] \in ToSet(users)
  BY RewriteIsMapped DEF UsersKept
<1>2. RedactUsers(users, q) =
        [i \in DOMAIN kept |->
           IF kept[i].id # q.user THEN kept[i]
           ELSE [kept[i] EXCEPT !.id = Pseudonym(q.user), !.names = {},
                                !.username = Pseudonym(q.user), !.avatar = FALSE]]
  BY DEF RedactUsers, Rewrite, UsersKept
<1> HIDE DEF kept
<1>3. RedactUsers(users, q) = Mapped(kept, UserNew(users, q))
  BY <1>1, <1>2 DEF Mapped, UserNew
<1> QED BY <1>3 DEF kept

LEMMA RedactedFiles ==
  ASSUME NEW files, AreRows(files), NEW q
  PROVE  RedactFiles(files, q) = Mapped(Those(files, FilesKept(files, q)), FileNew(files, q))
<1> DEFINE kept == Those(files, FilesKept(files, q))
<1>1. \A i \in DOMAIN kept : kept[i] \in ToSet(files)
  BY RewriteIsMapped DEF FilesKept
<1>2. RedactFiles(files, q) =
        [i \in DOMAIN kept |->
           IF kept[i].user # q.user THEN kept[i]
           ELSE [kept[i] EXCEPT !.user = Pseudonym(q.user)]]
  BY DEF RedactFiles, Rewrite, FilesKept
<1> HIDE DEF kept
<1>3. RedactFiles(files, q) = Mapped(kept, FileNew(files, q))
  BY <1>1, <1>2 DEF Mapped, FileNew
<1> QED BY <1>3 DEF kept

ArePosts(posts) == AreRows(posts) /\ \A p \in ToSet(posts) : IsPost(p)
AreUsers(users) == AreRows(users) /\ \A u \in ToSet(users) : IsUser(u)
AreFiles(files) == AreRows(files) /\ \A f \in ToSet(files) : IsFile(f)

NoPostOf(posts, u) == \A p \in ToSet(posts) : u # p.user /\ u \notin p.reactors
NoRowOf(users, u) == \A r \in ToSet(users) : u # r.id
NoFileOf(files, u) == \A f \in ToSet(files) : u # f.user

\* Rewritten rows are rows again, and none is the account's.
LEMMA RedactedPostsRows ==
  ASSUME NEW posts, ArePosts(posts), NEW q, Pseudonym(q.user) # q.user
  PROVE  ArePosts(RedactPosts(posts, q)) /\ NoPostOf(RedactPosts(posts, q), q.user)
<1> DEFINE K == PostsKept(posts, q)
           N == PostNew(posts, q)
           new == RedactPosts(posts, q)
<1>1. AreRows(posts) /\ new = Mapped(Those(posts, K), N)
  BY RedactedPosts DEF ArePosts
<1>2. K \subseteq ToSet(posts)
  BY DEF PostsKept
<1> HIDE DEF K, N, new
<1>3. AreRows(new) /\ ToSet(new) = {N[p] : p \in K}
  BY <1>1, <1>2, RewriteIsMapped
<1>4. ASSUME NEW p \in K
      PROVE  IsPost(N[p]) /\ q.user # N[p].user /\ q.user \notin N[p].reactors
  <2>1. p \in ToSet(posts) /\ IsPost(p)
    BY <1>2 DEF ArePosts
  <2>2. N[p] = [p EXCEPT !.reactors = @ \ {q.user},
                         !.user = IF @ = q.user THEN Pseudonym(q.user) ELSE @]
    BY <2>1 DEF N, PostNew
  <2>3. N[p] = [id |-> p.id, at |-> p.at,
                user |-> IF p.user = q.user THEN Pseudonym(q.user) ELSE p.user,
                reactors |-> p.reactors \ {q.user}, files |-> p.files, sys |-> p.sys,
                text |-> p.text, props |-> p.props]
    BY <2>1, <2>2 DEF IsPost
  <2> QED BY <2>3 DEF IsPost
<1> QED BY <1>3, <1>4 DEF ArePosts, NoPostOf, new

LEMMA RedactedUsersRows ==
  ASSUME NEW users, AreUsers(users), NEW q, Pseudonym(q.user) # q.user
  PROVE  AreUsers(RedactUsers(users, q)) /\ NoRowOf(RedactUsers(users, q), q.user)
<1> DEFINE K == UsersKept(users, q)
           N == UserNew(users, q)
           new == RedactUsers(users, q)
<1>1. AreRows(users) /\ new = Mapped(Those(users, K), N)
  BY RedactedUsers DEF AreUsers
<1>2. K \subseteq ToSet(users)
  BY DEF UsersKept
<1> HIDE DEF K, N, new
<1>3. AreRows(new) /\ ToSet(new) = {N[u] : u \in K}
  BY <1>1, <1>2, RewriteIsMapped
<1>4. ASSUME NEW u \in K
      PROVE  IsUser(N[u]) /\ q.user # N[u].id
  <2>1. u \in ToSet(users) /\ IsUser(u)
    BY <1>2 DEF AreUsers
  <2>2. N[u] = IF u.id # q.user THEN u
               ELSE [u EXCEPT !.id = Pseudonym(q.user), !.names = {},
                              !.username = Pseudonym(q.user), !.avatar = FALSE]
    BY <2>1 DEF N, UserNew
  <2>3. CASE u.id # q.user
    BY <2>1, <2>2, <2>3
  <2>4. CASE u.id = q.user
    <3>1. N[u] = [id |-> Pseudonym(q.user), username |-> Pseudonym(q.user), names |-> {},
                  avatar |-> FALSE, email |-> u.email]
      BY <2>1, <2>2, <2>4 DEF IsUser
    <3> QED BY <3>1 DEF IsUser
  <2> QED BY <2>3, <2>4
<1> QED BY <1>3, <1>4 DEF AreUsers, NoRowOf, new

LEMMA RedactedFilesRows ==
  ASSUME NEW files, AreFiles(files), NEW q, Pseudonym(q.user) # q.user
  PROVE  /\ AreFiles(RedactFiles(files, q)) /\ NoFileOf(RedactFiles(files, q), q.user)
         /\ \A g \in ToSet(RedactFiles(files, q)) : \E f \in ToSet(files) :
              /\ g.id = f.id /\ g.path = f.path
              /\ g.user = IF f.user = q.user THEN Pseudonym(q.user) ELSE f.user
              /\ ~ (f.user = q.user /\ q.mode = "remove")
<1> DEFINE K == FilesKept(files, q)
           N == FileNew(files, q)
           new == RedactFiles(files, q)
<1>1. AreRows(files) /\ new = Mapped(Those(files, K), N)
  BY RedactedFiles DEF AreFiles
<1>2. K \subseteq ToSet(files) /\ \A f \in K : ~ (f.user = q.user /\ q.mode = "remove")
  BY DEF FilesKept
<1> HIDE DEF K, N, new
<1>3. AreRows(new) /\ ToSet(new) = {N[f] : f \in K}
  BY <1>1, <1>2, RewriteIsMapped
<1>4. ASSUME NEW f \in K
      PROVE  /\ IsFile(N[f]) /\ q.user # N[f].user
             /\ N[f].id = f.id /\ N[f].path = f.path
             /\ N[f].user = IF f.user = q.user THEN Pseudonym(q.user) ELSE f.user
  <2>1. f \in ToSet(files) /\ IsFile(f)
    BY <1>2 DEF AreFiles
  <2>2. N[f] = IF f.user # q.user THEN f ELSE [f EXCEPT !.user = Pseudonym(q.user)]
    BY <2>1 DEF N, FileNew
  <2>3. CASE f.user # q.user
    BY <2>1, <2>2, <2>3
  <2>4. CASE f.user = q.user
    <3>1. N[f] = [id |-> f.id, user |-> Pseudonym(q.user), path |-> f.path, name |-> f.name,
                  ext |-> f.ext]
      BY <2>1, <2>2, <2>4 DEF IsFile
    <3> QED BY <2>4, <3>1 DEF IsFile
  <2> QED BY <2>3, <2>4
<1>5. AreFiles(new) /\ NoFileOf(new, q.user)
  BY <1>3, <1>4 DEF AreFiles, NoFileOf
<1> QED BY <1>2, <1>3, <1>4, <1>5 DEF new

(*------------------------- the files on disk -----------------------------*)
LEMMA PartsOfArchive ==
  ASSUME NEW a, IsArchive(a)
  PROVE  /\ a = [posts |-> a.posts, users |-> a.users, files |-> a.files, emojis |-> a.emojis,
                 channels |-> a.channels, blobs |-> a.blobs, avatars |-> a.avatars,
                 stray |-> a.stray, manifest |-> a.manifest]
         /\ a.posts = [c \in DOMAIN a.posts |-> a.posts[c]]
         /\ \A c \in DOMAIN a.posts : ArePosts(a.posts[c])
         /\ AreUsers(a.users) /\ AreFiles(a.files)
  BY DEF IsArchive, ArePosts, AreUsers, AreFiles

SameBut(a, b, fields) ==
  /\ IsArchive(b)
  /\ "posts" \in fields \/ b.posts = a.posts
  /\ "users" \in fields \/ b.users = a.users
  /\ "files" \in fields \/ b.files = a.files
  /\ "blobs" \in fields \/ b.blobs = a.blobs
  /\ "avatars" \in fields \/ b.avatars = a.avatars

PostsPut(a, b, c, posts, stray) ==
  b = [a EXCEPT !.posts[c] = posts, !.stray = stray]

LEMMA PostsReplaced ==
  ASSUME NEW a, IsArchive(a), NEW c \in DOMAIN a.posts, NEW posts, ArePosts(posts), NEW stray,
         NEW b, PostsPut(a, b, c, posts, stray)
  PROVE  /\ SameBut(a, b, {"posts"}) /\ DOMAIN b.posts = DOMAIN a.posts
         /\ \A d \in DOMAIN a.posts : b.posts[d] = IF d = c THEN posts ELSE a.posts[d]
<1> USE DEF PostsPut
<1> DEFINE new == [a.posts EXCEPT ![c] = posts]
<1>1. /\ a.posts = [d \in DOMAIN a.posts |-> a.posts[d]]
      /\ \A d \in DOMAIN a.posts : ArePosts(a.posts[d])
      /\ AreUsers(a.users) /\ AreFiles(a.files)
  BY PartsOfArchive
<1>2. /\ DOMAIN new = DOMAIN a.posts /\ new = [d \in DOMAIN new |-> new[d]]
      /\ \A d \in DOMAIN a.posts : new[d] = IF d = c THEN posts ELSE a.posts[d]
  BY <1>1
<1>3. a = [posts |-> a.posts, users |-> a.users, files |-> a.files, emojis |-> a.emojis,
           channels |-> a.channels, blobs |-> a.blobs, avatars |-> a.avatars,
           stray |-> a.stray, manifest |-> a.manifest]
  BY PartsOfArchive
<1>4. b = [posts |-> new, users |-> a.users, files |-> a.files, emojis |-> a.emojis,
           channels |-> a.channels, blobs |-> a.blobs, avatars |-> a.avatars,
           stray |-> stray, manifest |-> a.manifest]
  BY <1>3
<1> HIDE DEF new
<1>5. \A d \in DOMAIN new : ArePosts(new[d])
  BY <1>1, <1>2
<1>6. IsArchive(b)
  <2>1. b = [posts |-> b.posts, users |-> b.users, files |-> b.files, emojis |-> b.emojis,
             channels |-> b.channels, blobs |-> b.blobs, avatars |-> b.avatars,
             stray |-> b.stray, manifest |-> b.manifest]
    BY <1>4
  <2>2. b.posts = new /\ b.users = a.users /\ b.files = a.files
    BY ONLY <1>4
  <2>3. b.posts = [d \in DOMAIN b.posts |-> b.posts[d]] /\ \A d \in DOMAIN b.posts : ArePosts(b.posts[d])
    BY <1>2, <1>5, <2>2
  <2>4. AreUsers(b.users) /\ AreFiles(b.files)
    BY <1>1, <2>2
  <2> QED BY ONLY <2>1, <2>3, <2>4 DEF IsArchive, ArePosts, AreUsers, AreFiles
<1> QED BY <1>2, <1>4, <1>6 DEF SameBut

UsersPut(a, b, users, stray) ==
  b = [a EXCEPT !.users = users, !.stray = stray]

LEMMA UsersReplaced ==
  ASSUME NEW a, IsArchive(a), NEW users, AreUsers(users), NEW stray,
         NEW b, UsersPut(a, b, users, stray)
  PROVE  SameBut(a, b, {"users"}) /\ b.users = users
<1> USE DEF UsersPut
<1>1. /\ a.posts = [c \in DOMAIN a.posts |-> a.posts[c]]
      /\ \A c \in DOMAIN a.posts : ArePosts(a.posts[c])
      /\ AreUsers(a.users) /\ AreFiles(a.files)
  BY PartsOfArchive
<1>2. a = [posts |-> a.posts, users |-> a.users, files |-> a.files, emojis |-> a.emojis,
           channels |-> a.channels, blobs |-> a.blobs, avatars |-> a.avatars,
           stray |-> a.stray, manifest |-> a.manifest]
  BY PartsOfArchive
<1>3. b = [posts |-> a.posts, users |-> users, files |-> a.files, emojis |-> a.emojis,
           channels |-> a.channels, blobs |-> a.blobs, avatars |-> a.avatars,
           stray |-> stray, manifest |-> a.manifest]
  BY <1>2
<1>4. IsArchive(b)
  BY <1>1, <1>3 DEF IsArchive, ArePosts, AreUsers, AreFiles
<1> QED BY <1>3, <1>4 DEF SameBut

FilesPut(a, b, files, stray) ==
  b = [a EXCEPT !.files = files, !.stray = stray]

LEMMA FilesReplaced ==
  ASSUME NEW a, IsArchive(a), NEW files, AreFiles(files), NEW stray,
         NEW b, FilesPut(a, b, files, stray)
  PROVE  SameBut(a, b, {"files"}) /\ b.files = files
<1> USE DEF FilesPut
<1>1. /\ a.posts = [c \in DOMAIN a.posts |-> a.posts[c]]
      /\ \A c \in DOMAIN a.posts : ArePosts(a.posts[c])
      /\ AreUsers(a.users) /\ AreFiles(a.files)
  BY PartsOfArchive
<1>2. a = [posts |-> a.posts, users |-> a.users, files |-> a.files, emojis |-> a.emojis,
           channels |-> a.channels, blobs |-> a.blobs, avatars |-> a.avatars,
           stray |-> a.stray, manifest |-> a.manifest]
  BY PartsOfArchive
<1>3. b = [posts |-> a.posts, users |-> a.users, files |-> files, emojis |-> a.emojis,
           channels |-> a.channels, blobs |-> a.blobs, avatars |-> a.avatars,
           stray |-> stray, manifest |-> a.manifest]
  BY <1>2
<1>4. IsArchive(b)
  BY <1>1, <1>3 DEF IsArchive, ArePosts, AreUsers, AreFiles
<1> QED BY <1>3, <1>4 DEF SameBut

\* Binaries, avatars, work files and manifest: the rows stay.
RowsKept(a, b, blobs, avatars, stray, manifest) ==
  b = [a EXCEPT !.blobs = blobs, !.avatars = avatars, !.stray = stray, !.manifest = manifest]

LEMMA RowsStay ==
  ASSUME NEW a, IsArchive(a), NEW blobs, NEW avatars, NEW stray, NEW manifest,
         NEW b, RowsKept(a, b, blobs, avatars, stray, manifest)
  PROVE  SameBut(a, b, {"blobs", "avatars"}) /\ b.blobs = blobs /\ b.avatars = avatars
<1> USE DEF RowsKept
<1>1. /\ a.posts = [c \in DOMAIN a.posts |-> a.posts[c]]
      /\ \A c \in DOMAIN a.posts : ArePosts(a.posts[c])
      /\ AreUsers(a.users) /\ AreFiles(a.files)
  BY PartsOfArchive
<1>2. a = [posts |-> a.posts, users |-> a.users, files |-> a.files, emojis |-> a.emojis,
           channels |-> a.channels, blobs |-> a.blobs, avatars |-> a.avatars,
           stray |-> a.stray, manifest |-> a.manifest]
  BY PartsOfArchive
<1>3. b = [posts |-> a.posts, users |-> a.users, files |-> a.files, emojis |-> a.emojis,
           channels |-> a.channels, blobs |-> blobs, avatars |-> avatars,
           stray |-> stray, manifest |-> manifest]
  BY <1>2
<1>4. IsArchive(b)
  BY <1>1, <1>3 DEF IsArchive, ArePosts, AreUsers, AreFiles
<1> QED BY <1>3, <1>4 DEF SameBut

(*-------------------------- the inductive invariant ----------------------*)
Pcs == {"idle", "posts", "users", "files", "blobs", "manifest", "done"}

Shape ==
  /\ IsArchive(src) /\ IsArchive(orig) /\ DOMAIN src.posts = DOMAIN orig.posts
  /\ begun \subseteq Requests
  /\ rd = [pc |-> rd.pc, request |-> rd.request, left |-> rd.left, temp |-> rd.temp,
           doomed |-> rd.doomed]
  /\ rd.pc \in Pcs
  /\ rd.pc # "idle" => rd.request \in begun
  /\ rd.pc = "posts" /\ rd.temp # <<>> => \E c \in rd.left : rd.temp = <<"posts", c>>
  /\ rd.left \subseteq DOMAIN src.posts
  /\ rd.pc # "posts" => rd.left = {}

\* The files a redaction has been through hold nothing of its account.
ErasedSoFar ==
  LET u == rd.request.user IN
  /\ rd.pc # "idle" => \A c \in DOMAIN src.posts \ rd.left : NoPostOf(src.posts[c], u)
  /\ rd.pc \in {"files", "blobs", "manifest", "done"} => NoRowOf(src.users, u)
  /\ rd.pc \in {"blobs", "manifest", "done"} => NoFileOf(src.files, u)
  /\ rd.pc \in {"manifest", "done"} => u \notin src.avatars

RedactInv == Shape /\ ErasedSoFar

LEMMA RedactInitHolds == RedactInit => RedactInv
<1> SUFFICES ASSUME RedactInit PROVE RedactInv
  OBVIOUS
<1>1. src \in Sources /\ orig = src /\ rd = Idle /\ begun = {}
  BY DEF RedactInit
<1>2. IsArchive(src) /\ IsArchive(orig)
  BY <1>1, SourcesAssumption
<1>3. rd.pc = "idle" /\ rd.left = {} /\ rd.temp = <<>>
      /\ rd = [pc |-> rd.pc, request |-> rd.request, left |-> rd.left, temp |-> rd.temp,
               doomed |-> rd.doomed]
  BY <1>1 DEF Idle
<1> QED BY <1>1, <1>2, <1>3 DEF RedactInv, Shape, ErasedSoFar, Pcs

LEMMA StartStep == ASSUME RedactInv, NEW q \in Requests, StartRedact(q) PROVE RedactInv'
<1>1. src' = src /\ orig' = orig /\ begun' = begun \cup {q}
  BY DEF StartRedact
<1> DEFINE pc == AfterPosts(DOMAIN src.posts)
<1>2. rd' = [pc |-> pc, request |-> q, left |-> DOMAIN src.posts, temp |-> <<>>, doomed |-> {}]
  BY DEF StartRedact, Idle
<1>3. pc \in {"posts", "users"} /\ (pc # "posts" => DOMAIN src.posts = {})
  BY DEF AfterPosts
<1> HIDE DEF pc
<1>4. /\ rd'.pc = pc /\ rd'.request = q /\ rd'.left = DOMAIN src.posts /\ rd'.temp = <<>>
      /\ rd' = [pc |-> rd'.pc, request |-> rd'.request, left |-> rd'.left, temp |-> rd'.temp,
                doomed |-> rd'.doomed]
  BY <1>2
<1>5. Shape'
  BY <1>1, <1>3, <1>4 DEF RedactInv, Shape, Pcs
<1>6. ErasedSoFar'
  BY <1>1, <1>3, <1>4 DEF ErasedSoFar
<1> QED BY <1>5, <1>6 DEF RedactInv

LEMMA OpenStep ==
  ASSUME RedactInv, NEW f, OpenTemporary(f)
  PROVE  RedactInv' /\ SameBut(src, src', {}) /\ rd'.doomed = rd.doomed
<1>1. /\ rd.temp = <<>> /\ f \in NextFiles
      /\ rd' = [rd EXCEPT !.temp = f] /\ src' = [src EXCEPT !.stray = @ \cup {f}]
      /\ orig' = orig /\ begun' = begun
  BY DEF OpenTemporary
<1>2. Shape /\ ErasedSoFar
  BY DEF RedactInv
<1>3. SameBut(src, src', {})
  <2>1. /\ src = [posts |-> src.posts, users |-> src.users, files |-> src.files,
                  emojis |-> src.emojis, channels |-> src.channels, blobs |-> src.blobs,
                  avatars |-> src.avatars, stray |-> src.stray, manifest |-> src.manifest]
        /\ IsArchive(src)
    BY <1>2, PartsOfArchive DEF Shape
  <2> DEFINE blobs == src.blobs
             avatars == src.avatars
             stray == src.stray \cup {f}
             manifest == src.manifest
             new == src'
  <2>2. RowsKept(src, new, blobs, avatars, stray, manifest)
    BY <1>1, <2>1 DEF RowsKept
  <2> HIDE DEF blobs, avatars, stray, manifest, new
  <2>3. SameBut(src, new, {"blobs", "avatars"}) /\ new.blobs = blobs /\ new.avatars = avatars
    BY <2>1, <2>2, RowsStay
  <2> QED BY <2>3 DEF SameBut, new, blobs, avatars
<1>4. /\ rd'.pc = rd.pc /\ rd'.request = rd.request /\ rd'.left = rd.left /\ rd'.temp = f
      /\ rd'.doomed = rd.doomed
      /\ rd' = [pc |-> rd'.pc, request |-> rd'.request, left |-> rd'.left, temp |-> rd'.temp,
                doomed |-> rd'.doomed]
  BY <1>1, <1>2 DEF Shape
<1>5. rd.pc = "posts" => \E c \in rd.left : f = <<"posts", c>>
  BY <1>1 DEF NextFiles
<1>6. src'.posts = src.posts /\ src'.users = src.users /\ src'.files = src.files
      /\ src'.avatars = src.avatars /\ IsArchive(src')
  BY <1>3 DEF SameBut
<1>7. Shape'
  BY <1>1, <1>2, <1>4, <1>5, <1>6 DEF Shape
<1>8. ErasedSoFar'
  BY <1>2, <1>4, <1>6 DEF ErasedSoFar
<1> QED BY <1>3, <1>4, <1>7, <1>8 DEF RedactInv

\* The fields of the redaction under way, after a step that keeps its shape.
LEMMA RequestKnown ==
  ASSUME Shape, rd.pc # "idle"
  PROVE  /\ rd.request \in begun /\ rd.request \in Requests
         /\ Pseudonym(rd.request.user) # rd.request.user
  BY PseudonymAssumption DEF Shape

LEMMA RenamePostsStep ==
  ASSUME RedactInv, RenamePosts
  PROVE  /\ RedactInv' /\ SameBut(src, src', {"posts"}) /\ DOMAIN src'.posts = DOMAIN src.posts
         /\ \E c \in DOMAIN src.posts : \A d \in DOMAIN src.posts :
              src'.posts[d] = IF d = c THEN RedactPosts(src.posts[c], rd.request) ELSE src.posts[d]
         /\ rd.pc = "posts" /\ rd'.pc \in {"posts", "users"}
<1>1. Shape /\ ErasedSoFar /\ rd.pc = "posts" /\ rd.temp # <<>> /\ IsArchive(src)
  BY DEF RedactInv, Shape, RenamePosts
<1>2. PICK c \in rd.left : rd.temp = <<"posts", c>>
  BY <1>1 DEF Shape
<1>3. rd.temp[2] = c /\ c \in DOMAIN src.posts
  BY <1>1, <1>2 DEF Shape
<1> DEFINE q == rd.request
           new == RedactPosts(src.posts[c], q)
           stray == src.stray \ {rd.temp}
           left == rd.left \ {c}
           pc == AfterPosts(left)
<1>4. /\ src' = [src EXCEPT !.posts[c] = RedactPosts(src.posts[c], q), !.stray = stray]
      /\ rd' = [rd EXCEPT !.temp = <<>>, !.left = left, !.pc = pc]
      /\ orig' = orig /\ begun' = begun
  BY <1>3 DEF RenamePosts
<1>5. q \in begun /\ Pseudonym(q.user) # q.user
  BY <1>1, RequestKnown
<1>6. ArePosts(new) /\ NoPostOf(new, q.user)
  <2>1. ArePosts(src.posts[c])
    BY <1>1, <1>3, PartsOfArchive
  <2> QED BY <1>5, <2>1, RedactedPostsRows
<1>7. pc \in {"posts", "users"} /\ (pc # "posts" <=> left = {})
  BY DEF AfterPosts
<1>8. /\ SameBut(src, src', {"posts"}) /\ DOMAIN src'.posts = DOMAIN src.posts
      /\ \A d \in DOMAIN src.posts : src'.posts[d] = IF d = c THEN new ELSE src.posts[d]
  <2> DEFINE b == src'
  <2>1. PostsPut(src, b, c, new, stray)
    BY <1>4 DEF PostsPut
  <2> HIDE DEF new, stray, b
  <2>2. /\ SameBut(src, b, {"posts"}) /\ DOMAIN b.posts = DOMAIN src.posts
        /\ \A d \in DOMAIN src.posts : b.posts[d] = IF d = c THEN new ELSE src.posts[d]
    BY <1>1, <1>3, <1>6, <2>1, PostsReplaced
  <2> QED BY <2>2 DEF b
<1> HIDE DEF pc
<1>9. /\ rd'.pc = pc /\ rd'.request = q /\ rd'.left = left /\ rd'.temp = <<>>
      /\ rd' = [pc |-> rd'.pc, request |-> rd'.request, left |-> rd'.left, temp |-> rd'.temp,
                doomed |-> rd'.doomed]
  BY <1>1, <1>4 DEF Shape
<1> HIDE DEF new, stray
<1>10. IsArchive(src')
  BY <1>8 DEF SameBut
<1>11. Shape'
  BY <1>1, <1>4, <1>5, <1>7, <1>8, <1>9, <1>10 DEF Shape, Pcs
<1>12. ErasedSoFar'
  <2>1. \A d \in DOMAIN src'.posts \ rd'.left : NoPostOf(src'.posts[d], q.user)
    BY <1>1, <1>6, <1>8, <1>9 DEF ErasedSoFar
  <2> QED BY <1>7, <1>9, <2>1 DEF ErasedSoFar
<1> QED BY <1>1, <1>3, <1>7, <1>8, <1>9, <1>11, <1>12 DEF RedactInv, new

LEMMA RenameUsersStep ==
  ASSUME RedactInv, RenameUsers
  PROVE  /\ RedactInv' /\ SameBut(src, src', {"users"})
         /\ src'.users = RedactUsers(src.users, rd.request)
         /\ rd.pc = "users" /\ rd'.pc = "files"
<1>1. Shape /\ ErasedSoFar /\ rd.pc = "users" /\ IsArchive(src)
  BY DEF RedactInv, Shape, RenameUsers
<1> DEFINE q == rd.request
           new == RedactUsers(src.users, q)
           stray == src.stray \ {rd.temp}
           b == src'
<1>2. /\ UsersPut(src, b, new, stray)
      /\ rd' = [rd EXCEPT !.temp = <<>>, !.pc = "files"]
      /\ orig' = orig /\ begun' = begun
  BY DEF RenameUsers, UsersPut
<1>3. q \in begun /\ Pseudonym(q.user) # q.user
  BY <1>1, RequestKnown
<1>4. AreUsers(new) /\ NoRowOf(new, q.user)
  BY <1>1, <1>3, PartsOfArchive, RedactedUsersRows
<1> HIDE DEF new, stray, b
<1>5. SameBut(src, b, {"users"}) /\ b.users = new
  BY <1>1, <1>2, <1>4, UsersReplaced
<1>6. SameBut(src, src', {"users"}) /\ src'.users = new /\ src'.posts = src.posts /\ IsArchive(src')
  BY <1>5 DEF b, SameBut
<1>7. /\ rd'.pc = "files" /\ rd'.request = q /\ rd'.left = rd.left /\ rd'.temp = <<>>
      /\ rd' = [pc |-> rd'.pc, request |-> rd'.request, left |-> rd'.left, temp |-> rd'.temp,
                doomed |-> rd'.doomed]
  BY <1>1, <1>2 DEF Shape
<1>8. Shape'
  BY <1>1, <1>2, <1>3, <1>6, <1>7 DEF Shape, Pcs
<1>9. ErasedSoFar'
  BY <1>1, <1>4, <1>6, <1>7 DEF ErasedSoFar
<1> QED BY <1>1, <1>6, <1>7, <1>8, <1>9 DEF RedactInv, new

LEMMA RenameFilesStep ==
  ASSUME RedactInv, RenameFiles
  PROVE  /\ RedactInv' /\ SameBut(src, src', {"files"})
         /\ src'.files = RedactFiles(src.files, rd.request)
         /\ rd.pc = "files" /\ rd'.pc = "blobs" /\ rd'.doomed = Doomed(src, rd.request)
<1>1. Shape /\ ErasedSoFar /\ rd.pc = "files" /\ IsArchive(src)
  BY DEF RedactInv, Shape, RenameFiles
<1> DEFINE q == rd.request
           new == RedactFiles(src.files, q)
           stray == src.stray \ {rd.temp}
           b == src'
           doomed == Doomed(src, rd.request)
<1>2. /\ FilesPut(src, b, new, stray)
      /\ rd' = [rd EXCEPT !.temp = <<>>, !.pc = "blobs", !.doomed = doomed]
      /\ orig' = orig /\ begun' = begun
  BY DEF RenameFiles, FilesPut
<1>3. q \in begun /\ Pseudonym(q.user) # q.user
  BY <1>1, RequestKnown
<1>4. AreFiles(new) /\ NoFileOf(new, q.user)
  BY <1>1, <1>3, PartsOfArchive, RedactedFilesRows
<1> HIDE DEF new, stray, b, doomed
<1>5. SameBut(src, b, {"files"}) /\ b.files = new
  BY <1>1, <1>2, <1>4, FilesReplaced
<1>6. SameBut(src, src', {"files"}) /\ src'.files = new /\ src'.posts = src.posts
      /\ src'.users = src.users /\ IsArchive(src')
  BY <1>5 DEF b, SameBut
<1>7. /\ rd'.pc = "blobs" /\ rd'.request = q /\ rd'.left = rd.left /\ rd'.temp = <<>>
      /\ rd'.doomed = doomed
      /\ rd' = [pc |-> rd'.pc, request |-> rd'.request, left |-> rd'.left, temp |-> rd'.temp,
                doomed |-> rd'.doomed]
  BY <1>1, <1>2 DEF Shape
<1>8. Shape'
  BY <1>1, <1>2, <1>3, <1>6, <1>7 DEF Shape, Pcs
<1>9. ErasedSoFar'
  BY <1>1, <1>4, <1>6, <1>7 DEF ErasedSoFar
<1> QED BY <1>1, <1>6, <1>7, <1>8, <1>9 DEF RedactInv, new, doomed

\* A step that leaves the rows alone.
LEMMA BinariesStep ==
  ASSUME Shape, NEW blobs, NEW avatars, NEW manifest,
         src' = [src EXCEPT !.blobs = blobs, !.avatars = avatars, !.manifest = manifest]
  PROVE  SameBut(src, src', {"blobs", "avatars"}) /\ src'.blobs = blobs /\ src'.avatars = avatars
<1> DEFINE b == src'
           stray == src.stray
<1>1. IsArchive(src)
  BY DEF Shape
<1>2. /\ src = [posts |-> src.posts, users |-> src.users, files |-> src.files,
                emojis |-> src.emojis, channels |-> src.channels, blobs |-> src.blobs,
                avatars |-> src.avatars, stray |-> src.stray, manifest |-> src.manifest]
  BY <1>1, PartsOfArchive
<1>3. RowsKept(src, b, blobs, avatars, stray, manifest)
  BY <1>2 DEF RowsKept
<1> HIDE DEF b, stray
<1>4. SameBut(src, b, {"blobs", "avatars"}) /\ b.blobs = blobs /\ b.avatars = avatars
  BY <1>1, <1>3, RowsStay
<1> QED BY <1>4 DEF b

LEMMA EraseBlobStep ==
  ASSUME RedactInv, NEW f, EraseBlob(f)
  PROVE  /\ RedactInv' /\ SameBut(src, src', {"blobs"}) /\ src'.blobs = src.blobs \ {f}
         /\ rd.pc = "blobs" /\ rd'.pc = "blobs" /\ f \in rd.doomed /\ rd'.doomed = rd.doomed \ {f}
<1>1. Shape /\ ErasedSoFar /\ IsArchive(src)
  BY DEF RedactInv, Shape
<1>2. /\ rd.pc = "blobs" /\ f \in rd.doomed /\ orig' = orig /\ begun' = begun
      /\ src' = [src EXCEPT !.blobs = src.blobs \ {f}] /\ rd' = [rd EXCEPT !.doomed = rd.doomed \ {f}]
  BY DEF EraseBlob
<1> DEFINE blobs == src.blobs \ {f}
           avatars == src.avatars
           manifest == src.manifest
<1>3. src' = [src EXCEPT !.blobs = blobs, !.avatars = avatars, !.manifest = manifest]
  <2>1. src = [posts |-> src.posts, users |-> src.users, files |-> src.files,
               emojis |-> src.emojis, channels |-> src.channels, blobs |-> src.blobs,
               avatars |-> src.avatars, stray |-> src.stray, manifest |-> src.manifest]
    BY <1>1, PartsOfArchive
  <2> QED BY <1>2, <2>1
<1> HIDE DEF blobs, avatars, manifest
<1>4. SameBut(src, src', {"blobs", "avatars"}) /\ src'.blobs = blobs /\ src'.avatars = avatars
  BY <1>1, <1>3, BinariesStep
<1>5. SameBut(src, src', {"blobs"}) /\ src'.posts = src.posts /\ src'.users = src.users
      /\ src'.files = src.files /\ IsArchive(src')
  BY <1>4 DEF SameBut, avatars
<1>6. /\ rd'.pc = rd.pc /\ rd'.request = rd.request /\ rd'.left = rd.left /\ rd'.temp = rd.temp
      /\ rd'.doomed = rd.doomed \ {f}
      /\ rd' = [pc |-> rd'.pc, request |-> rd'.request, left |-> rd'.left, temp |-> rd'.temp,
                doomed |-> rd'.doomed]
  BY <1>1, <1>2 DEF Shape
<1>7. Shape'
  BY <1>1, <1>2, <1>5, <1>6 DEF Shape
<1>8. ErasedSoFar'
  BY <1>1, <1>2, <1>5, <1>6 DEF ErasedSoFar
<1> QED BY <1>2, <1>4, <1>5, <1>6, <1>7, <1>8 DEF RedactInv, blobs

LEMMA EraseAvatarStep ==
  ASSUME RedactInv, EraseAvatar
  PROVE  /\ RedactInv' /\ SameBut(src, src', {"avatars"})
         /\ src'.avatars = src.avatars \ {rd.request.user}
         /\ rd.pc = "blobs" /\ rd'.pc = "manifest"
<1>1. Shape /\ ErasedSoFar /\ IsArchive(src)
  BY DEF RedactInv, Shape
<1>2. /\ rd.pc = "blobs" /\ orig' = orig /\ begun' = begun
      /\ src' = [src EXCEPT !.avatars = src.avatars \ {rd.request.user}]
      /\ rd' = [rd EXCEPT !.pc = "manifest"]
  BY DEF EraseAvatar
<1> DEFINE blobs == src.blobs
           avatars == src.avatars \ {rd.request.user}
           manifest == src.manifest
<1>3. src' = [src EXCEPT !.blobs = blobs, !.avatars = avatars, !.manifest = manifest]
  <2>1. src = [posts |-> src.posts, users |-> src.users, files |-> src.files,
               emojis |-> src.emojis, channels |-> src.channels, blobs |-> src.blobs,
               avatars |-> src.avatars, stray |-> src.stray, manifest |-> src.manifest]
    BY <1>1, PartsOfArchive
  <2> QED BY <1>2, <2>1
<1> HIDE DEF blobs, avatars, manifest
<1>4. SameBut(src, src', {"blobs", "avatars"}) /\ src'.blobs = blobs /\ src'.avatars = avatars
  BY <1>1, <1>3, BinariesStep
<1>5. SameBut(src, src', {"avatars"}) /\ src'.posts = src.posts /\ src'.users = src.users
      /\ src'.files = src.files /\ IsArchive(src')
  BY <1>4 DEF SameBut, blobs
<1>6. /\ rd'.pc = "manifest" /\ rd'.request = rd.request /\ rd'.left = rd.left
      /\ rd'.temp = rd.temp
      /\ rd' = [pc |-> rd'.pc, request |-> rd'.request, left |-> rd'.left, temp |-> rd'.temp,
                doomed |-> rd'.doomed]
  BY <1>1, <1>2 DEF Shape
<1>7. Shape'
  BY <1>1, <1>2, <1>5, <1>6 DEF Shape, Pcs
<1>8. ErasedSoFar'
  BY <1>1, <1>2, <1>4, <1>5, <1>6 DEF ErasedSoFar, avatars
<1> QED BY <1>2, <1>4, <1>5, <1>6, <1>7, <1>8 DEF RedactInv, avatars

\* The end of a redaction, whole or cut.
LEMMA EndsStep ==
  ASSUME RedactInv, RefreshManifest \/ EndRedact \/ StopRedact
  PROVE  RedactInv' /\ SameBut(src, src', {}) /\ rd'.pc \in {"done", "idle"}
<1>1. Shape /\ ErasedSoFar /\ IsArchive(src)
  BY DEF RedactInv, Shape
<1>2. \E manifest : src' = [src EXCEPT !.manifest = manifest]
  <2>1. src = [posts |-> src.posts, users |-> src.users, files |-> src.files,
               emojis |-> src.emojis, channels |-> src.channels, blobs |-> src.blobs,
               avatars |-> src.avatars, stray |-> src.stray, manifest |-> src.manifest]
    BY <1>1, PartsOfArchive
  <2>2. src = [src EXCEPT !.manifest = src.manifest]
    BY <2>1
  <2>3. CASE RefreshManifest
    BY <2>2, <2>3 DEF RefreshManifest
  <2>4. CASE EndRedact
    BY <2>2, <2>4 DEF EndRedact
  <2>5. CASE StopRedact
    <3>1. CASE UNCHANGED src
      BY <2>2, <3>1
    <3>2. CASE src' = [src EXCEPT !.manifest.readable = FALSE]
      <4>1. src' = [src EXCEPT !.manifest = [src.manifest EXCEPT !.readable = FALSE]]
        BY <3>2
      <4> QED BY <4>1
    <3> QED BY <2>5, <3>1, <3>2 DEF StopRedact
  <2> QED BY <2>3, <2>4, <2>5
<1>3. PICK manifest : src' = [src EXCEPT !.manifest = manifest]
  BY <1>2
<1> DEFINE blobs == src.blobs
           avatars == src.avatars
<1>4. src' = [src EXCEPT !.blobs = blobs, !.avatars = avatars, !.manifest = manifest]
  <2>1. src = [posts |-> src.posts, users |-> src.users, files |-> src.files,
               emojis |-> src.emojis, channels |-> src.channels, blobs |-> src.blobs,
               avatars |-> src.avatars, stray |-> src.stray, manifest |-> src.manifest]
    BY <1>1, PartsOfArchive
  <2> QED BY <1>3, <2>1
<1> HIDE DEF blobs, avatars
<1>5. SameBut(src, src', {"blobs", "avatars"}) /\ src'.blobs = blobs /\ src'.avatars = avatars
  BY <1>1, <1>4, BinariesStep
<1>6. /\ SameBut(src, src', {}) /\ IsArchive(src') /\ src'.posts = src.posts
      /\ src'.users = src.users /\ src'.files = src.files /\ src'.avatars = src.avatars
  BY <1>5 DEF SameBut, blobs, avatars
<1>7. orig' = orig /\ begun' = begun
  BY DEF RefreshManifest, EndRedact, StopRedact
<1>8. CASE RefreshManifest
  <2>1. rd' = [rd EXCEPT !.pc = "done"] /\ rd.pc = "manifest"
    BY <1>8 DEF RefreshManifest
  <2>2. /\ rd'.pc = "done" /\ rd'.request = rd.request /\ rd'.left = rd.left
        /\ rd' = [pc |-> rd'.pc, request |-> rd'.request, left |-> rd'.left, temp |-> rd'.temp,
                  doomed |-> rd'.doomed]
    BY <1>1, <2>1 DEF Shape
  <2>3. Shape'
    BY <1>1, <1>6, <1>7, <2>1, <2>2 DEF Shape, Pcs
  <2>4. ErasedSoFar'
    BY <1>1, <1>6, <2>1, <2>2 DEF ErasedSoFar
  <2> QED BY <1>6, <2>2, <2>3, <2>4 DEF RedactInv
<1>9. CASE EndRedact \/ StopRedact
  <2>1. rd' = Idle
    BY <1>9 DEF EndRedact, StopRedact
  <2>2. /\ rd'.pc = "idle" /\ rd'.left = {}
        /\ rd' = [pc |-> rd'.pc, request |-> rd'.request, left |-> rd'.left, temp |-> rd'.temp,
                  doomed |-> rd'.doomed]
    BY <2>1 DEF Idle
  <2>3. Shape'
    BY <1>1, <1>6, <1>7, <2>2 DEF Shape, Pcs
  <2>4. ErasedSoFar'
    BY <2>2 DEF ErasedSoFar
  <2> QED BY <1>6, <2>2, <2>3, <2>4 DEF RedactInv
<1> QED BY <1>8, <1>9

LEMMA AnonLeaves ==
  AnonNext => src' = src /\ rd' = rd /\ orig' = orig /\ begun' = begun
<1> SUFFICES ASSUME AnonNext PROVE src' = src /\ rd' = rd /\ orig' = orig /\ begun' = begun
  OBVIOUS
<1>0. ASSUME UNCHANGED redactVars PROVE src' = src /\ rd' = rd /\ orig' = orig /\ begun' = begun
  BY <1>0 DEF redactVars
<1>1. ASSUME NEW niveau \in Levels, NEW force \in BOOLEAN, NEW call \in Calls,
             StartAnonymize(niveau, force, call)
      PROVE  UNCHANGED redactVars
  BY <1>1 DEF StartAnonymize
<1>2. CASE RemoveMark \/ RemoveOthers
  <2>1. UNCHANGED redactVars
    BY <1>2 DEF RemoveMark, RemoveOthers
  <2> QED BY <1>0, <2>1
<1>3. ASSUME NEW order \in Orders(Ids(src.users)), BeginPass(order) PROVE UNCHANGED redactVars
  BY <1>3 DEF BeginPass
<1>4. ASSUME NEW f \in NextOut, WriteOut(f) PROVE UNCHANGED redactVars
  BY <1>4 DEF WriteOut
<1>5. CASE StopAnonymize
  BY <1>5 DEF StopAnonymize
<1>6. CASE Control \/ EndAnonymize
  <2>1. UNCHANGED redactVars
    BY <1>6 DEF Control, EndAnonymize
  <2> QED BY <1>0, <2>1
<1> QED BY <1>0, <1>1, <1>2, <1>3, <1>4, <1>5, <1>6 DEF AnonNext

LEMMA RedactStutter ==
  ASSUME RedactInv, src' = src, rd' = rd, orig' = orig, begun' = begun PROVE RedactInv'
  BY DEF RedactInv, Shape, ErasedSoFar

LEMMA RedactStep == RedactInv /\ [Next]_vars => RedactInv'
<1> SUFFICES ASSUME RedactInv, [Next]_vars PROVE RedactInv'
  OBVIOUS
<1>1. ASSUME NEW q \in Requests, StartRedact(q) PROVE RedactInv'
  BY <1>1, StartStep
<1>2. ASSUME NEW f \in NextFiles, OpenTemporary(f) PROVE RedactInv'
  BY <1>2, OpenStep
<1>3. CASE RenamePosts
  BY <1>3, RenamePostsStep
<1>4. CASE RenameUsers
  BY <1>4, RenameUsersStep
<1>5. CASE RenameFiles
  BY <1>5, RenameFilesStep
<1>6. ASSUME NEW f \in rd.doomed, EraseBlob(f) PROVE RedactInv'
  BY <1>6, EraseBlobStep
<1>7. CASE EraseAvatar
  BY <1>7, EraseAvatarStep
<1>8. CASE RefreshManifest \/ EndRedact \/ StopRedact
  BY <1>8, EndsStep
<1>9. CASE AnonNext
  BY <1>9, AnonLeaves, RedactStutter
<1>10. CASE UNCHANGED vars
  BY <1>10, RedactStutter DEF vars
<1> QED BY <1>1, <1>2, <1>3, <1>4, <1>5, <1>6, <1>7, <1>8, <1>9, <1>10 DEF Next, RedactNext

LEMMA RedactInvariant == Spec => []RedactInv
<1>1. Init => RedactInv
  BY RedactInitHolds DEF Init
<1> QED BY <1>1, RedactStep, PTL DEF Spec

\* A redaction that completes leaves neither a post, a reaction, a row, an
\* attachment nor an avatar of its account, whatever was cut and replayed
\* before: each file rewritten stays free of the account until the end, and no
\* file is left when the avatar goes.
THEOREM NothingOfTheAccount == Spec => []ErasedWhenDone
<1>1. RedactInv => ErasedWhenDone
  <2> SUFFICES ASSUME RedactInv, rd.pc = "done" PROVE ~ Mentions(src, rd.request.user)
    BY DEF ErasedWhenDone
  <2> DEFINE u == rd.request.user
  <2>1. rd.left = {}
    BY DEF RedactInv, Shape
  <2>2. /\ \A c \in DOMAIN src.posts : NoPostOf(src.posts[c], u)
        /\ NoRowOf(src.users, u) /\ NoFileOf(src.files, u) /\ u \notin src.avatars
    BY <2>1 DEF RedactInv, ErasedSoFar
  <2>3. \A p \in PostsOf(src) : u # p.user /\ u \notin p.reactors
    BY <2>2 DEF PostsOf, NoPostOf
  <2>4. u \notin Ids(src.users)
    BY <2>2 DEF Ids, NoRowOf
  <2> QED BY <2>2, <2>3, <2>4 DEF Mentions, NoFileOf
<1> QED BY <1>1, RedactInvariant, PTL

(*------------------------- rows and their binaries -----------------------*)
LEMMA WithBlobRows ==
  ASSUME NEW a, AreFiles(a.files)
  PROVE  ToSet(WithBlob(a)) = {f \in ToSet(a.files) : f.path}
<1> DEFINE R == ToSet(a.files)
           K == {f \in ToSet(a.files) : f.path}
<1>1. a.files \in Seq(R)
  BY DEF AreFiles, AreRows
<1>2. K \subseteq R
  OBVIOUS
<1>3. WithBlob(a) = Those(a.files, K)
  BY DEF WithBlob
<1> HIDE DEF K
<1>4. ToSet(Those(a.files, K)) = ToSet(a.files) \cap K
  BY <1>1, ThoseAreRows
<1> QED BY <1>2, <1>3, <1>4 DEF K

\* Rows as many as their identifiers: no identifier is given twice.
LEMMA OneRowPerId ==
  ASSUME NEW rows, AreRows(rows), ~ Repeats(rows)
  PROVE  \A f, g \in ToSet(rows) : f.id = g.id => f = g
<1> DEFINE n == Len(rows)
           ids == Ids(rows)
           at == [i \in 1..n |-> rows[i].id]
<1>1. n \in Nat /\ DOMAIN rows = 1..n
  BY LenProperties DEF AreRows
<1>2. Cardinality(ids) = n
  BY DEF Repeats
<1>3. ids = {rows[i].id : i \in 1..n} /\ ToSet(rows) = {rows[i] : i \in 1..n}
  BY <1>1 DEF Ids, ToSet
<1>4. at \in Surjection(1..n, ids)
  BY <1>3 DEF Surjection
<1> HIDE DEF n, ids
<1>5. IsFiniteSet(1..n) /\ Cardinality(1..n) = n
  <2>1. n \in Int /\ 1 \in Int
    BY <1>1
  <2>2. IsFiniteSet(1..n) /\ Cardinality(1..n) = IF 1 > n THEN 0 ELSE n - 1 + 1
    BY <2>1, FS_Interval
  <2> QED BY <1>1, <2>2
<1>6. at \in Injection(1..n, ids)
  <2> HIDE DEF at
  <2> QED BY <1>2, <1>4, <1>5, FS_SurjSameCardinalityImpliesInj
<1>7. \A i, j \in 1..n : at[i] = at[j] => i = j
  BY <1>6 DEF Injection, IsInjective
<1> QED BY <1>3, <1>7

\* One owner per file identifier, rows that find their binary, and while the
\* binaries are erased no row left that names one of them.
OneOwner(files) == \A f, g \in ToSet(files) : f.id = g.id => f.user = g.user
NoneDangles(files, blobs) == \A f \in ToSet(files) : f.path => f.id \in blobs
NoneDoomed(files, doomed) == \A f \in ToSet(files) : f.path => f.id \notin doomed

BinariesInv ==
  /\ OneOwner(src.files)
  /\ NoneDangles(src.files, src.blobs)
  /\ rd.pc = "blobs" => NoneDoomed(src.files, rd.doomed)

LEMMA BinariesStay ==
  ASSUME BinariesInv, src'.files = src.files, src'.blobs = src.blobs,
         rd'.pc # "blobs" \/ (rd'.pc = rd.pc /\ rd'.doomed = rd.doomed)
  PROVE  BinariesInv'
  BY DEF BinariesInv

LEMMA BinariesRedacted ==
  ASSUME RedactInv, BinariesInv, RenameFiles
  PROVE  BinariesInv'
<1> DEFINE q == rd.request
           new == RedactFiles(src.files, q)
<1>1. /\ SameBut(src, src', {"files"}) /\ src'.files = new
      /\ rd.pc = "files" /\ rd'.pc = "blobs" /\ rd'.doomed = Doomed(src, q)
  BY RenameFilesStep
<1>2. AreFiles(src.files) /\ Pseudonym(q.user) # q.user
  <2>1. Shape /\ IsArchive(src) /\ rd.pc # "idle"
    BY <1>1 DEF RedactInv, Shape
  <2> QED BY <2>1, PartsOfArchive, RequestKnown
<1>3. \A g \in ToSet(new) : \E f \in ToSet(src.files) :
              /\ g.id = f.id /\ g.path = f.path
              /\ g.user = IF f.user = q.user THEN Pseudonym(q.user) ELSE f.user
              /\ ~ (f.user = q.user /\ q.mode = "remove")
  BY <1>2, RedactedFilesRows
<1>4. ToSet(WithBlob(src)) = {f \in ToSet(src.files) : f.path}
  BY <1>2, WithBlobRows
<1> HIDE DEF q, new
<1>5. OneOwner(new)
  BY <1>3 DEF BinariesInv, OneOwner
<1>6. NoneDangles(new, src.blobs)
  <2> SUFFICES ASSUME NEW g \in ToSet(new), g.path PROVE g.id \in src.blobs
    BY DEF NoneDangles
  <2>1. PICK f \in ToSet(src.files) : g.id = f.id /\ g.path = f.path
    BY <1>3
  <2> QED BY <2>1 DEF BinariesInv, NoneDangles
<1>7. NoneDoomed(new, Doomed(src, q))
  <2> SUFFICES ASSUME NEW g \in ToSet(new), g.id \in Doomed(src, q) PROVE FALSE
    BY DEF NoneDoomed
  <2>1. PICK f \in ToSet(src.files) : g.id = f.id /\ ~ (f.user = q.user /\ q.mode = "remove")
    BY <1>3
  <2>2. q.mode = "remove" /\ \E h \in ToSet(src.files) : h.id = g.id /\ h.user = q.user
    BY <1>4 DEF Doomed
  <2> QED BY <2>1, <2>2 DEF BinariesInv, OneOwner
<1>8. src'.blobs = src.blobs
  BY <1>1 DEF SameBut
<1> QED BY <1>1, <1>5, <1>6, <1>7, <1>8 DEF BinariesInv

LEMMA BinariesKept == RedactInv /\ BinariesInv /\ [Next]_vars => BinariesInv'
<1> SUFFICES ASSUME RedactInv, BinariesInv, [Next]_vars PROVE BinariesInv'
  OBVIOUS
<1>1. ASSUME NEW q \in Requests, StartRedact(q) PROVE BinariesInv'
  <2>1. src' = src /\ rd'.pc # "blobs"
    BY <1>1 DEF StartRedact, Idle, AfterPosts
  <2> QED BY <2>1, BinariesStay
<1>2. ASSUME NEW f \in NextFiles, OpenTemporary(f) PROVE BinariesInv'
  <2>1. SameBut(src, src', {}) /\ rd'.doomed = rd.doomed
    BY <1>2, OpenStep
  <2>2. rd' = [rd EXCEPT !.temp = f]
    BY <1>2 DEF OpenTemporary
  <2>3. rd'.pc = rd.pc
    BY <2>2 DEF RedactInv, Shape
  <2> QED BY <2>1, <2>3, BinariesStay DEF SameBut
<1>3. CASE RenamePosts
  BY <1>3, RenamePostsStep, BinariesStay DEF SameBut
<1>4. CASE RenameUsers
  BY <1>4, RenameUsersStep, BinariesStay DEF SameBut
<1>5. CASE RenameFiles
  BY <1>5, BinariesRedacted
<1>6. ASSUME NEW f \in rd.doomed, EraseBlob(f) PROVE BinariesInv'
  <2>1. /\ SameBut(src, src', {"blobs"}) /\ src'.blobs = src.blobs \ {f}
        /\ rd.pc = "blobs" /\ rd'.pc = "blobs" /\ rd'.doomed = rd.doomed \ {f}
    BY <1>6, EraseBlobStep
  <2>2. src'.files = src.files
    BY <2>1 DEF SameBut
  <2>3. NoneDangles(src.files, src.blobs \ {f})
    BY <2>1 DEF BinariesInv, NoneDangles, NoneDoomed
  <2>4. NoneDoomed(src.files, rd.doomed \ {f})
    BY <2>1 DEF BinariesInv, NoneDoomed
  <2> QED BY <2>1, <2>2, <2>3, <2>4 DEF BinariesInv
<1>7. CASE EraseAvatar
  BY <1>7, EraseAvatarStep, BinariesStay DEF SameBut
<1>8. CASE RefreshManifest \/ EndRedact \/ StopRedact
  BY <1>8, EndsStep, BinariesStay DEF SameBut
<1>9. CASE AnonNext
  BY <1>9, AnonLeaves, BinariesStay
<1>10. CASE UNCHANGED vars
  BY <1>10, BinariesStay DEF vars
<1> QED BY <1>1, <1>2, <1>3, <1>4, <1>5, <1>6, <1>7, <1>8, <1>9, <1>10 DEF Next, RedactNext

\* Started on archives whose attachments pass verify (no row twice, every
\* binary there), a removal never leaves a row that names a missing binary, at
\* any instant and wherever it is cut: the binaries erased are those of rows
\* that are already gone, since an identifier has one owner.
THEOREM RowsBeforeBinaries ==
  ASSUME \A a \in Sources : BlobErrors(a) = {} /\ ~ Repeats(a.files)
  PROVE  Spec => []RowsNeverDangle
<1>1. Init => BinariesInv
  <2> SUFFICES ASSUME Init PROVE BinariesInv
    OBVIOUS
  <2>1. src \in Sources /\ rd.pc # "blobs"
    BY DEF Init, RedactInit, Idle
  <2>2. IsArchive(src) /\ BlobErrors(src) = {} /\ ~ Repeats(src.files)
    BY <2>1, SourcesAssumption
  <2>3. AreFiles(src.files)
    BY <2>2, PartsOfArchive
  <2>4. ToSet(WithBlob(src)) = {f \in ToSet(src.files) : f.path}
    BY <2>3, WithBlobRows
  <2>5. NoneDangles(src.files, src.blobs)
    BY <2>2, <2>4 DEF NoneDangles, BlobErrors
  <2>6. OneOwner(src.files)
    <3>1. \A f, g \in ToSet(src.files) : f.id = g.id => f = g
      BY <2>2, <2>3, OneRowPerId DEF AreFiles
    <3> QED BY <3>1 DEF OneOwner
  <2> QED BY <2>1, <2>5, <2>6 DEF BinariesInv
<1>2. RedactInv /\ BinariesInv => RowsNeverDangle
  <2> SUFFICES ASSUME RedactInv, BinariesInv PROVE RowsNeverDangle
    OBVIOUS
  <2>1. IsArchive(src)
    BY DEF RedactInv, Shape
  <2>2. AreFiles(src.files)
    BY <2>1, PartsOfArchive
  <2>3. ToSet(WithBlob(src)) = {f \in ToSet(src.files) : f.path}
    BY <2>2, WithBlobRows
  <2> QED BY <2>3 DEF BinariesInv, NoneDangles, RowsNeverDangle, BlobErrors
<1> QED BY <1>1, <1>2, RedactInvariant, BinariesKept, PTL DEF Spec

(*-------------------------- the accounts not named -----------------------*)
PostsOfOthers(posts, asked) == {p \in ToSet(posts) : p.user \notin Named(asked)}
PostOfOther(posts, asked) == [p \in ToSet(posts) |-> [p EXCEPT !.reactors = @ \ asked]]
UsersOfOthers(users, asked) == {u \in ToSet(users) : u.id \notin Named(asked)}
FilesOfOthers(files, asked) == {f \in ToSet(files) : f.user \notin Named(asked)}

LEMMA StrippedPostsAre ==
  ASSUME NEW posts, AreRows(posts), NEW asked
  PROVE  StrippedPosts(posts, asked)
           = Mapped(Those(posts, PostsOfOthers(posts, asked)), PostOfOther(posts, asked))
<1> DEFINE kept == Those(posts, PostsOfOthers(posts, asked))
<1>1. \A i \in DOMAIN kept : kept[i] \in ToSet(posts)
  BY RewriteIsMapped DEF PostsOfOthers
<1>2. StrippedPosts(posts, asked) =
        [i \in DOMAIN kept |-> [kept[i] EXCEPT !.reactors = @ \ asked]]
  BY DEF StrippedPosts, Rewrite, PostsOfOthers
<1> HIDE DEF kept
<1>3. StrippedPosts(posts, asked) = Mapped(kept, PostOfOther(posts, asked))
  BY <1>1, <1>2 DEF Mapped, PostOfOther
<1> QED BY <1>3 DEF kept

\* A rewriting that keeps the posts of the others, and of each what the second
\* set of accounts leaves, is not seen once stripped.
PostsSpared(posts, K, N, asked, all) ==
  /\ \A p \in ToSet(posts) :
       (p \in K /\ N[p].user \notin Named(all)) <=> p.user \notin Named(asked)
  /\ \A p \in ToSet(posts) : p.user \notin Named(asked) =>
       [N[p] EXCEPT !.reactors = @ \ all] = [p EXCEPT !.reactors = @ \ asked]

LEMMA PostsStrippedAfter ==
  ASSUME NEW posts, AreRows(posts), NEW K \in SUBSET ToSet(posts), NEW N, NEW asked, NEW all,
         PostsSpared(posts, K, N, asked, all)
  PROVE  StrippedPosts(Mapped(Those(posts, K), N), all) = StrippedPosts(posts, asked)
<1> DEFINE R == ToSet(posts)
           new == Mapped(Those(posts, K), N)
           L == PostsOfOthers(new, all)
           M == PostOfOther(new, all)
           J == PostsOfOthers(posts, asked)
           O == PostOfOther(posts, asked)
<1>1. AreRows(new) /\ ToSet(new) = {N[p] : p \in K}
  BY RewriteIsMapped
<1>2. posts \in Seq(R)
  BY DEF AreRows
<1>3. KeptByBoth(R, K, N, L, J)
  <2> HIDE DEF new
  <2>1. \A p \in R : p \in K /\ N[p] \in L <=> p \in K /\ N[p].user \notin Named(all)
    BY <1>1 DEF PostsOfOthers
  <2>2. \A p \in R : p \in J <=> p.user \notin Named(asked)
    BY DEF PostsOfOthers
  <2> HIDE DEF J, L
  <2> QED BY <2>1, <2>2 DEF PostsSpared, KeptByBoth
<1>4. SameImage(R, N, M, J, O)
  <2> HIDE DEF new
  <2> SUFFICES ASSUME NEW p \in R, p \in J PROVE O[p] = M[N[p]]
    BY DEF SameImage
  <2>1. p \in K /\ p \in R /\ N[p] \in ToSet(new) /\ p.user \notin Named(asked)
    BY <1>1, <1>3 DEF PostsOfOthers, KeptByBoth
  <2>2. O[p] = [p EXCEPT !.reactors = @ \ asked]
    BY <2>1 DEF PostOfOther
  <2>3. M[N[p]] = [N[p] EXCEPT !.reactors = @ \ all]
    BY <2>1 DEF PostOfOther
  <2> QED BY <2>1, <2>2, <2>3 DEF PostsSpared
<1>5. StrippedPosts(new, all) = Mapped(Those(new, L), M)
  <2> HIDE DEF new
  <2> QED BY <1>1, StrippedPostsAre
<1>6. StrippedPosts(posts, asked) = Mapped(Those(posts, J), O)
  BY StrippedPostsAre
<1> HIDE DEF R, L, M, J, O
<1>7. Mapped(Those(Mapped(Those(posts, K), N), L), M) = Mapped(Those(posts, J), O)
  BY <1>2, <1>3, <1>4, RewrittenTwice
<1> QED BY <1>5, <1>6, <1>7

LEMMA RedactedPostsSpared ==
  ASSUME NEW posts, ArePosts(posts), NEW asked, NEW q, q.user \in asked
  PROVE  StrippedPosts(RedactPosts(posts, q), asked) = StrippedPosts(posts, asked)
<1> DEFINE K == PostsKept(posts, q)
           N == PostNew(posts, q)
<1>1. AreRows(posts) /\ RedactPosts(posts, q) = Mapped(Those(posts, K), N)
  BY RedactedPosts DEF ArePosts
<1>2. K \subseteq ToSet(posts)
  BY DEF PostsKept
<1>3. q.user \in Named(asked) /\ Pseudonym(q.user) \in Named(asked)
  BY DEF Named
<1>4. ASSUME NEW p \in ToSet(posts)
      PROVE  /\ (p \in K /\ N[p].user \notin Named(asked)) <=> p.user \notin Named(asked)
             /\ p.user \notin Named(asked) =>
                  [N[p] EXCEPT !.reactors = @ \ asked] = [p EXCEPT !.reactors = @ \ asked]
  <2>1. IsPost(p)
    BY DEF ArePosts
  <2>2. p \in K <=> ~ (p.user = q.user /\ q.mode = "remove")
    BY DEF PostsKept
  <2>3. N[p] = [p EXCEPT !.reactors = @ \ {q.user},
                         !.user = IF @ = q.user THEN Pseudonym(q.user) ELSE @]
    BY DEF PostNew
  <2> HIDE DEF K, N
  <2>4. N[p] = [id |-> p.id, at |-> p.at,
                user |-> IF p.user = q.user THEN Pseudonym(q.user) ELSE p.user,
                reactors |-> p.reactors \ {q.user}, files |-> p.files, sys |-> p.sys,
                text |-> p.text, props |-> p.props]
    BY <2>1, <2>3 DEF IsPost
  <2>5. (p \in K /\ N[p].user \notin Named(asked)) <=> p.user \notin Named(asked)
    BY <1>3, <2>2, <2>4
  <2>6. ASSUME p.user \notin Named(asked)
        PROVE  [N[p] EXCEPT !.reactors = @ \ asked] = [p EXCEPT !.reactors = @ \ asked]
    <3>1. (p.reactors \ {q.user}) \ asked = p.reactors \ asked /\ p.user # q.user
      BY <1>3, <2>6
    <3>2. [N[p] EXCEPT !.reactors = @ \ asked]
            = [id |-> p.id, at |-> p.at, user |-> p.user, reactors |-> p.reactors \ asked,
               files |-> p.files, sys |-> p.sys, text |-> p.text, props |-> p.props]
      BY <2>4, <3>1
    <3>3. [p EXCEPT !.reactors = @ \ asked]
            = [id |-> p.id, at |-> p.at, user |-> p.user, reactors |-> p.reactors \ asked,
               files |-> p.files, sys |-> p.sys, text |-> p.text, props |-> p.props]
      BY <2>1 DEF IsPost
    <3> QED BY <3>2, <3>3
  <2> QED BY <2>5, <2>6
<1> HIDE DEF K, N
<1>5. PostsSpared(posts, K, N, asked, asked)
  BY <1>4 DEF PostsSpared
<1> QED BY <1>1, <1>2, <1>5, PostsStrippedAfter

\* Stripping more accounts after fewer is stripping more.
LEMMA PostsStrippedTwice ==
  ASSUME NEW posts, ArePosts(posts), NEW asked, NEW all, asked \subseteq all
  PROVE  StrippedPosts(StrippedPosts(posts, asked), all) = StrippedPosts(posts, all)
<1> DEFINE K == PostsOfOthers(posts, asked)
           N == PostOfOther(posts, asked)
<1>1. AreRows(posts) /\ StrippedPosts(posts, asked) = Mapped(Those(posts, K), N)
  BY StrippedPostsAre DEF ArePosts
<1>2. K \subseteq ToSet(posts)
  BY DEF PostsOfOthers
<1>3. Named(asked) \subseteq Named(all)
  BY DEF Named
<1>4. ASSUME NEW p \in ToSet(posts)
      PROVE  /\ (p \in K /\ N[p].user \notin Named(all)) <=> p.user \notin Named(all)
             /\ p.user \notin Named(all) =>
                  [N[p] EXCEPT !.reactors = @ \ all] = [p EXCEPT !.reactors = @ \ all]
  <2>1. IsPost(p)
    BY DEF ArePosts
  <2>2. p \in K <=> p.user \notin Named(asked)
    BY DEF PostsOfOthers
  <2>3. N[p] = [p EXCEPT !.reactors = @ \ asked]
    BY DEF PostOfOther
  <2> HIDE DEF K, N
  <2>4. N[p] = [id |-> p.id, at |-> p.at, user |-> p.user, reactors |-> p.reactors \ asked,
                files |-> p.files, sys |-> p.sys, text |-> p.text, props |-> p.props]
    BY <2>1, <2>3 DEF IsPost
  <2>5. (p.reactors \ asked) \ all = p.reactors \ all
    OBVIOUS
  <2>6. [N[p] EXCEPT !.reactors = @ \ all] = [p EXCEPT !.reactors = @ \ all]
    BY <2>1, <2>4, <2>5 DEF IsPost
  <2>7. N[p].user = p.user
    BY <2>4
  <2> QED BY <1>3, <2>2, <2>6, <2>7
<1> HIDE DEF K, N
<1>5. PostsSpared(posts, K, N, all, all)
  BY <1>4 DEF PostsSpared
<1> QED BY <1>1, <1>2, <1>5, PostsStrippedAfter

\* The rows of users.ndjson and of files.ndjson: kept as they are, or gone.
LEMMA UsersStrippedAfter ==
  ASSUME NEW users, AreRows(users), NEW K \in SUBSET ToSet(users), NEW N, NEW asked,
         \A u \in ToSet(users) : (u \in K /\ N[u].id \notin Named(asked)) <=> u.id \notin Named(asked),
         \A u \in ToSet(users) : u.id \notin Named(asked) => N[u] = u
  PROVE  StrippedUsers(Mapped(Those(users, K), N), asked) = StrippedUsers(users, asked)
<1> DEFINE R == ToSet(users)
           new == Mapped(Those(users, K), N)
           L == UsersOfOthers(new, asked)
           J == UsersOfOthers(users, asked)
<1>1. AreRows(new) /\ ToSet(new) = {N[u] : u \in K}
  BY RewriteIsMapped
<1>2. users \in Seq(R)
  BY DEF AreRows
<1>3. KeptByBoth(R, K, N, L, J)
  <2> HIDE DEF new
  <2>1. \A u \in R : u \in K /\ N[u] \in L <=> u \in K /\ N[u].id \notin Named(asked)
    BY <1>1 DEF UsersOfOthers
  <2>2. \A u \in R : u \in J <=> u.id \notin Named(asked)
    BY DEF UsersOfOthers
  <2> HIDE DEF J, L
  <2> QED BY <2>1, <2>2 DEF KeptByBoth
<1>4. \A u \in R : u \in J => N[u] = u
  BY DEF UsersOfOthers
<1>5. StrippedUsers(new, asked) = Those(new, L) /\ StrippedUsers(users, asked) = Those(users, J)
  BY DEF StrippedUsers, UsersOfOthers
<1> HIDE DEF R, L, J
<1>6. Those(Mapped(Those(users, K), N), L) = Those(users, J)
  BY <1>2, <1>3, <1>4, RewrittenThenFiltered
<1> QED BY <1>5, <1>6

LEMMA RedactedUsersSpared ==
  ASSUME NEW users, AreRows(users), NEW asked, NEW q, q.user \in asked, AreUsers(users)
  PROVE  StrippedUsers(RedactUsers(users, q), asked) = StrippedUsers(users, asked)
<1> DEFINE K == UsersKept(users, q)
           N == UserNew(users, q)
<1>1. RedactUsers(users, q) = Mapped(Those(users, K), N)
  BY RedactedUsers
<1>2. K \subseteq ToSet(users)
  BY DEF UsersKept
<1>3. q.user \in Named(asked) /\ Pseudonym(q.user) \in Named(asked)
  BY DEF Named
<1>4. ASSUME NEW u \in ToSet(users)
      PROVE  /\ (u \in K /\ N[u].id \notin Named(asked)) <=> u.id \notin Named(asked)
             /\ u.id \notin Named(asked) => N[u] = u
  <2>1. IsUser(u)
    BY DEF AreUsers
  <2>2. u \in K <=> ~ (u.id = q.user /\ q.mode = "remove")
    BY DEF UsersKept
  <2>3. N[u] = IF u.id # q.user THEN u
               ELSE [u EXCEPT !.id = Pseudonym(q.user), !.names = {},
                              !.username = Pseudonym(q.user), !.avatar = FALSE]
    BY DEF UserNew
  <2> HIDE DEF K, N
  <2>4. CASE u.id # q.user
    BY <2>2, <2>3, <2>4
  <2>5. CASE u.id = q.user
    <3>1. N[u] = [id |-> Pseudonym(q.user), username |-> Pseudonym(q.user), names |-> {},
                  avatar |-> FALSE, email |-> u.email]
      BY <2>1, <2>3, <2>5 DEF IsUser
    <3>2. N[u].id = Pseudonym(q.user)
      BY <3>1
    <3> QED BY <1>3, <2>5, <3>2
  <2> QED BY <2>4, <2>5
<1> HIDE DEF K, N
<1> QED BY <1>1, <1>2, <1>4, UsersStrippedAfter

LEMMA FilesStrippedAfter ==
  ASSUME NEW files, AreRows(files), NEW K \in SUBSET ToSet(files), NEW N, NEW asked,
         \A f \in ToSet(files) : (f \in K /\ N[f].user \notin Named(asked)) <=> f.user \notin Named(asked),
         \A f \in ToSet(files) : f.user \notin Named(asked) => N[f] = f
  PROVE  StrippedFiles(Mapped(Those(files, K), N), asked) = StrippedFiles(files, asked)
<1> DEFINE R == ToSet(files)
           new == Mapped(Those(files, K), N)
           L == FilesOfOthers(new, asked)
           J == FilesOfOthers(files, asked)
<1>1. AreRows(new) /\ ToSet(new) = {N[f] : f \in K}
  BY RewriteIsMapped
<1>2. files \in Seq(R)
  BY DEF AreRows
<1>3. KeptByBoth(R, K, N, L, J)
  <2> HIDE DEF new
  <2>1. \A f \in R : f \in K /\ N[f] \in L <=> f \in K /\ N[f].user \notin Named(asked)
    BY <1>1 DEF FilesOfOthers
  <2>2. \A f \in R : f \in J <=> f.user \notin Named(asked)
    BY DEF FilesOfOthers
  <2> HIDE DEF J, L
  <2> QED BY <2>1, <2>2 DEF KeptByBoth
<1>4. \A f \in R : f \in J => N[f] = f
  BY DEF FilesOfOthers
<1>5. StrippedFiles(new, asked) = Those(new, L) /\ StrippedFiles(files, asked) = Those(files, J)
  BY DEF StrippedFiles, FilesOfOthers
<1> HIDE DEF R, L, J
<1>6. Those(Mapped(Those(files, K), N), L) = Those(files, J)
  BY <1>2, <1>3, <1>4, RewrittenThenFiltered
<1> QED BY <1>5, <1>6

LEMMA RedactedFilesSpared ==
  ASSUME NEW files, AreRows(files), NEW asked, NEW q, q.user \in asked, AreFiles(files)
  PROVE  StrippedFiles(RedactFiles(files, q), asked) = StrippedFiles(files, asked)
<1> DEFINE K == FilesKept(files, q)
           N == FileNew(files, q)
<1>1. RedactFiles(files, q) = Mapped(Those(files, K), N)
  BY RedactedFiles
<1>2. K \subseteq ToSet(files)
  BY DEF FilesKept
<1>3. q.user \in Named(asked) /\ Pseudonym(q.user) \in Named(asked)
  BY DEF Named
<1>4. ASSUME NEW f \in ToSet(files)
      PROVE  /\ (f \in K /\ N[f].user \notin Named(asked)) <=> f.user \notin Named(asked)
             /\ f.user \notin Named(asked) => N[f] = f
  <2>1. IsFile(f)
    BY DEF AreFiles
  <2>2. f \in K <=> ~ (f.user = q.user /\ q.mode = "remove")
    BY DEF FilesKept
  <2>3. N[f] = IF f.user # q.user THEN f ELSE [f EXCEPT !.user = Pseudonym(q.user)]
    BY DEF FileNew
  <2> HIDE DEF K, N
  <2>4. CASE f.user # q.user
    BY <2>2, <2>3, <2>4
  <2>5. CASE f.user = q.user
    <3>1. N[f] = [id |-> f.id, user |-> Pseudonym(q.user), path |-> f.path, name |-> f.name,
                  ext |-> f.ext]
      BY <2>1, <2>3, <2>5 DEF IsFile
    <3>2. N[f].user = Pseudonym(q.user)
      BY <3>1
    <3> QED BY <1>3, <2>5, <3>2
  <2> QED BY <2>4, <2>5
<1> HIDE DEF K, N
<1> QED BY <1>1, <1>2, <1>4, FilesStrippedAfter

\* Filters of more accounts after fewer.
LEMMA RowsStrippedTwice ==
  ASSUME NEW rows, AreRows(rows), NEW K \in SUBSET ToSet(rows), NEW J \in SUBSET K, NEW L,
         \A r \in K : r \in L <=> r \in J
  PROVE  Those(Those(rows, K), L) = Those(rows, J)
<1> DEFINE R == ToSet(rows)
<1>1. rows \in Seq(R)
  BY DEF AreRows
<1>2. Those(Those(rows, K), L) = Those(rows, K \cap L)
  BY <1>1, FilterOfThose
<1>3. K \cap L = J
  OBVIOUS
<1> QED BY <1>2, <1>3

LEMMA UsersStrippedTwice ==
  ASSUME NEW users, AreRows(users), NEW asked, NEW all, asked \subseteq all
  PROVE  StrippedUsers(StrippedUsers(users, asked), all) = StrippedUsers(users, all)
<1> DEFINE K == UsersOfOthers(users, asked)
           J == UsersOfOthers(users, all)
           new == Those(users, K)
           L == UsersOfOthers(new, all)
           R == ToSet(users)
<1>1. users \in Seq(R) /\ K \subseteq R
  BY DEF AreRows, UsersOfOthers
<1>2. Named(asked) \subseteq Named(all)
  BY DEF Named
<1>3. J \subseteq K
  BY <1>2 DEF UsersOfOthers
<1>4. ToSet(new) = K
  <2> HIDE DEF K, R
  <2>1. ToSet(Those(users, K)) = ToSet(users) \cap K
    BY <1>1, ThoseAreRows
  <2> QED BY <1>1, <2>1 DEF R
<1>5. \A u \in K : u \in L <=> u \in J
  <2> HIDE DEF new
  <2> QED BY <1>4 DEF UsersOfOthers
<1>6. /\ StrippedUsers(users, asked) = new /\ StrippedUsers(new, all) = Those(new, L)
      /\ StrippedUsers(users, all) = Those(users, J)
  BY DEF StrippedUsers, UsersOfOthers
<1> HIDE DEF K, L, J
<1>7. Those(Those(users, K), L) = Those(users, J)
  BY <1>1, <1>3, <1>5, RowsStrippedTwice
<1> QED BY <1>6, <1>7

LEMMA FilesStrippedTwice ==
  ASSUME NEW files, AreRows(files), NEW asked, NEW all, asked \subseteq all
  PROVE  StrippedFiles(StrippedFiles(files, asked), all) = StrippedFiles(files, all)
<1> DEFINE K == FilesOfOthers(files, asked)
           J == FilesOfOthers(files, all)
           new == Those(files, K)
           L == FilesOfOthers(new, all)
           R == ToSet(files)
<1>1. files \in Seq(R) /\ K \subseteq R
  BY DEF AreRows, FilesOfOthers
<1>2. Named(asked) \subseteq Named(all)
  BY DEF Named
<1>3. J \subseteq K
  BY <1>2 DEF FilesOfOthers
<1>4. ToSet(new) = K
  <2> HIDE DEF K, R
  <2>1. ToSet(Those(files, K)) = ToSet(files) \cap K
    BY <1>1, ThoseAreRows
  <2> QED BY <1>1, <2>1 DEF R
<1>5. \A f \in K : f \in L <=> f \in J
  <2> HIDE DEF new
  <2> QED BY <1>4 DEF FilesOfOthers
<1>6. /\ StrippedFiles(files, asked) = new /\ StrippedFiles(new, all) = Those(new, L)
      /\ StrippedFiles(files, all) = Those(files, J)
  BY DEF StrippedFiles, FilesOfOthers
<1> HIDE DEF K, L, J
<1>7. Those(Those(files, K), L) = Those(files, J)
  BY <1>1, <1>3, <1>5, RowsStrippedTwice
<1> QED BY <1>6, <1>7

\* What is left of two archives without the accounts is the same.
SameOthers(a, b, asked) ==
  /\ \A c \in DOMAIN b.posts : StrippedPosts(a.posts[c], asked) = StrippedPosts(b.posts[c], asked)
  /\ StrippedUsers(a.users, asked) = StrippedUsers(b.users, asked)
  /\ StrippedFiles(a.files, asked) = StrippedFiles(b.files, asked)
  /\ a.avatars \ asked = b.avatars \ asked

OthersInv == SameOthers(src, orig, Asked)

LEMMA SameOfFewer ==
  ASSUME NEW a, IsArchive(a), NEW b, IsArchive(b), DOMAIN a.posts = DOMAIN b.posts,
         NEW asked, NEW all, asked \subseteq all, SameOthers(a, b, asked)
  PROVE  SameOthers(a, b, all)
<1>1. /\ \A c \in DOMAIN a.posts : ArePosts(a.posts[c]) /\ ArePosts(b.posts[c])
      /\ AreUsers(a.users) /\ AreUsers(b.users) /\ AreFiles(a.files) /\ AreFiles(b.files)
  BY PartsOfArchive
<1>2. ASSUME NEW c \in DOMAIN b.posts
      PROVE  StrippedPosts(a.posts[c], all) = StrippedPosts(b.posts[c], all)
  <2>1. StrippedPosts(a.posts[c], asked) = StrippedPosts(b.posts[c], asked)
    BY DEF SameOthers
  <2>2. StrippedPosts(StrippedPosts(a.posts[c], asked), all) = StrippedPosts(a.posts[c], all)
    BY <1>1, PostsStrippedTwice
  <2>3. StrippedPosts(StrippedPosts(b.posts[c], asked), all) = StrippedPosts(b.posts[c], all)
    BY <1>1, PostsStrippedTwice
  <2> QED BY <2>1, <2>2, <2>3
<1>3. StrippedUsers(a.users, all) = StrippedUsers(b.users, all)
  <2>1. StrippedUsers(a.users, asked) = StrippedUsers(b.users, asked)
    BY DEF SameOthers
  <2>2. StrippedUsers(StrippedUsers(a.users, asked), all) = StrippedUsers(a.users, all)
    BY <1>1, UsersStrippedTwice DEF AreUsers
  <2>3. StrippedUsers(StrippedUsers(b.users, asked), all) = StrippedUsers(b.users, all)
    BY <1>1, UsersStrippedTwice DEF AreUsers
  <2> QED BY <2>1, <2>2, <2>3
<1>4. StrippedFiles(a.files, all) = StrippedFiles(b.files, all)
  <2>1. StrippedFiles(a.files, asked) = StrippedFiles(b.files, asked)
    BY DEF SameOthers
  <2>2. StrippedFiles(StrippedFiles(a.files, asked), all) = StrippedFiles(a.files, all)
    BY <1>1, FilesStrippedTwice DEF AreFiles
  <2>3. StrippedFiles(StrippedFiles(b.files, asked), all) = StrippedFiles(b.files, all)
    BY <1>1, FilesStrippedTwice DEF AreFiles
  <2> QED BY <2>1, <2>2, <2>3
<1>5. a.avatars \ all = b.avatars \ all
  BY DEF SameOthers
<1> QED BY <1>2, <1>3, <1>4, <1>5 DEF SameOthers

LEMMA OthersStay ==
  ASSUME OthersInv, src'.posts = src.posts, src'.users = src.users, src'.files = src.files,
         src'.avatars = src.avatars, orig' = orig, begun' = begun
  PROVE  OthersInv'
  BY DEF OthersInv, SameOthers, Asked

\* The history variables, where a step of a redaction leaves them.
LEMMA HistoryStays ==
  ASSUME NEW f,
         \/ OpenTemporary(f) \/ RenamePosts \/ RenameUsers \/ RenameFiles \/ EraseBlob(f)
         \/ EraseAvatar \/ RefreshManifest \/ EndRedact \/ StopRedact
  PROVE  orig' = orig /\ begun' = begun
  BY DEF OpenTemporary, RenamePosts, RenameUsers, RenameFiles, EraseBlob, EraseAvatar,
         RefreshManifest, EndRedact, StopRedact

LEMMA OthersKept == RedactInv /\ OthersInv /\ [Next]_vars => OthersInv'
<1> SUFFICES ASSUME RedactInv, OthersInv, [Next]_vars PROVE OthersInv'
  OBVIOUS
<1>0. /\ Shape /\ IsArchive(src) /\ IsArchive(orig) /\ DOMAIN src.posts = DOMAIN orig.posts
      /\ rd.pc # "idle" => rd.request.user \in Asked
  BY DEF RedactInv, Shape, Asked
<1>1. ASSUME NEW q \in Requests, StartRedact(q) PROVE OthersInv'
  <2>1. src' = src /\ orig' = orig /\ begun \subseteq begun'
    BY <1>1 DEF StartRedact
  <2> DEFINE more == Asked'
  <2>2. Asked \subseteq more
    BY <2>1 DEF Asked
  <2> HIDE DEF more
  <2>3. SameOthers(src, orig, more)
    BY <1>0, <2>2, SameOfFewer DEF OthersInv
  <2> QED BY <2>1, <2>3 DEF OthersInv, more
<1>2. ASSUME NEW f \in NextFiles, OpenTemporary(f) PROVE OthersInv'
  BY <1>2, OpenStep, HistoryStays, OthersStay DEF SameBut
<1>3. CASE RenamePosts
  <2>1. /\ SameBut(src, src', {"posts"}) /\ rd.pc = "posts"
        /\ \E c \in DOMAIN src.posts : \A d \in DOMAIN src.posts :
              src'.posts[d] = IF d = c THEN RedactPosts(src.posts[c], rd.request) ELSE src.posts[d]
    BY <1>3, RenamePostsStep
  <2>2. PICK c \in DOMAIN src.posts : \A d \in DOMAIN src.posts :
              src'.posts[d] = IF d = c THEN RedactPosts(src.posts[c], rd.request) ELSE src.posts[d]
    BY <2>1
  <2>3. orig' = orig /\ begun' = begun /\ Asked' = Asked
    BY <1>3, HistoryStays DEF Asked
  <2>4. StrippedPosts(RedactPosts(src.posts[c], rd.request), Asked) = StrippedPosts(src.posts[c], Asked)
    <3> DEFINE all == Asked
               posts == src.posts[c]
               q == rd.request
    <3>1. ArePosts(posts) /\ q.user \in all
      BY <1>0, <2>1, PartsOfArchive
    <3> HIDE DEF all, posts, q
    <3>2. StrippedPosts(RedactPosts(posts, q), all) = StrippedPosts(posts, all)
      BY <3>1, RedactedPostsSpared
    <3> QED BY <3>2 DEF all, posts, q
  <2>5. \A d \in DOMAIN orig.posts : StrippedPosts(src'.posts[d], Asked) = StrippedPosts(orig.posts[d], Asked)
    BY <1>0, <2>2, <2>4 DEF OthersInv, SameOthers
  <2>6. src'.users = src.users /\ src'.files = src.files /\ src'.avatars = src.avatars
    BY <2>1 DEF SameBut
  <2> QED BY <2>3, <2>5, <2>6 DEF OthersInv, SameOthers
<1>4. CASE RenameUsers
  <2>1. /\ SameBut(src, src', {"users"}) /\ rd.pc = "users"
        /\ src'.users = RedactUsers(src.users, rd.request)
    BY <1>4, RenameUsersStep
  <2>2. orig' = orig /\ begun' = begun /\ Asked' = Asked
    BY <1>4, HistoryStays DEF Asked
  <2>3. StrippedUsers(RedactUsers(src.users, rd.request), Asked) = StrippedUsers(src.users, Asked)
    <3> DEFINE all == Asked
               users == src.users
               q == rd.request
    <3>1. AreUsers(users) /\ AreRows(users) /\ q.user \in all
      BY <1>0, <2>1, PartsOfArchive DEF AreUsers
    <3> HIDE DEF all, users, q
    <3>2. StrippedUsers(RedactUsers(users, q), all) = StrippedUsers(users, all)
      BY <3>1, RedactedUsersSpared
    <3> QED BY <3>2 DEF all, users, q
  <2>4. src'.posts = src.posts /\ src'.files = src.files /\ src'.avatars = src.avatars
    BY <2>1 DEF SameBut
  <2> QED BY <2>1, <2>2, <2>3, <2>4 DEF OthersInv, SameOthers
<1>5. CASE RenameFiles
  <2>1. /\ SameBut(src, src', {"files"}) /\ rd.pc = "files"
        /\ src'.files = RedactFiles(src.files, rd.request)
    BY <1>5, RenameFilesStep
  <2>2. orig' = orig /\ begun' = begun /\ Asked' = Asked
    BY <1>5, HistoryStays DEF Asked
  <2>3. StrippedFiles(RedactFiles(src.files, rd.request), Asked) = StrippedFiles(src.files, Asked)
    <3> DEFINE all == Asked
               files == src.files
               q == rd.request
    <3>1. AreFiles(files) /\ AreRows(files) /\ q.user \in all
      BY <1>0, <2>1, PartsOfArchive DEF AreFiles
    <3> HIDE DEF all, files, q
    <3>2. StrippedFiles(RedactFiles(files, q), all) = StrippedFiles(files, all)
      BY <3>1, RedactedFilesSpared
    <3> QED BY <3>2 DEF all, files, q
  <2>4. src'.posts = src.posts /\ src'.users = src.users /\ src'.avatars = src.avatars
    BY <2>1 DEF SameBut
  <2> QED BY <2>1, <2>2, <2>3, <2>4 DEF OthersInv, SameOthers
<1>6. ASSUME NEW f \in rd.doomed, EraseBlob(f) PROVE OthersInv'
  BY <1>6, EraseBlobStep, HistoryStays, OthersStay DEF SameBut
<1>7. CASE EraseAvatar
  <2>1. /\ SameBut(src, src', {"avatars"}) /\ rd.pc = "blobs"
        /\ src'.avatars = src.avatars \ {rd.request.user}
    BY <1>7, EraseAvatarStep
  <2>2. orig' = orig /\ begun' = begun /\ Asked' = Asked
    BY <1>7, HistoryStays DEF Asked
  <2>3. src'.posts = src.posts /\ src'.users = src.users /\ src'.files = src.files
    BY <2>1 DEF SameBut
  <2>4. src'.avatars \ Asked = src.avatars \ Asked
    BY <1>0, <2>1
  <2> QED BY <2>2, <2>3, <2>4 DEF OthersInv, SameOthers
<1>8. CASE RefreshManifest \/ EndRedact \/ StopRedact
  BY <1>8, EndsStep, HistoryStays, OthersStay DEF SameBut
<1>9. CASE AnonNext
  BY <1>9, AnonLeaves, OthersStay
<1>10. CASE UNCHANGED vars
  BY <1>10, OthersStay DEF vars
<1> QED BY <1>1, <1>2, <1>3, <1>4, <1>5, <1>6, <1>7, <1>8, <1>9, <1>10 DEF Next, RedactNext

\* Whatever requests are made, in whatever order, cut anywhere and repeated, the
\* posts, reactions, rows, attachments and avatars of the accounts nobody named
\* are those of the first archive, in its order: every rewriting is invisible
\* once the named accounts and their pseudonyms are stripped, and stripping one
\* more account is stripping what was stripped already.
THEOREM OthersAreUntouched == Spec => []OthersUntouched
<1>1. Init => OthersInv
  BY DEF Init, RedactInit, OthersInv, SameOthers
<1>2. RedactInv /\ OthersInv => OthersUntouched
  <2> SUFFICES ASSUME RedactInv, OthersInv PROVE Stripped(src, Asked) = Stripped(orig, Asked)
    BY DEF OthersUntouched
  <2>1. DOMAIN src.posts = DOMAIN orig.posts
    BY DEF RedactInv, Shape
  <2>2. [c \in DOMAIN src.posts |-> StrippedPosts(src.posts[c], Asked)]
          = [c \in DOMAIN orig.posts |-> StrippedPosts(orig.posts[c], Asked)]
    BY <2>1 DEF OthersInv, SameOthers
  <2> QED BY <2>2 DEF Stripped, OthersInv, SameOthers
<1> QED BY <1>1, <1>2, RedactInvariant, OthersKept, PTL DEF Spec

(*--------------------- no row twice, posts in their order ----------------*)
Distinct(rows) == \A i, j \in DOMAIN rows : rows[i].id = rows[j].id => i = j

\* A file has a row twice exactly when two places hold the same identifier.
LEMMA DistinctRows ==
  ASSUME NEW rows, AreRows(rows)
  PROVE  Repeats(rows) <=> ~ Distinct(rows)
<1> DEFINE n == Len(rows)
           ids == Ids(rows)
           at == [i \in 1..n |-> rows[i].id]
<1>1. n \in Nat /\ DOMAIN rows = 1..n
  BY LenProperties DEF AreRows
<1>2. ids = {rows[i].id : i \in 1..n}
  BY <1>1 DEF Ids, ToSet
<1>3. at \in Surjection(1..n, ids)
  BY <1>2 DEF Surjection
<1>4. at \in Injection(1..n, ids) <=> Distinct(rows)
  BY <1>1, <1>2 DEF Injection, IsInjective, Distinct
<1> HIDE DEF n, ids, at
<1>5. IsFiniteSet(1..n) /\ Cardinality(1..n) = n
  <2>1. n \in Int /\ 1 \in Int
    BY <1>1
  <2>2. IsFiniteSet(1..n) /\ Cardinality(1..n) = IF 1 > n THEN 0 ELSE n - 1 + 1
    BY <2>1, FS_Interval
  <2> QED BY <1>1, <2>2
<1>6. Cardinality(ids) = n <=> at \in Injection(1..n, ids)
  BY <1>3, <1>5, FS_Surjection
<1> QED BY <1>4, <1>6 DEF Repeats, n, ids

LEMMA DistinctOfAppend ==
  ASSUME NEW R, NEW s \in Seq(R), NEW e \in R
  PROVE  Distinct(Append(s, e)) <=> Distinct(s) /\ \A x \in ToSet(s) : x.id # e.id
<1> DEFINE t == Append(s, e)
           n == Len(s)
<1>1. /\ n \in Nat /\ (\A i \in 1..n : t[i] = s[i]) /\ t[n + 1] = e
      /\ DOMAIN s = 1..n /\ DOMAIN t = 1..(n + 1)
  <2>1. t \in Seq(R) /\ n \in Nat /\ Len(t) = n + 1 /\ (\A i \in 1..n : t[i] = s[i]) /\ t[n + 1] = e
    BY AppendProperties, LenProperties
  <2> HIDE DEF t, n
  <2>2. DOMAIN t = 1..Len(t) /\ DOMAIN s = 1..n
    BY <2>1, LenProperties DEF n
  <2> QED BY <2>1, <2>2
<1> HIDE DEF t, n
<1>2. \A i \in 1..(n + 1) : i \in 1..n \/ i = n + 1
  BY <1>1
<1>3. \A i \in 1..n : i \in 1..(n + 1) /\ i # n + 1
  BY <1>1
<1>4. n + 1 \in 1..(n + 1)
  BY <1>1
<1>5. ToSet(s) = {s[i] : i \in 1..n}
  BY <1>1 DEF ToSet
<1>6. ASSUME Distinct(t) PROVE Distinct(s) /\ \A x \in ToSet(s) : x.id # e.id
  BY <1>1, <1>3, <1>4, <1>5, <1>6 DEF Distinct
<1>7. ASSUME Distinct(s), \A x \in ToSet(s) : x.id # e.id PROVE Distinct(t)
  BY <1>1, <1>2, <1>5, <1>7 DEF Distinct
<1> QED BY <1>6, <1>7 DEF t

LEMMA DistinctThose ==
  ASSUME NEW R, NEW K
  PROVE  \A s \in Seq(R) : Distinct(s) => Distinct(Those(s, K))
<1> DEFINE T == {s \in Seq(R) : Distinct(s) => Distinct(Those(s, K))}
<1>1. <<>> \in T
  BY EmptySeq, ThoseOfNone
<1>2. ASSUME NEW s \in T, NEW e \in R PROVE Append(s, e) \in T
  <2>1. s \in Seq(R) /\ Append(s, e) \in Seq(R) /\ (Distinct(s) => Distinct(Those(s, K)))
    BY AppendProperties
  <2> HIDE DEF T
  <2>2. Those(s, K) \in Seq(R) /\ ToSet(Those(s, K)) = ToSet(s) \cap K
    BY <2>1, ThoseAreRows
  <2>3. Those(Append(s, e), K) = IF e \in K THEN Append(Those(s, K), e) ELSE Those(s, K)
    BY <2>1, ThoseOfAppend
  <2>4. Distinct(Append(s, e)) => Distinct(s) /\ \A x \in ToSet(s) : x.id # e.id
    BY <2>1, DistinctOfAppend
  <2>5. Distinct(Those(s, K)) /\ (\A x \in ToSet(Those(s, K)) : x.id # e.id)
          => Distinct(Append(Those(s, K), e))
    BY <2>2, DistinctOfAppend
  <2> QED BY <2>1, <2>2, <2>3, <2>4, <2>5 DEF T
<1>3. T = Seq(R)
  <2> HIDE DEF T
  <2>1. T \in SUBSET Seq(R)
    BY DEF T
  <2> QED BY <1>1, <1>2, <2>1, SequenceInduction
<1> QED BY <1>3

LEMMA DistinctMapped ==
  ASSUME NEW R, NEW s \in Seq(R), NEW N, Distinct(s),
         \A x, y \in ToSet(s) : N[x].id = N[y].id => x.id = y.id
  PROVE  Distinct(Mapped(s, N))
<1>1. DOMAIN Mapped(s, N) = DOMAIN s /\ \A i \in DOMAIN s : Mapped(s, N)[i] = N[s[i]] /\ s[i] \in ToSet(s)
  BY DEF Mapped, ToSet
<1> QED BY <1>1 DEF Distinct

LEMMA InOrderOfAppend ==
  ASSUME NEW R, NEW s \in Seq(R), NEW e \in R
  PROVE  InOrder(Append(s, e)) <=> InOrder(s) /\ (s # <<>> => s[Len(s)].at <= e.at)
<1> DEFINE t == Append(s, e)
           n == Len(s)
<1>1. /\ n \in Nat /\ (\A i \in 1..n : t[i] = s[i]) /\ t[n + 1] = e /\ Len(t) = n + 1
      /\ s # <<>> <=> n # 0
  BY AppendProperties, LenProperties, EmptySeq
<1> HIDE DEF t, n
<1>2. \A i \in 2..n : i \in 2..(n + 1) /\ i \in 1..n /\ i - 1 \in 1..n
  BY <1>1
<1>3. \A i \in 2..(n + 1) : i \in 2..n \/ (i = n + 1 /\ i - 1 = n /\ n \in 1..n /\ n # 0)
  BY <1>1
<1>4. n # 0 => n + 1 \in 2..(n + 1) /\ (n + 1) - 1 = n /\ n \in 1..n
  BY <1>1
<1>5. ASSUME InOrder(t) PROVE InOrder(s) /\ (s # <<>> => s[n].at <= e.at)
  <2>1. \A i \in 2..(n + 1) : t[i - 1].at <= t[i].at
    BY <1>1, <1>5 DEF InOrder
  <2>2. \A i \in 2..n : s[i - 1].at <= s[i].at
    BY <1>1, <1>2, <2>1
  <2> QED BY <1>1, <1>4, <2>1, <2>2 DEF InOrder, n
<1>6. ASSUME InOrder(s), s # <<>> => s[n].at <= e.at PROVE InOrder(t)
  <2>1. \A i \in 2..n : s[i - 1].at <= s[i].at
    BY <1>6 DEF InOrder, n
  <2>2. \A i \in 2..(n + 1) : t[i - 1].at <= t[i].at
    BY <1>1, <1>2, <1>3, <1>6, <2>1
  <2> QED BY <1>1, <2>2 DEF InOrder
<1> QED BY <1>5, <1>6 DEF t, n

\* In an ordered file the last row is no earlier than any.
Latest(s) == s # <<>> => \A x \in ToSet(s) : x.at <= s[Len(s)].at

LEMMA LatestOfAppend ==
  ASSUME NEW R, NEW s \in Seq(R), NEW e \in R, \A x \in R : x.at \in Nat,
         Latest(s), InOrder(Append(s, e))
  PROVE  Latest(Append(s, e)) /\ \A x \in ToSet(s) : x.at <= e.at
<1>1. /\ Append(s, e)[Len(Append(s, e))] = e /\ ToSet(Append(s, e)) = ToSet(s) \cup {e}
      /\ (s # <<>> => s[Len(s)].at <= e.at)
  <2>1. Len(Append(s, e)) = Len(s) + 1 /\ Append(s, e)[Len(s) + 1] = e
    BY AppendProperties
  <2>2. ToSet(Append(s, e)) = ToSet(s) \cup {e}
    BY ToSetOfAppend
  <2>3. s # <<>> => s[Len(s)].at <= e.at
    BY InOrderOfAppend
  <2> QED BY <2>1, <2>2, <2>3
<1>2. \A x \in ToSet(s) : x \in R
  BY ElementOfSeq, LenProperties DEF ToSet
<1>3. ASSUME NEW x \in ToSet(s) PROVE x.at <= e.at
  <2>1. s # <<>>
    BY <1>3, EmptySeq DEF ToSet
  <2>2. Len(s) \in 1..Len(s) /\ DOMAIN s = 1..Len(s)
    BY <2>1, EmptySeq, LenProperties
  <2>3. s[Len(s)] \in R
    BY <2>2, ElementOfSeq
  <2>4. x.at <= s[Len(s)].at /\ s[Len(s)].at <= e.at
    BY <1>1, <1>3, <2>1 DEF Latest
  <2>5. x.at \in Nat /\ s[Len(s)].at \in Nat /\ e.at \in Nat
    BY <1>2, <2>3
  <2> QED BY <2>4, <2>5
<1>4. e.at <= e.at
  <2>1. e.at \in Nat
    OBVIOUS
  <2> QED BY <2>1
<1> QED BY <1>1, <1>3, <1>4 DEF Latest

LEMMA InOrderThose ==
  ASSUME NEW R, NEW K, \A x \in R : x.at \in Nat
  PROVE  \A s \in Seq(R) : InOrder(s) => InOrder(Those(s, K))
<1> DEFINE T == {s \in Seq(R) : InOrder(s) => InOrder(Those(s, K)) /\ Latest(s)}
<1>1. <<>> \in T
  <2>1. InOrder(<<>>) => InOrder(Those(<<>>, K))
    BY ThoseOfNone
  <2> QED BY <2>1, EmptySeq DEF Latest
<1>2. ASSUME NEW s \in T, NEW e \in R PROVE Append(s, e) \in T
  <2>1. s \in Seq(R) /\ Append(s, e) \in Seq(R) /\ (InOrder(s) => InOrder(Those(s, K)) /\ Latest(s))
    BY AppendProperties
  <2> HIDE DEF T
  <2>2. Those(s, K) \in Seq(R) /\ ToSet(Those(s, K)) = ToSet(s) \cap K
    BY <2>1, ThoseAreRows
  <2>3. Those(Append(s, e), K) = IF e \in K THEN Append(Those(s, K), e) ELSE Those(s, K)
    BY <2>1, ThoseOfAppend
  <2>4. SUFFICES ASSUME InOrder(Append(s, e))
                 PROVE  InOrder(Those(Append(s, e), K)) /\ Latest(Append(s, e))
    BY <2>1 DEF T
  <2>5. InOrder(s)
    BY <2>1, <2>4, InOrderOfAppend
  <2>6. Latest(Append(s, e)) /\ \A x \in ToSet(s) : x.at <= e.at
    BY <2>1, <2>4, <2>5, LatestOfAppend
  <2>7. Those(s, K) # <<>> => Those(s, K)[Len(Those(s, K))] \in ToSet(s)
    <3> DEFINE t == Those(s, K)
    <3> SUFFICES ASSUME t # <<>> PROVE t[Len(t)] \in ToSet(t)
      BY <2>2
    <3> HIDE DEF t
    <3>1. t \in Seq(R)
      BY <2>2 DEF t
    <3>2. Len(t) \in 1..Len(t) /\ DOMAIN t = 1..Len(t)
      BY <3>1, EmptySeq, LenProperties
    <3> QED BY <3>2 DEF ToSet
  <2>8. InOrder(Append(Those(s, K), e))
    BY <2>1, <2>2, <2>5, <2>6, <2>7, InOrderOfAppend
  <2> QED BY <2>1, <2>3, <2>5, <2>6, <2>8
<1>3. T = Seq(R)
  <2> HIDE DEF T
  <2>1. T \in SUBSET Seq(R)
    BY DEF T
  <2> QED BY <1>1, <1>2, <2>1, SequenceInduction
<1> QED BY <1>3

LEMMA InOrderMapped ==
  ASSUME NEW R, NEW s \in Seq(R), NEW N, InOrder(s), \A x \in ToSet(s) : N[x].at = x.at
  PROVE  InOrder(Mapped(s, N))
<1>1. Len(s) \in Nat /\ DOMAIN s = 1..Len(s)
  BY LenProperties
<1>2. \A i \in DOMAIN s : Mapped(s, N)[i].at = s[i].at
  BY DEF Mapped, ToSet
<1>3. Len(Mapped(s, N)) = Len(s)
  <2> DEFINE S == {N[r] : r \in R}
  <2>1. \A r \in R : N[r] \in S
    OBVIOUS
  <2> HIDE DEF S
  <2>2. Mapped(s, N) \in Seq(S) /\ Len(Mapped(s, N)) = Len(s)
    BY <2>1, MappedIsSeq
  <2> QED BY <2>2
<1>4. \A i \in 2..Len(s) : i \in DOMAIN s /\ i - 1 \in DOMAIN s
  BY <1>1
<1> QED BY <1>2, <1>3, <1>4 DEF InOrder

(*----------------------- the archive stays well formed --------------------*)
PostIsFilled(p) ==
  /\ p.at \in Nat /\ p.sys \in BOOLEAN /\ IsText(p.text)
  /\ "attachments" \in DOMAIN p.props => IsText(p.props["attachments"])
\* One file of posts: no message twice, in order of creation.
PostsWell(posts) ==
  Distinct(posts) /\ InOrder(posts) /\ \A p \in ToSet(posts) : PostIsFilled(p)
\* An account and its pseudonym never have a row each.
UsersWell(users) ==
  /\ Distinct(users)
  /\ \A r \in Requests : ~ (r.user \in Ids(users) /\ Pseudonym(r.user) \in Ids(users))
\* What no redaction rewrites, and what the manifest says of it.
RestWell(channels, emojis, m, cs) ==
  /\ IsManifest(m) /\ m.readable \in BOOLEAN
  /\ AreRows(channels) /\ ~ Repeats(channels) /\ (\A c \in ToSet(channels) : c.public)
  /\ AreRows(emojis) /\ (\A e \in ToSet(emojis) : IsEmoji(e))
  /\ cs \subseteq Ids(channels)
  /\ m.counts.channels = Cardinality(Ids(channels))
  /\ m.counts.emojis = Len(emojis)
  /\ m.joined = Len(m.joinedList)

\* What verify checks of each file by itself.
WellFormed(a) ==
  /\ \A c \in DOMAIN a.posts : PostsWell(a.posts[c])
  /\ UsersWell(a.users) /\ Distinct(a.files)
  /\ RestWell(a.channels, a.emojis, a.manifest, DOMAIN a.posts)

\* A row of users.ndjson that a pseudonymization wrote.
Renamed(u) == u.username = u.id /\ u.names = {} /\ \E r \in Requests : u.id = Pseudonym(r.user)

WellFormedInv ==
  /\ orig \in Sources
  /\ WellFormed(src)
  /\ \A u \in ToSet(src.users) : u \in ToSet(orig.users) \/ Renamed(u)

\* What a redaction makes of a post, and of the rows.
PostBecomes(p, g, q) ==
  /\ ~ (p.user = q.user /\ q.mode = "remove")
  /\ g.user = IF p.user = q.user THEN Pseudonym(q.user) ELSE p.user
  /\ g.files = p.files /\ g.id = p.id /\ g.at = p.at /\ (PostIsFilled(p) => PostIsFilled(g))

LEMMA PostsStayWell ==
  ASSUME NEW posts, ArePosts(posts), PostsWell(posts), NEW q
  PROVE  /\ PostsWell(RedactPosts(posts, q))
         /\ \A g \in ToSet(RedactPosts(posts, q)) : \E p \in ToSet(posts) : PostBecomes(p, g, q)
<1> DEFINE K == PostsKept(posts, q)
           N == PostNew(posts, q)
           R == ToSet(posts)
           kept == Those(posts, K)
           new == RedactPosts(posts, q)
<1>1. posts \in Seq(R) /\ AreRows(posts)
  BY DEF ArePosts, AreRows
<1>2. new = Mapped(kept, N)
  BY <1>1, RedactedPosts
<1>3. K \subseteq R
  BY DEF PostsKept
<1>4. \A p \in R : N[p] = [p EXCEPT !.reactors = @ \ {q.user},
                         !.user = IF @ = q.user THEN Pseudonym(q.user) ELSE @]
  BY DEF PostNew
<1>5. \A p \in K : ~ (p.user = q.user /\ q.mode = "remove")
  BY DEF PostsKept
<1> HIDE DEF K, N, new
<1>6. ASSUME NEW p \in K PROVE PostBecomes(p, N[p], q)
  <2>1. IsPost(p) /\ p \in R
    BY <1>3 DEF ArePosts
  <2>2. N[p] = [id |-> p.id, at |-> p.at,
                user |-> IF p.user = q.user THEN Pseudonym(q.user) ELSE p.user,
                reactors |-> p.reactors \ {q.user}, files |-> p.files, sys |-> p.sys,
                text |-> p.text, props |-> p.props]
    BY <1>4, <2>1 DEF IsPost
  <2>3. ~ (p.user = q.user /\ q.mode = "remove")
    BY <1>5
  <2> QED BY <2>2, <2>3 DEF PostBecomes, PostIsFilled
<1>7. AreRows(new) /\ ToSet(new) = {N[p] : p \in K}
  BY <1>1, <1>2, <1>3, RewriteIsMapped
<1>8. kept \in Seq(R) /\ ToSet(kept) = K
  <2>1. kept \in Seq(R)
    BY <1>1, ThoseAreRows
  <2>2. ToSet(kept) = ToSet(posts) \cap K
    BY <1>1, ThoseAreRows
  <2> QED BY <1>3, <2>1, <2>2
<1>9. Distinct(kept)
  BY <1>1, DistinctThose DEF PostsWell
<1>10. InOrder(kept)
  <2>1. \A x \in R : x.at \in Nat
    BY DEF PostsWell, PostIsFilled
  <2> QED BY <1>1, <2>1, InOrderThose DEF PostsWell
<1> HIDE DEF kept, R
<1>11. Distinct(Mapped(kept, N))
  <2>1. \A x, y \in ToSet(kept) : N[x].id = N[y].id => x.id = y.id
    BY <1>6, <1>8 DEF PostBecomes
  <2> QED BY <1>8, <1>9, <2>1, DistinctMapped
<1>12. InOrder(Mapped(kept, N))
  <2>1. \A x \in ToSet(kept) : N[x].at = x.at
    BY <1>6, <1>8 DEF PostBecomes
  <2> QED BY <1>8, <1>10, <2>1, InOrderMapped
<1>13. \A g \in ToSet(new) : \E p \in R : PostBecomes(p, g, q)
  BY <1>3, <1>6, <1>7
<1>14. \A g \in ToSet(new) : PostIsFilled(g)
  BY <1>13 DEF PostBecomes, PostsWell, R
<1> QED BY <1>2, <1>11, <1>12, <1>13, <1>14 DEF PostsWell, new, R

\* Rows that are not the account's are kept; its own becomes its pseudonym's.
UserBecomes(u, v, q) ==
  IF u.id # q.user THEN v = u
  ELSE /\ q.mode # "remove" /\ v.id = Pseudonym(q.user)
       /\ v.username = v.id /\ v.names = {}

LEMMA UsersStayWell ==
  ASSUME PseudonymsAreNew, NEW users, AreUsers(users), UsersWell(users), NEW q \in Requests
  PROVE  /\ UsersWell(RedactUsers(users, q))
         /\ \A v \in ToSet(RedactUsers(users, q)) : \E u \in ToSet(users) : UserBecomes(u, v, q)
         /\ \A u \in ToSet(users) : ~ (u.id = q.user /\ q.mode = "remove") =>
              \E v \in ToSet(RedactUsers(users, q)) : UserBecomes(u, v, q)
<1> DEFINE K == UsersKept(users, q)
           N == UserNew(users, q)
           R == ToSet(users)
           kept == Those(users, K)
           new == RedactUsers(users, q)
<1>1. users \in Seq(R) /\ AreRows(users)
  BY DEF AreUsers, AreRows
<1>2. new = Mapped(kept, N)
  BY <1>1, RedactedUsers
<1>3. K \subseteq R
  BY DEF UsersKept
<1>4. \A u \in R : N[u] = IF u.id # q.user THEN u
                    ELSE [u EXCEPT !.id = Pseudonym(q.user), !.names = {},
                                   !.username = Pseudonym(q.user), !.avatar = FALSE]
  BY DEF UserNew
<1>5. \A u \in R : u \in K <=> ~ (u.id = q.user /\ q.mode = "remove")
  BY DEF UsersKept
<1> HIDE DEF K, N, new
<1>6. ASSUME NEW u \in K PROVE UserBecomes(u, N[u], q)
  <2>1. IsUser(u) /\ u \in R /\ ~ (u.id = q.user /\ q.mode = "remove")
    BY <1>3, <1>5 DEF AreUsers
  <2>2. CASE u.id # q.user
    BY <1>4, <2>1, <2>2 DEF UserBecomes
  <2>3. CASE u.id = q.user
    <3>1. N[u] = [id |-> Pseudonym(q.user), username |-> Pseudonym(q.user), names |-> {},
                  avatar |-> FALSE, email |-> u.email]
      BY <1>4, <2>1, <2>3 DEF IsUser
    <3> QED BY <2>1, <2>3, <3>1 DEF UserBecomes
  <2> QED BY <2>2, <2>3
<1>7. AreRows(new) /\ ToSet(new) = {N[u] : u \in K}
  BY <1>1, <1>2, <1>3, RewriteIsMapped
<1>8. kept \in Seq(R) /\ ToSet(kept) = K
  <2>1. kept \in Seq(R)
    BY <1>1, ThoseAreRows
  <2>2. ToSet(kept) = ToSet(users) \cap K
    BY <1>1, ThoseAreRows
  <2> QED BY <1>3, <2>1, <2>2
<1>9. Distinct(kept)
  BY <1>1, DistinctThose DEF UsersWell
<1>10. \A u \in K : N[u].id = IF u.id = q.user THEN Pseudonym(q.user) ELSE u.id
  BY <1>6 DEF UserBecomes
<1>11. Ids(users) = {u.id : u \in R}
  BY DEF Ids
<1> HIDE DEF kept, R
<1>12. Distinct(Mapped(kept, N))
  <2>1. \A x, y \in ToSet(kept) : N[x].id = N[y].id => x.id = y.id
    <3> SUFFICES ASSUME NEW x \in K, NEW y \in K, N[x].id = N[y].id PROVE x.id = y.id
      BY <1>8
    <3>1. x.id \in Ids(users) /\ y.id \in Ids(users)
      BY <1>3, <1>11
    <3>2. ~ (q.user \in Ids(users) /\ Pseudonym(q.user) \in Ids(users))
      BY DEF UsersWell
    <3> QED BY <1>10, <3>1, <3>2
  <2> QED BY <1>8, <1>9, <2>1, DistinctMapped
<1>13. Ids(new) = {N[u].id : u \in K}
  BY <1>7 DEF Ids
<1>14. ASSUME NEW r \in Requests, r.user \in Ids(new), Pseudonym(r.user) \in Ids(new) PROVE FALSE
  <2>1. Pseudonym(q.user) # r.user /\ (Pseudonym(q.user) = Pseudonym(r.user) => q.user = r.user)
        /\ Pseudonym(r.user) # q.user /\ Pseudonym(q.user) # q.user
    BY DEF PseudonymsAreNew
  <2>2. PICK u \in K : N[u].id = r.user
    BY <1>13, <1>14
  <2>3. PICK v \in K : N[v].id = Pseudonym(r.user)
    BY <1>13, <1>14
  <2>4. u.id # q.user /\ u.id = r.user
    BY <1>10, <2>1, <2>2
  <2>5. v.id = Pseudonym(r.user)
    BY <1>10, <2>1, <2>3, <2>4
  <2>6. r.user \in Ids(users) /\ Pseudonym(r.user) \in Ids(users)
    BY <1>3, <1>11, <2>4, <2>5
  <2> QED BY <2>6 DEF UsersWell
<1>15. \A v \in ToSet(new) : \E u \in R : UserBecomes(u, v, q)
  BY <1>3, <1>6, <1>7
<1>16. \A u \in R : ~ (u.id = q.user /\ q.mode = "remove") => \E v \in ToSet(new) : UserBecomes(u, v, q)
  BY <1>5, <1>6, <1>7
<1>17. UsersWell(new)
  BY <1>2, <1>12, <1>14 DEF UsersWell
<1> QED BY <1>15, <1>16, <1>17 DEF new, R

FileBecomes(f, g, q) ==
  /\ ~ (f.user = q.user /\ q.mode = "remove")
  /\ g.user = IF f.user = q.user THEN Pseudonym(q.user) ELSE f.user
  /\ g.id = f.id

LEMMA FilesStayWell ==
  ASSUME NEW files, AreFiles(files), Distinct(files), NEW q
  PROVE  /\ Distinct(RedactFiles(files, q))
         /\ \A f \in ToSet(files) : ~ (f.user = q.user /\ q.mode = "remove") =>
              \E g \in ToSet(RedactFiles(files, q)) : FileBecomes(f, g, q)
<1> DEFINE K == FilesKept(files, q)
           N == FileNew(files, q)
           R == ToSet(files)
           kept == Those(files, K)
           new == RedactFiles(files, q)
<1>1. files \in Seq(R) /\ AreRows(files)
  BY DEF AreFiles, AreRows
<1>2. new = Mapped(kept, N)
  BY <1>1, RedactedFiles
<1>3. K \subseteq R
  BY DEF FilesKept
<1>4. \A f \in R : N[f] = IF f.user # q.user THEN f ELSE [f EXCEPT !.user = Pseudonym(q.user)]
  BY DEF FileNew
<1>5. \A f \in R : f \in K <=> ~ (f.user = q.user /\ q.mode = "remove")
  BY DEF FilesKept
<1> HIDE DEF K, N, new
<1>6. ASSUME NEW f \in K PROVE FileBecomes(f, N[f], q)
  <2>1. IsFile(f) /\ f \in R /\ ~ (f.user = q.user /\ q.mode = "remove")
    BY <1>3, <1>5 DEF AreFiles
  <2>2. CASE f.user # q.user
    BY <1>4, <2>1, <2>2 DEF FileBecomes
  <2>3. CASE f.user = q.user
    <3>1. N[f] = [id |-> f.id, user |-> Pseudonym(q.user), path |-> f.path, name |-> f.name,
                  ext |-> f.ext]
      BY <1>4, <2>1, <2>3 DEF IsFile
    <3> QED BY <2>1, <2>3, <3>1 DEF FileBecomes
  <2> QED BY <2>2, <2>3
<1>7. ToSet(new) = {N[f] : f \in K}
  BY <1>1, <1>2, <1>3, RewriteIsMapped
<1>8. kept \in Seq(R) /\ ToSet(kept) = K
  <2>1. kept \in Seq(R)
    BY <1>1, ThoseAreRows
  <2>2. ToSet(kept) = ToSet(files) \cap K
    BY <1>1, ThoseAreRows
  <2> QED BY <1>3, <2>1, <2>2
<1>9. Distinct(kept)
  BY <1>1, DistinctThose
<1> HIDE DEF kept, R
<1>10. Distinct(Mapped(kept, N))
  <2>1. \A x, y \in ToSet(kept) : N[x].id = N[y].id => x.id = y.id
    BY <1>6, <1>8 DEF FileBecomes
  <2> QED BY <1>8, <1>9, <2>1, DistinctMapped
<1>11. \A f \in R : ~ (f.user = q.user /\ q.mode = "remove") => \E g \in ToSet(new) : FileBecomes(f, g, q)
  BY <1>5, <1>6, <1>7
<1> QED BY <1>2, <1>10, <1>11 DEF new, R

\* The parts no rewriting of rows touches.
SameRest(a, b) == b.channels = a.channels /\ b.emojis = a.emojis

LEMMA RestStays ==
  ASSUME Shape, NEW f,
         \/ OpenTemporary(f) \/ RenamePosts \/ RenameUsers \/ RenameFiles \/ EraseBlob(f)
         \/ EraseAvatar \/ RefreshManifest \/ EndRedact \/ StopRedact
  PROVE  /\ SameRest(src, src')
         /\ \/ src'.manifest = src.manifest
            \/ /\ RefreshManifest /\ src'.manifest = Refreshed(src) /\ src.manifest.readable
            \/ StopRedact /\ src'.manifest = [src.manifest EXCEPT !.readable = FALSE]
<1>1. src = [posts |-> src.posts, users |-> src.users, files |-> src.files, emojis |-> src.emojis,
             channels |-> src.channels, blobs |-> src.blobs, avatars |-> src.avatars,
             stray |-> src.stray, manifest |-> src.manifest]
  BY PartsOfArchive DEF Shape
<1>2. CASE OpenTemporary(f)
  <2>1. src' = [src EXCEPT !.stray = src.stray \cup {f}]
    BY <1>2 DEF OpenTemporary
  <2> QED BY <1>1, <2>1 DEF SameRest
<1>3. CASE RenamePosts
  <2>1. PICK c, new, stray : src' = [src EXCEPT !.posts[c] = new, !.stray = stray]
    BY <1>3 DEF RenamePosts
  <2> QED BY <1>1, <2>1 DEF SameRest
<1>4. CASE RenameUsers
  <2>1. PICK new, stray : src' = [src EXCEPT !.users = new, !.stray = stray]
    BY <1>4 DEF RenameUsers
  <2> QED BY <1>1, <2>1 DEF SameRest
<1>5. CASE RenameFiles
  <2>1. PICK new, stray : src' = [src EXCEPT !.files = new, !.stray = stray]
    BY <1>5 DEF RenameFiles
  <2> QED BY <1>1, <2>1 DEF SameRest
<1>6. CASE EraseBlob(f)
  <2>1. src' = [src EXCEPT !.blobs = src.blobs \ {f}]
    BY <1>6 DEF EraseBlob
  <2> QED BY <1>1, <2>1 DEF SameRest
<1>7. CASE EraseAvatar
  <2>1. PICK new : src' = [src EXCEPT !.avatars = new]
    BY <1>7 DEF EraseAvatar
  <2> QED BY <1>1, <2>1 DEF SameRest
<1>8. CASE RefreshManifest
  <2>1. CASE src.manifest.readable
    <3>1. src' = [src EXCEPT !.manifest = Refreshed(src)]
      BY <1>8, <2>1 DEF RefreshManifest
    <3> QED BY <1>1, <1>8, <2>1, <3>1 DEF SameRest
  <2>2. CASE ~ src.manifest.readable
    BY <1>8, <2>2 DEF RefreshManifest, SameRest
  <2> QED BY <2>1, <2>2
<1>9. CASE EndRedact
  BY <1>9 DEF EndRedact, SameRest
<1>10. CASE StopRedact
  <2>1. CASE UNCHANGED src
    BY <2>1 DEF SameRest
  <2>2. CASE src' = [src EXCEPT !.manifest.readable = FALSE]
    <3>1. src' = [src EXCEPT !.manifest = [src.manifest EXCEPT !.readable = FALSE]]
      BY <2>2
    <3> QED BY <1>1, <1>10, <3>1 DEF SameRest
  <2> QED BY <1>10, <2>1, <2>2 DEF StopRedact
<1> QED BY <1>2, <1>3, <1>4, <1>5, <1>6, <1>7, <1>8, <1>9, <1>10

LEMMA ManifestFields ==
  ASSUME NEW a, IsManifest(a.manifest)
  PROVE  LET m == Refreshed(a) IN
         /\ IsManifest(m) /\ m.readable = a.manifest.readable
         /\ m.counts = [channels |-> a.manifest.counts.channels, posts |-> PostLines(a),
                        users |-> Len(a.users), emojis |-> a.manifest.counts.emojis,
                        attachments |-> Len(WithBlob(a))]
         /\ m.range = (IF PostRange(a) = <<>> THEN a.manifest.range ELSE PostRange(a))
         /\ m.joined = a.manifest.joined /\ m.joinedList = a.manifest.joinedList
<1> DEFINE m == a.manifest
           range == IF PostRange(a) = <<>> THEN m.range ELSE PostRange(a)
           lines == PostLines(a)
           files == Len(WithBlob(a))
           n == Refreshed(a)
<1>1. n = [m EXCEPT !.counts.posts = lines, !.counts.users = Len(a.users),
                    !.counts.attachments = files, !.range = range]
  BY DEF Refreshed
<1>2. /\ m = [readable |-> m.readable, counts |-> m.counts, range |-> m.range, joined |-> m.joined,
              joinedList |-> m.joinedList, operator |-> m.operator, url |-> m.url]
      /\ m.counts = [channels |-> m.counts.channels, posts |-> m.counts.posts,
                   users |-> m.counts.users, emojis |-> m.counts.emojis,
                   attachments |-> m.counts.attachments]
  BY DEF IsManifest
<1> HIDE DEF m, range, lines, files, n
<1>3. n = [readable |-> m.readable,
           counts |-> [channels |-> m.counts.channels, posts |-> lines, users |-> Len(a.users),
                       emojis |-> m.counts.emojis, attachments |-> files],
           range |-> range, joined |-> m.joined, joinedList |-> m.joinedList,
           operator |-> m.operator, url |-> m.url]
  BY <1>1, <1>2
<1>4. IsManifest(n)
  BY <1>3 DEF IsManifest
<1> QED BY <1>3, <1>4 DEF m, n, range, lines, files

LEMMA RestStaysWell ==
  ASSUME Shape, WellFormed(src), NEW f,
         \/ OpenTemporary(f) \/ RenamePosts \/ RenameUsers \/ RenameFiles \/ EraseBlob(f)
         \/ EraseAvatar \/ RefreshManifest \/ EndRedact \/ StopRedact
  PROVE  RestWell(src'.channels, src'.emojis, src'.manifest, DOMAIN src.posts)
<1> DEFINE m == src.manifest
<1>1. RestWell(src.channels, src.emojis, m, DOMAIN src.posts)
  BY DEF WellFormed
<1>2. IsManifest(m)
  BY <1>1 DEF RestWell
<1>3. SameRest(src, src')
  BY RestStays
<1>4. CASE src'.manifest = m
  BY <1>1, <1>3, <1>4 DEF SameRest
<1>5. CASE src'.manifest = Refreshed(src)
  <2> DEFINE a == src
             n == Refreshed(a)
             lines == PostLines(a)
             files == Len(WithBlob(a))
  <2>1. /\ IsManifest(n) /\ n.readable = a.manifest.readable
        /\ n.counts = [channels |-> a.manifest.counts.channels, posts |-> lines,
                        users |-> Len(a.users), emojis |-> a.manifest.counts.emojis,
                        attachments |-> files]
        /\ n.joined = a.manifest.joined /\ n.joinedList = a.manifest.joinedList
    <3> HIDE DEF a
    <3>1. IsManifest(a.manifest)
      BY <1>2 DEF a
    <3> QED BY <3>1, ManifestFields
  <2> HIDE DEF n, lines, files
  <2>2. n.counts.channels = m.counts.channels /\ n.counts.emojis = m.counts.emojis
    BY <2>1
  <2> QED BY <1>1, <1>3, <1>5, <2>1, <2>2 DEF SameRest, RestWell, n
<1>6. CASE src'.manifest = [m EXCEPT !.readable = FALSE]
  <2> DEFINE n == src'.manifest
  <2>1. m = [readable |-> m.readable, counts |-> m.counts, range |-> m.range, joined |-> m.joined,
              joinedList |-> m.joinedList, operator |-> m.operator, url |-> m.url]
    BY <1>2 DEF IsManifest
  <2>2. n = [readable |-> FALSE, counts |-> m.counts, range |-> m.range, joined |-> m.joined,
             joinedList |-> m.joinedList, operator |-> m.operator, url |-> m.url]
    BY <1>6, <2>1
  <2>3. IsManifest(n)
    BY <1>2, <2>2 DEF IsManifest
  <2> QED BY <1>1, <1>3, <2>2, <2>3 DEF SameRest, RestWell
<1>7. \/ src'.manifest = src.manifest
      \/ src'.manifest = Refreshed(src)
      \/ src'.manifest = [src.manifest EXCEPT !.readable = FALSE]
  BY RestStays
<1> QED BY <1>4, <1>5, <1>6, <1>7

LEMMA WellFormedStay ==
  ASSUME WellFormedInv, src' = src, orig' = orig PROVE WellFormedInv'
  BY DEF WellFormedInv, WellFormed

\* A step that leaves every row where it is.
LEMMA WellFormedRows ==
  ASSUME Shape, WellFormedInv, NEW f, SameBut(src, src', {"blobs", "avatars"}),
         \/ OpenTemporary(f) \/ EraseBlob(f) \/ EraseAvatar
         \/ RefreshManifest \/ EndRedact \/ StopRedact
  PROVE  WellFormedInv'
<1>1. src'.posts = src.posts /\ src'.users = src.users /\ src'.files = src.files
  BY DEF SameBut
<1>2. orig' = orig
  BY HistoryStays
<1>3. RestWell(src'.channels, src'.emojis, src'.manifest, DOMAIN src.posts)
  BY RestStaysWell DEF WellFormedInv
<1> QED BY <1>1, <1>2, <1>3 DEF WellFormedInv, WellFormed

LEMMA WellFormedKept ==
  ASSUME PseudonymsAreNew, RedactInv, WellFormedInv, [Next]_vars PROVE WellFormedInv'
<1>0. /\ Shape /\ WellFormed(src) /\ IsArchive(src) /\ (rd.pc # "idle" => rd.request \in Requests)
      /\ AreUsers(src.users) /\ AreFiles(src.files)
      /\ \A c \in DOMAIN src.posts : ArePosts(src.posts[c]) /\ PostsWell(src.posts[c])
  <2>1. IsArchive(src) /\ Shape /\ (rd.pc # "idle" => rd.request \in Requests)
    BY DEF RedactInv, Shape
  <2> QED BY <2>1, PartsOfArchive DEF WellFormedInv, WellFormed
<1>1. ASSUME NEW q \in Requests, StartRedact(q) PROVE WellFormedInv'
  BY <1>1, WellFormedStay DEF StartRedact
<1>2. ASSUME NEW f \in NextFiles, OpenTemporary(f) PROVE WellFormedInv'
  <2>1. SameBut(src, src', {})
    BY <1>2, OpenStep
  <2>2. SameBut(src, src', {"blobs", "avatars"})
    BY <2>1 DEF SameBut
  <2> QED BY <1>0, <1>2, <2>2, WellFormedRows
<1>3. CASE RenamePosts
  <2>1. /\ SameBut(src, src', {"posts"}) /\ DOMAIN src'.posts = DOMAIN src.posts
        /\ \E c \in DOMAIN src.posts : \A d \in DOMAIN src.posts :
             src'.posts[d] = IF d = c THEN RedactPosts(src.posts[c], rd.request) ELSE src.posts[d]
        /\ rd.pc = "posts"
    BY <1>3, RenamePostsStep
  <2>2. PICK c \in DOMAIN src.posts : \A d \in DOMAIN src.posts :
             src'.posts[d] = IF d = c THEN RedactPosts(src.posts[c], rd.request) ELSE src.posts[d]
    BY <2>1
  <2>3. PostsWell(RedactPosts(src.posts[c], rd.request))
    <3> DEFINE posts == src.posts[c]
    <3>1. ArePosts(posts) /\ PostsWell(posts)
      BY <1>0
    <3> HIDE DEF posts
    <3>2. PostsWell(RedactPosts(posts, rd.request))
      BY <3>1, PostsStayWell
    <3> QED BY <3>2 DEF posts
  <2>4. \A d \in DOMAIN src'.posts : PostsWell(src'.posts[d])
    BY <1>0, <2>1, <2>2, <2>3
  <2>5. RestWell(src'.channels, src'.emojis, src'.manifest, DOMAIN src'.posts)
    BY <1>0, <1>3, <2>1, RestStaysWell
  <2>6. src'.users = src.users /\ src'.files = src.files /\ orig' = orig
    BY <1>3, <2>1, HistoryStays DEF SameBut
  <2> QED BY <2>4, <2>5, <2>6 DEF WellFormedInv, WellFormed
<1>4. CASE RenameUsers
  <2> DEFINE users == src.users
             q == rd.request
             new == RedactUsers(users, q)
  <2>1. SameBut(src, src', {"users"}) /\ src'.users = new /\ rd.pc = "users"
    BY <1>4, RenameUsersStep
  <2>2. AreUsers(users) /\ UsersWell(users) /\ q \in Requests
    BY <1>0, <2>1 DEF WellFormed
  <2>3. /\ UsersWell(new)
        /\ \A v \in ToSet(new) : \E u \in ToSet(users) : UserBecomes(u, v, q)
    <3> HIDE DEF users, q
    <3> QED BY <2>2, UsersStayWell
  <2>4. RestWell(src'.channels, src'.emojis, src'.manifest, DOMAIN src.posts)
    BY <1>0, <1>4, RestStaysWell
  <2>5. src'.posts = src.posts /\ src'.files = src.files /\ orig' = orig
    BY <1>4, <2>1, HistoryStays DEF SameBut
  <2> HIDE DEF new
  <2>6. ASSUME NEW v \in ToSet(new) PROVE v \in ToSet(orig.users) \/ Renamed(v)
    <3>1. PICK u \in ToSet(users) : UserBecomes(u, v, q)
      BY <2>3
    <3>2. CASE u.id # q.user
      BY <3>1, <3>2 DEF UserBecomes, WellFormedInv
    <3>3. CASE u.id = q.user
      BY <2>2, <3>1, <3>3 DEF UserBecomes, Renamed
    <3> QED BY <3>2, <3>3
  <2> QED BY <1>0, <2>1, <2>3, <2>4, <2>5, <2>6 DEF WellFormedInv, WellFormed
<1>5. CASE RenameFiles
  <2> DEFINE files == src.files
             q == rd.request
             new == RedactFiles(files, q)
  <2>1. SameBut(src, src', {"files"}) /\ src'.files = new
    BY <1>5, RenameFilesStep
  <2>2. AreFiles(files) /\ Distinct(files)
    BY <1>0 DEF WellFormed
  <2>3. Distinct(new)
    <3> HIDE DEF files, q
    <3> QED BY <2>2, FilesStayWell
  <2>4. RestWell(src'.channels, src'.emojis, src'.manifest, DOMAIN src.posts)
    BY <1>0, <1>5, RestStaysWell
  <2>5. src'.posts = src.posts /\ src'.users = src.users /\ orig' = orig
    BY <1>5, <2>1, HistoryStays DEF SameBut
  <2> HIDE DEF new
  <2> QED BY <1>0, <2>1, <2>3, <2>4, <2>5 DEF WellFormedInv, WellFormed
<1>6. ASSUME NEW f \in rd.doomed, EraseBlob(f) PROVE WellFormedInv'
  <2>1. SameBut(src, src', {"blobs"})
    BY <1>6, EraseBlobStep
  <2>2. SameBut(src, src', {"blobs", "avatars"})
    BY <2>1 DEF SameBut
  <2> QED BY <1>0, <1>6, <2>2, WellFormedRows
<1>7. CASE EraseAvatar
  <2>1. SameBut(src, src', {"avatars"})
    BY <1>7, EraseAvatarStep
  <2>2. SameBut(src, src', {"blobs", "avatars"})
    BY <2>1 DEF SameBut
  <2> QED BY <1>0, <1>7, <2>2, WellFormedRows
<1>8. CASE RefreshManifest \/ EndRedact \/ StopRedact
  <2>1. SameBut(src, src', {})
    BY <1>8, EndsStep
  <2>2. SameBut(src, src', {"blobs", "avatars"})
    BY <2>1 DEF SameBut
  <2> QED BY <1>0, <1>8, <2>2, WellFormedRows
<1>9. CASE AnonNext
  BY <1>9, AnonLeaves, WellFormedStay
<1>10. CASE UNCHANGED vars
  BY <1>10, WellFormedStay DEF vars
<1> QED BY <1>1, <1>2, <1>3, <1>4, <1>5, <1>6, <1>7, <1>8, <1>9, <1>10 DEF Next, RedactNext

(*---------------------- what posts say of other files ---------------------*)
\* A redaction under way is one that was begun and has not completed since.
UnderWay == unfinished \subseteq begun /\ (rd.pc \notin {"idle", "done"} => rd.request \in unfinished)

\* A post has a pseudonym for author only where somebody asked for it.
PseudonymsAsked == \A p \in PostsOf(src) : \A q \in Requests :
  p.user = Pseudonym(q.user) => \E r \in begun : r.mode # "remove" /\ r.user = q.user

\* A pseudonymization cut before users.ndjson: the row is still the account's.
Waits(u) == \E r \in unfinished :
  r.mode # "remove" /\ u = Pseudonym(r.user) /\ r.user \in Ids(src.users)
AuthorsInv == \A p \in PostsOf(src) : p.user = "" \/ p.user \in Ids(src.users) \/ Waits(p.user)

SameAccount(x, y) ==
  x = y \/ \E r \in Requests : x \in {r.user, Pseudonym(r.user)} /\ y \in {r.user, Pseudonym(r.user)}
CitedInv == \A p \in PostsOf(src) : \A x \in p.files :
  \E f \in ToSet(src.files) : f.id = x /\ SameAccount(f.user, p.user)

ReferencesInv == UnderWay /\ PseudonymsAsked /\ (~ BothModes => AuthorsInv /\ CitedInv)

LEMMA AnonLeavesRequests == AnonNext => unfinished' = unfinished
<1> SUFFICES ASSUME AnonNext PROVE unfinished' = unfinished
  OBVIOUS
<1>1. ASSUME NEW niveau \in Levels, NEW force \in BOOLEAN, NEW call \in Calls,
             StartAnonymize(niveau, force, call)
      PROVE  unfinished' = unfinished
  BY <1>1 DEF StartAnonymize, redactVars
<1>2. CASE RemoveMark \/ RemoveOthers
  BY <1>2 DEF RemoveMark, RemoveOthers, redactVars
<1>3. ASSUME NEW order \in Orders(Ids(src.users)), BeginPass(order) PROVE unfinished' = unfinished
  BY <1>3 DEF BeginPass, redactVars
<1>4. ASSUME NEW f \in NextOut, WriteOut(f) PROVE unfinished' = unfinished
  BY <1>4 DEF WriteOut, redactVars
<1>5. CASE StopAnonymize
  BY <1>5 DEF StopAnonymize
<1>6. CASE Control \/ EndAnonymize
  BY <1>6 DEF Control, EndAnonymize, redactVars
<1> QED BY <1>1, <1>2, <1>3, <1>4, <1>5, <1>6 DEF AnonNext

\* What a step does to the requests under way.
LEMMA RequestsStep ==
  ASSUME RedactInv, UnderWay, [Next]_vars
  PROVE  /\ UnderWay' /\ begun \subseteq begun'
         /\ \/ unfinished \subseteq unfinished'
            \/ RefreshManifest /\ unfinished' = unfinished \ {rd.request}
<1>0. /\ rd = [pc |-> rd.pc, request |-> rd.request, left |-> rd.left, temp |-> rd.temp,
               doomed |-> rd.doomed]
      /\ rd.pc # "idle" => rd.request \in begun
  BY DEF RedactInv, Shape
<1>1. ASSUME NEW q \in Requests, StartRedact(q)
      PROVE  UnderWay' /\ begun \subseteq begun' /\ unfinished \subseteq unfinished'
  <2>1. rd'.request = q /\ begun' = begun \cup {q} /\ unfinished' = unfinished \cup {q}
    BY <1>1 DEF StartRedact, Idle
  <2> QED BY <2>1 DEF UnderWay
<1>2. ASSUME NEW f, OpenTemporary(f) \/ EraseBlob(f)
      PROVE  UnderWay' /\ begun \subseteq begun' /\ unfinished \subseteq unfinished'
  <2>1. begun' = begun /\ unfinished' = unfinished /\ rd'.pc = rd.pc /\ rd'.request = rd.request
    BY <1>0, <1>2 DEF OpenTemporary, EraseBlob
  <2> QED BY <2>1 DEF UnderWay
<1>3. CASE RenamePosts
  <2>1. rd.pc = "posts" /\ \E left, pc : rd' = [rd EXCEPT !.temp = <<>>, !.left = left, !.pc = pc]
    BY <1>3 DEF RenamePosts
  <2>2. begun' = begun /\ unfinished' = unfinished /\ rd'.request = rd.request
    BY <1>0, <1>3, <2>1 DEF RenamePosts
  <2> QED BY <2>1, <2>2 DEF UnderWay
<1>4. CASE RenameUsers
  <2>1. begun' = begun /\ unfinished' = unfinished /\ rd'.request = rd.request /\ rd.pc = "users"
    BY <1>0, <1>4 DEF RenameUsers
  <2> QED BY <2>1 DEF UnderWay
<1>5. CASE RenameFiles
  <2>1. rd.pc = "files" /\ \E doomed : rd' = [rd EXCEPT !.temp = <<>>, !.pc = "blobs", !.doomed = doomed]
    BY <1>5 DEF RenameFiles
  <2>2. begun' = begun /\ unfinished' = unfinished /\ rd'.request = rd.request
    BY <1>0, <1>5, <2>1 DEF RenameFiles
  <2> QED BY <2>1, <2>2 DEF UnderWay
<1>7. CASE EraseAvatar
  <2>1. begun' = begun /\ unfinished' = unfinished /\ rd'.request = rd.request /\ rd.pc = "blobs"
    BY <1>0, <1>7 DEF EraseAvatar
  <2> QED BY <2>1 DEF UnderWay
<1>8. CASE RefreshManifest
  <2>1. begun' = begun /\ unfinished' = unfinished \ {rd.request} /\ rd'.pc = "done"
    BY <1>0, <1>8 DEF RefreshManifest
  <2> QED BY <1>8, <2>1 DEF UnderWay
<1>9. CASE EndRedact \/ StopRedact
  <2>1. begun' = begun /\ unfinished' = unfinished /\ rd'.pc = "idle"
    BY <1>9 DEF EndRedact, StopRedact, Idle
  <2> QED BY <2>1 DEF UnderWay
<1>10. CASE AnonNext
  BY <1>10, AnonLeaves, AnonLeavesRequests DEF UnderWay
<1>11. CASE UNCHANGED vars
  BY <1>11 DEF UnderWay, vars
<1> QED BY <1>1, <1>2, <1>3, <1>4, <1>5, <1>7, <1>8, <1>9, <1>10, <1>11 DEF Next, RedactNext

\* The posts after posts/<c>.ndjson is replaced: as they were, or rewritten.
LEMMA RenamedPosts ==
  ASSUME RedactInv, WellFormed(src), RenamePosts
  PROVE  \A g \in PostsOf(src') : \E p \in PostsOf(src) : g = p \/ PostBecomes(p, g, rd.request)
<1> DEFINE q == rd.request
<1>1. /\ DOMAIN src'.posts = DOMAIN src.posts
      /\ \E c \in DOMAIN src.posts : \A d \in DOMAIN src.posts :
             src'.posts[d] = IF d = c THEN RedactPosts(src.posts[c], q) ELSE src.posts[d]
  BY RenamePostsStep
<1>2. PICK c \in DOMAIN src.posts : \A d \in DOMAIN src.posts :
             src'.posts[d] = IF d = c THEN RedactPosts(src.posts[c], q) ELSE src.posts[d]
  BY <1>1
<1> DEFINE posts == src.posts[c]
           new == RedactPosts(posts, q)
<1>3. ArePosts(posts) /\ PostsWell(posts)
  <2>1. IsArchive(src)
    BY DEF RedactInv, Shape
  <2> QED BY <2>1, PartsOfArchive DEF WellFormed
<1> HIDE DEF q
<1>4. \A g \in ToSet(new) : \E p \in ToSet(posts) : PostBecomes(p, g, q)
  <2> HIDE DEF posts
  <2> QED BY <1>3, PostsStayWell
<1> HIDE DEF new
<1>5. TAKE g \in PostsOf(src')
<1>6. PICK d \in DOMAIN src.posts : g \in ToSet(src'.posts[d])
  BY <1>1 DEF PostsOf
<1>7. CASE d = c
  <2>1. g \in ToSet(new)
    BY <1>2, <1>6, <1>7 DEF new
  <2>2. PICK p \in ToSet(posts) : PostBecomes(p, g, q)
    BY <1>4, <2>1
  <2> QED BY <2>2 DEF PostsOf, q
<1>8. CASE d # c
  <2>1. g \in ToSet(src.posts[d])
    BY <1>2, <1>6, <1>8
  <2> QED BY <2>1 DEF PostsOf
<1> QED BY <1>7, <1>8

\* Where the rows stay and no request completes, references hold as they did.
LEMMA ReferencesStay ==
  ASSUME ReferencesInv, UnderWay', begun \subseteq begun', unfinished \subseteq unfinished',
         src'.posts = src.posts, src'.users = src.users, src'.files = src.files
  PROVE  ReferencesInv'
<1>1. PostsOf(src') = PostsOf(src)
  BY DEF PostsOf
<1>2. ~ BothModes' => ~ BothModes
  BY DEF BothModes
<1>3. PseudonymsAsked'
  BY <1>1 DEF ReferencesInv, PseudonymsAsked
<1>4. AuthorsInv => AuthorsInv'
  BY <1>1 DEF AuthorsInv, Waits
<1>5. CitedInv => CitedInv'
  BY <1>1 DEF CitedInv
<1> QED BY <1>2, <1>3, <1>4, <1>5 DEF ReferencesInv

LEMMA ReferencesOfPosts ==
  ASSUME PseudonymsAreNew, RedactInv, WellFormedInv, ReferencesInv, UnderWay',
         begun \subseteq begun', unfinished \subseteq unfinished', RenamePosts
  PROVE  ReferencesInv'
<1> DEFINE q == rd.request
<1>1. /\ q \in Requests /\ q \in unfinished /\ q \in begun /\ Pseudonym(q.user) # q.user
      /\ q.user # "" /\ \A r \in Requests : Pseudonym(r.user) # q.user
      /\ \A r \in Requests : Pseudonym(q.user) = Pseudonym(r.user) => q.user = r.user
  <2>1. rd.pc = "posts"
    BY DEF RenamePosts
  <2>2. rd.request \in begun /\ rd.request \in Requests /\ Pseudonym(rd.request.user) # rd.request.user
    BY <2>1, RequestKnown DEF RedactInv
  <2>3. rd.request \in unfinished
    BY <2>1 DEF ReferencesInv, UnderWay
  <2> QED BY <2>2, <2>3 DEF PseudonymsAreNew
<1>2. src'.users = src.users /\ src'.files = src.files
  BY RenamePostsStep DEF SameBut
<1>3. \A g \in PostsOf(src') : \E p \in PostsOf(src) : g = p \/ PostBecomes(p, g, q)
  BY RenamedPosts DEF WellFormedInv
<1> HIDE DEF q
<1>4. PseudonymsAsked'
  <2> SUFFICES ASSUME NEW g \in PostsOf(src'), NEW t \in Requests, g.user = Pseudonym(t.user)
               PROVE  \E r \in begun : r.mode # "remove" /\ r.user = t.user
    BY DEF PseudonymsAsked
  <2>1. PICK p \in PostsOf(src) : g = p \/ PostBecomes(p, g, q)
    BY <1>3
  <2>2. CASE g.user = p.user
    BY <2>2 DEF ReferencesInv, PseudonymsAsked
  <2>3. CASE g.user # p.user
    BY <1>1, <2>1, <2>3 DEF PostBecomes
  <2> QED BY <2>2, <2>3
<1>5. ~ BothModes' => ~ BothModes
  BY DEF BothModes
<1>6. ASSUME AuthorsInv PROVE AuthorsInv'
  <2> SUFFICES ASSUME NEW g \in PostsOf(src')
               PROVE  g.user = "" \/ g.user \in Ids(src.users) \/ Waits(g.user)'
    BY <1>2 DEF AuthorsInv
  <2>1. PICK p \in PostsOf(src) : g = p \/ PostBecomes(p, g, q)
    BY <1>3
  <2>2. p.user = "" \/ p.user \in Ids(src.users) \/ Waits(p.user)
    BY <1>6 DEF AuthorsInv
  <2>3. CASE g.user = p.user
    <3>1. Waits(g.user) => Waits(g.user)'
      BY <1>2 DEF Waits
    <3> QED BY <2>2, <2>3, <3>1
  <2>4. CASE g.user # p.user
    <3>1. p.user = q.user /\ q.mode # "remove" /\ g.user = Pseudonym(q.user)
      BY <2>1, <2>4 DEF PostBecomes
    <3>2. ~ Waits(q.user)
      BY <1>1 DEF Waits, ReferencesInv, UnderWay, RedactInv, Shape
    <3>3. q.user \in Ids(src.users)
      BY <1>1, <2>2, <3>1, <3>2
    <3> QED BY <1>1, <1>2, <3>1, <3>3 DEF Waits
  <2> QED BY <2>3, <2>4
<1>7. ASSUME CitedInv PROVE CitedInv'
  <2> SUFFICES ASSUME NEW g \in PostsOf(src'), NEW x \in g.files
               PROVE  \E f \in ToSet(src.files) : f.id = x /\ SameAccount(f.user, g.user)
    BY <1>2 DEF CitedInv
  <2>1. PICK p \in PostsOf(src) : g = p \/ PostBecomes(p, g, q)
    BY <1>3
  <2>2. x \in p.files
    BY <2>1 DEF PostBecomes
  <2>3. PICK f \in ToSet(src.files) : f.id = x /\ SameAccount(f.user, p.user)
    BY <1>7, <2>2 DEF CitedInv
  <2>4. CASE g.user = p.user
    BY <2>3, <2>4
  <2>5. CASE g.user # p.user
    <3>1. p.user = q.user /\ g.user = Pseudonym(q.user)
      BY <2>1, <2>5 DEF PostBecomes
    <3>2. f.user \in {q.user, Pseudonym(q.user)}
      BY <1>1, <2>3, <3>1 DEF SameAccount
    <3> QED BY <1>1, <2>3, <3>1, <3>2 DEF SameAccount
  <2> QED BY <2>4, <2>5
<1> QED BY <1>4, <1>5, <1>6, <1>7 DEF ReferencesInv

LEMMA ReferencesOfUsers ==
  ASSUME PseudonymsAreNew, RedactInv, WellFormedInv, ReferencesInv, UnderWay',
         begun \subseteq begun', unfinished \subseteq unfinished', RenameUsers
  PROVE  ReferencesInv'
<1> DEFINE q == rd.request
           users == src.users
           new == RedactUsers(users, q)
<1>1. /\ q \in Requests /\ q \in begun /\ rd.pc = "users" /\ rd.left = {}
  <2>1. rd.pc = "users"
    BY DEF RenameUsers
  <2> QED BY <2>1, RequestKnown DEF RedactInv, Shape
<1>2. src'.users = new /\ src'.posts = src.posts /\ src'.files = src.files
  BY RenameUsersStep DEF SameBut
<1>3. \A p \in PostsOf(src) : p.user # q.user
  BY <1>1 DEF RedactInv, ErasedSoFar, NoPostOf, PostsOf
<1>4. AreUsers(users) /\ UsersWell(users)
  <2>1. IsArchive(src)
    BY DEF RedactInv, Shape
  <2> QED BY <2>1, PartsOfArchive DEF WellFormedInv, WellFormed
<1> HIDE DEF q, users
<1>5. \A u \in ToSet(users) : ~ (u.id = q.user /\ q.mode = "remove") =>
              \E v \in ToSet(new) : UserBecomes(u, v, q)
  BY <1>1, <1>4, UsersStayWell
<1> HIDE DEF new
<1>6. PostsOf(src') = PostsOf(src)
  BY <1>2 DEF PostsOf
<1>7. PseudonymsAsked'
  BY <1>6 DEF ReferencesInv, PseudonymsAsked
<1>8. CitedInv => CitedInv'
  BY <1>2, <1>6 DEF CitedInv
<1>9. ~ BothModes' => ~ BothModes
  BY DEF BothModes
<1>10. \A id \in Ids(users) : id # q.user => id \in Ids(new)
  <2> SUFFICES ASSUME NEW u \in ToSet(users), u.id # q.user PROVE u.id \in Ids(new)
    BY DEF Ids
  <2>1. PICK v \in ToSet(new) : UserBecomes(u, v, q)
    BY <1>5
  <2>2. v.id = u.id
    BY <2>1 DEF UserBecomes
  <2> QED BY <2>2 DEF Ids
<1>11. q.user \in Ids(users) /\ q.mode # "remove" => Pseudonym(q.user) \in Ids(new)
  <2> SUFFICES ASSUME NEW u \in ToSet(users), u.id = q.user, q.mode # "remove"
               PROVE  Pseudonym(q.user) \in Ids(new)
    BY DEF Ids
  <2>1. PICK v \in ToSet(new) : UserBecomes(u, v, q)
    BY <1>5
  <2>2. v.id = Pseudonym(q.user)
    BY <2>1 DEF UserBecomes
  <2> QED BY <2>2 DEF Ids
<1>12. ASSUME AuthorsInv, ~ BothModes PROVE AuthorsInv'
  <2> SUFFICES ASSUME NEW p \in PostsOf(src)
               PROVE  p.user = "" \/ p.user \in Ids(new) \/ Waits(p.user)'
    BY <1>2, <1>6 DEF AuthorsInv
  <2>1. p.user = "" \/ p.user \in Ids(users) \/ Waits(p.user)
    BY <1>12 DEF AuthorsInv, users
  <2>2. CASE p.user \in Ids(users)
    BY <1>3, <1>10, <2>2
  <2>3. CASE Waits(p.user)
    <3>1. PICK r \in unfinished : r.mode # "remove" /\ p.user = Pseudonym(r.user)
                                    /\ r.user \in Ids(users)
      BY <2>3 DEF Waits, users
    <3>2. r \in begun
      BY DEF ReferencesInv, UnderWay
    <3>3. CASE r.user = q.user
      <4>1. q.mode # "remove"
        BY <1>1, <1>12, <3>1, <3>2, <3>3 DEF BothModes
      <4> QED BY <1>11, <3>1, <3>3, <4>1
    <3>4. CASE r.user # q.user
      <4>1. r.user \in Ids(src'.users) /\ r \in unfinished'
        BY <1>2, <1>10, <3>1, <3>4
      <4> QED BY <3>1, <4>1 DEF Waits
    <3> QED BY <3>3, <3>4
  <2> QED BY <2>1, <2>2, <2>3
<1> QED BY <1>7, <1>8, <1>9, <1>12 DEF ReferencesInv

LEMMA ReferencesOfFiles ==
  ASSUME PseudonymsAreNew, RedactInv, WellFormedInv, ReferencesInv, UnderWay',
         begun \subseteq begun', unfinished \subseteq unfinished', RenameFiles
  PROVE  ReferencesInv'
<1> DEFINE q == rd.request
           files == src.files
           new == RedactFiles(files, q)
<1>1. /\ q \in Requests /\ q \in begun /\ rd.pc = "files" /\ rd.left = {}
      /\ \A r \in Requests : Pseudonym(r.user) # q.user
      /\ \A r \in Requests : Pseudonym(q.user) = Pseudonym(r.user) => q.user = r.user
  <2>1. rd.pc = "files"
    BY DEF RenameFiles
  <2>2. rd.request \in begun /\ rd.request \in Requests /\ rd.left = {}
    BY <2>1, RequestKnown DEF RedactInv, Shape
  <2> QED BY <2>1, <2>2 DEF PseudonymsAreNew
<1>2. src'.files = new /\ src'.posts = src.posts /\ src'.users = src.users
  BY RenameFilesStep DEF SameBut
<1>3. \A p \in PostsOf(src) : p.user # q.user
  BY <1>1 DEF RedactInv, ErasedSoFar, NoPostOf, PostsOf
<1>4. AreFiles(files) /\ Distinct(files)
  <2>1. IsArchive(src)
    BY DEF RedactInv, Shape
  <2> QED BY <2>1, PartsOfArchive DEF WellFormedInv, WellFormed
<1> HIDE DEF q, files
<1>5. \A f \in ToSet(files) : ~ (f.user = q.user /\ q.mode = "remove") =>
              \E g \in ToSet(new) : FileBecomes(f, g, q)
  BY <1>4, FilesStayWell
<1> HIDE DEF new
<1>6. PostsOf(src') = PostsOf(src)
  BY <1>2 DEF PostsOf
<1>7. PseudonymsAsked'
  BY <1>6 DEF ReferencesInv, PseudonymsAsked
<1>8. AuthorsInv => AuthorsInv'
  BY <1>2, <1>6 DEF AuthorsInv, Waits
<1>9. ~ BothModes' => ~ BothModes
  BY DEF BothModes
<1>10. ASSUME CitedInv, ~ BothModes PROVE CitedInv'
  <2> SUFFICES ASSUME NEW p \in PostsOf(src), NEW x \in p.files
               PROVE  \E g \in ToSet(new) : g.id = x /\ SameAccount(g.user, p.user)
    BY <1>2, <1>6 DEF CitedInv
  <2>1. PICK f \in ToSet(files) : f.id = x /\ SameAccount(f.user, p.user)
    BY <1>10 DEF CitedInv, files
  <2>2. f.user = q.user => p.user = Pseudonym(q.user)
    BY <1>1, <1>3, <2>1 DEF SameAccount
  <2>3. ~ (f.user = q.user /\ q.mode = "remove")
    <3> SUFFICES ASSUME f.user = q.user, q.mode = "remove" PROVE FALSE
      OBVIOUS
    <3>1. PICK r \in begun : r.mode # "remove" /\ r.user = q.user
      BY <1>1, <2>2 DEF ReferencesInv, PseudonymsAsked
    <3> QED BY <1>1, <1>10, <3>1 DEF BothModes
  <2>4. PICK g \in ToSet(new) : FileBecomes(f, g, q)
    BY <1>5, <2>3
  <2>5. g.id = x /\ g.user = IF f.user = q.user THEN Pseudonym(q.user) ELSE f.user
    BY <2>1, <2>4 DEF FileBecomes
  <2> QED BY <2>1, <2>2, <2>5 DEF SameAccount
<1> QED BY <1>7, <1>8, <1>9, <1>10 DEF ReferencesInv

LEMMA ReferencesKept ==
  ASSUME PseudonymsAreNew, RedactInv, WellFormedInv, ReferencesInv, [Next]_vars
  PROVE  ReferencesInv'
<1>0. /\ UnderWay' /\ begun \subseteq begun'
      /\ \/ unfinished \subseteq unfinished'
         \/ RefreshManifest /\ unfinished' = unfinished \ {rd.request}
  BY RequestsStep DEF ReferencesInv
<1>1. ASSUME unfinished \subseteq unfinished' PROVE ReferencesInv'
  <2>1. ASSUME NEW q \in Requests, StartRedact(q) PROVE ReferencesInv'
    BY <1>0, <1>1, <2>1, ReferencesStay DEF StartRedact
  <2>2. ASSUME NEW f \in NextFiles, OpenTemporary(f) PROVE ReferencesInv'
    BY <1>0, <1>1, <2>2, OpenStep, ReferencesStay DEF SameBut
  <2>3. CASE RenamePosts
    BY <1>0, <1>1, <2>3, ReferencesOfPosts
  <2>4. CASE RenameUsers
    BY <1>0, <1>1, <2>4, ReferencesOfUsers
  <2>5. CASE RenameFiles
    BY <1>0, <1>1, <2>5, ReferencesOfFiles
  <2>6. ASSUME NEW f \in rd.doomed, EraseBlob(f) PROVE ReferencesInv'
    BY <1>0, <1>1, <2>6, EraseBlobStep, ReferencesStay DEF SameBut
  <2>7. CASE EraseAvatar
    BY <1>0, <1>1, <2>7, EraseAvatarStep, ReferencesStay DEF SameBut
  <2>8. CASE RefreshManifest \/ EndRedact \/ StopRedact
    BY <1>0, <1>1, <2>8, EndsStep, ReferencesStay DEF SameBut
  <2>9. CASE AnonNext
    BY <1>0, <1>1, <2>9, AnonLeaves, ReferencesStay
  <2>10. CASE UNCHANGED vars
    BY <1>0, <1>1, <2>10, ReferencesStay DEF vars
  <2> QED BY <2>1, <2>2, <2>3, <2>4, <2>5, <2>6, <2>7, <2>8, <2>9, <2>10 DEF Next, RedactNext
\* A request completes: its account has no row left, nobody waits for it.
<1>2. ASSUME RefreshManifest, unfinished' = unfinished \ {rd.request} PROVE ReferencesInv'
  <2>1. src'.posts = src.posts /\ src'.users = src.users /\ src'.files = src.files
    BY <1>2, EndsStep DEF SameBut
  <2>2. rd.request.user \notin Ids(src.users)
    BY <1>2 DEF RefreshManifest, RedactInv, ErasedSoFar, NoRowOf, Ids
  <2>3. PostsOf(src') = PostsOf(src)
    BY <2>1 DEF PostsOf
  <2>4. ~ BothModes' => ~ BothModes
    BY <1>0 DEF BothModes
  <2>5. PseudonymsAsked'
    BY <1>0, <2>3 DEF ReferencesInv, PseudonymsAsked
  <2>6. CitedInv => CitedInv'
    BY <2>1, <2>3 DEF CitedInv
  <2>7. ASSUME AuthorsInv PROVE AuthorsInv'
    <3>1. \A u : Waits(u) => Waits(u)'
      BY <1>2, <2>1, <2>2 DEF Waits
    <3> QED BY <2>1, <2>3, <2>7, <3>1 DEF AuthorsInv
  <2> QED BY <1>0, <2>4, <2>5, <2>6, <2>7 DEF ReferencesInv
<1> QED BY <1>0, <1>1, <1>2

\* After the manifest is written again, it says what the rows say.
ManifestInv == rd.pc = "done" /\ src.manifest.readable => ManifestErrors(src) = {}

LEMMA RefreshedSays ==
  ASSUME NEW a, AreUsers(a.users), WellFormed(a), NEW b,
         b.posts = a.posts, b.users = a.users, b.files = a.files, SameRest(a, b),
         b.manifest = Refreshed(a)
  PROVE  ManifestErrors(b) = {}
<1> DEFINE m == Refreshed(a)
           lines == PostLines(a)
           files == Len(WithBlob(a))
           range == PostRange(a)
<1>1. /\ m.counts = [channels |-> a.manifest.counts.channels, posts |-> lines,
                     users |-> Len(a.users), emojis |-> a.manifest.counts.emojis,
                     attachments |-> files]
      /\ m.range = (IF range = <<>> THEN a.manifest.range ELSE range)
      /\ m.joined = a.manifest.joined /\ m.joinedList = a.manifest.joinedList
  <2>1. IsManifest(a.manifest)
    BY DEF WellFormed, RestWell
  <2> QED BY <2>1, ManifestFields
<1>2. PostsOf(b) = PostsOf(a) /\ PostLines(b) = lines /\ WithBlob(b) = WithBlob(a)
  BY DEF PostsOf, PostLines, WithBlob
<1>3. PostRange(b) = range
  BY <1>2 DEF PostRange, Created
<1>4. Cardinality(Ids(a.users)) = Len(a.users)
  BY DistinctRows DEF AreUsers, WellFormed, UsersWell, Repeats
<1>5. /\ b.channels = a.channels /\ b.emojis = a.emojis
      /\ a.manifest.counts.channels = Cardinality(Ids(a.channels))
      /\ a.manifest.counts.emojis = Len(a.emojis)
      /\ a.manifest.joined = Len(a.manifest.joinedList)
  BY DEF WellFormed, RestWell, SameRest
<1> HIDE DEF m, lines, range, files
<1>6. Counted(b) = [channels |-> Cardinality(Ids(a.channels)), posts |-> lines,
                    users |-> Len(a.users), emojis |-> Len(a.emojis), attachments |-> files]
  BY <1>2, <1>4, <1>5 DEF Counted, files
<1>7. m.counts = Counted(b) /\ m.joined = Len(m.joinedList)
  BY <1>1, <1>5, <1>6
<1>8. b.manifest = m
  BY DEF m
<1>9. {k \in DOMAIN Counted(b) : b.manifest.counts[k] # Counted(b)[k]} = {}
  BY <1>7, <1>8
<1>10. ~ (m.range # <<>> /\ range # <<>> /\ m.range # range)
  BY <1>1
<1> QED BY <1>3, <1>7, <1>8, <1>9, <1>10 DEF ManifestErrors

LEMMA ManifestKept ==
  ASSUME RedactInv, WellFormedInv, ManifestInv, [Next]_vars PROVE ManifestInv'
<1>1. CASE RefreshManifest
  <2> SUFFICES ASSUME src'.manifest.readable PROVE ManifestErrors(src') = {}
    BY DEF ManifestInv
  <2>1. SameBut(src, src', {})
    BY <1>1, EndsStep
  <2>2. src'.posts = src.posts /\ src'.users = src.users /\ src'.files = src.files
    BY <2>1 DEF SameBut
  <2>3. Shape /\ AreUsers(src.users)
    BY PartsOfArchive DEF RedactInv, Shape
  <2>4. SameRest(src, src')
    BY <1>1, <2>3, RestStays
  <2>5. src'.manifest = Refreshed(src)
    <3>1. src.manifest.readable
      BY <1>1 DEF RefreshManifest
    <3>2. src' = [src EXCEPT !.manifest = Refreshed(src)]
      BY <1>1, <3>1 DEF RefreshManifest
    <3>3. src = [posts |-> src.posts, users |-> src.users, files |-> src.files,
                 emojis |-> src.emojis, channels |-> src.channels, blobs |-> src.blobs,
                 avatars |-> src.avatars, stray |-> src.stray, manifest |-> src.manifest]
      BY PartsOfArchive DEF RedactInv, Shape
    <3> QED BY <3>2, <3>3
  <2> DEFINE a == src
             b == src'
  <2>6. WellFormed(a) /\ AreUsers(a.users) /\ b.posts = a.posts /\ b.users = a.users
        /\ b.files = a.files /\ SameRest(a, b) /\ b.manifest = Refreshed(a)
    BY <2>2, <2>3, <2>4, <2>5 DEF WellFormedInv
  <2> HIDE DEF a, b
  <2>7. ManifestErrors(b) = {}
    BY <2>6, RefreshedSays
  <2> QED BY <2>7 DEF b
<1>2. CASE src' = src /\ rd' = rd
  BY <1>2 DEF ManifestInv
<1>3. CASE rd'.pc # "done"
  BY <1>3 DEF ManifestInv
<1>4. \/ RefreshManifest \/ (src' = src /\ rd' = rd) \/ rd'.pc # "done"
  <2>1. ASSUME NEW q \in Requests, StartRedact(q) PROVE rd'.pc # "done"
    BY <2>1 DEF StartRedact, Idle, AfterPosts
  <2>2. ASSUME NEW f \in NextFiles, OpenTemporary(f) PROVE rd'.pc # "done"
    <3>1. rd' = [rd EXCEPT !.temp = f] /\ rd.pc # "done"
      BY <2>2 DEF OpenTemporary, NextFiles
    <3> QED BY <3>1 DEF RedactInv, Shape
  <2>3. CASE RenamePosts
    BY <2>3, RenamePostsStep
  <2>4. CASE RenameUsers
    BY <2>4, RenameUsersStep
  <2>5. CASE RenameFiles
    BY <2>5, RenameFilesStep
  <2>6. ASSUME NEW f \in rd.doomed, EraseBlob(f) PROVE rd'.pc # "done"
    BY <2>6, EraseBlobStep
  <2>7. CASE EraseAvatar
    BY <2>7, EraseAvatarStep
  <2>8. CASE EndRedact \/ StopRedact
    BY <2>8 DEF EndRedact, StopRedact, Idle
  <2>9. CASE AnonNext
    BY <2>9, AnonLeaves
  <2>10. CASE UNCHANGED vars
    BY <2>10 DEF vars
  <2> QED BY <2>1, <2>2, <2>3, <2>4, <2>5, <2>6, <2>7, <2>8, <2>9, <2>10 DEF Next, RedactNext
<1> QED BY <1>1, <1>2, <1>3, <1>4

(*------------------------- what verify accepts ---------------------------*)
\* A property checked under a label.
LEMMA Checked ==
  ASSUME NEW name, NEW B \in BOOLEAN, NEW e, e = [label |-> name, broken |-> B]
  PROVE  e.label = name /\ (e.broken => B) /\ (B => e.broken)
<1>1. e.label = name /\ e.broken = B
  OBVIOUS
<1>2. (e.broken => B) /\ (B => e.broken)
  BY <1>1, Zenon
<1> QED BY <1>1, <1>2

\* The errors of the posts, one by one.
LEMMA PostErrorsAre ==
  ASSUME NEW a
  PROVE  /\ "messages tries" \in PostErrors(a) <=> \E c \in DOMAIN a.posts : ~ InOrder(a.posts[c])
         /\ "aucun message en double" \in PostErrors(a)
              <=> \E c \in DOMAIN a.posts : Repeats(a.posts[c])
         /\ "tout auteur a une fiche" \in PostErrors(a)
              <=> \E p \in PostsOf(a) : p.user # "" /\ p.user \notin Ids(a.users)
         /\ "toute piece jointe est decrite" \in PostErrors(a)
              <=> \E p \in PostsOf(a) : ~ (p.files \subseteq Ids(a.files))
         /\ "tout canal est decrit" \in PostErrors(a) <=> ~ (DOMAIN a.posts \subseteq Ids(a.channels))
         /\ PostErrors(a) \subseteq {"messages tries", "aucun message en double",
               "tout auteur a une fiche", "toute piece jointe est decrite", "tout canal est decrit"}
<1> DEFINE B1 == \E c \in DOMAIN a.posts : ~ InOrder(a.posts[c])
           B2 == \E c \in DOMAIN a.posts : Repeats(a.posts[c])
           B3 == \E p \in PostsOf(a) : p.user # "" /\ p.user \notin Ids(a.users)
           B4 == \E p \in PostsOf(a) : ~ (p.files \subseteq Ids(a.files))
           B5 == ~ (DOMAIN a.posts \subseteq Ids(a.channels))
           E1 == [label |-> "messages tries", broken |-> B1]
           E2 == [label |-> "aucun message en double", broken |-> B2]
           E3 == [label |-> "tout auteur a une fiche", broken |-> B3]
           E4 == [label |-> "toute piece jointe est decrite", broken |-> B4]
           E5 == [label |-> "tout canal est decrit", broken |-> B5]
<1>1. PostErrors(a) = {e.label : e \in {e \in {E1, E2, E3, E4, E5} : e.broken}}
  BY DEF PostErrors
<1>2. B1 \in BOOLEAN /\ B2 \in BOOLEAN /\ B3 \in BOOLEAN /\ B4 \in BOOLEAN /\ B5 \in BOOLEAN
  OBVIOUS
<1> HIDE DEF B1, B2, B3, B4, B5
<1>3. /\ E1.label = "messages tries" /\ (E1.broken => B1) /\ (B1 => E1.broken)
      /\ E2.label = "aucun message en double" /\ (E2.broken => B2) /\ (B2 => E2.broken)
      /\ E3.label = "tout auteur a une fiche" /\ (E3.broken => B3) /\ (B3 => E3.broken)
      /\ E4.label = "toute piece jointe est decrite" /\ (E4.broken => B4) /\ (B4 => E4.broken)
      /\ E5.label = "tout canal est decrit" /\ (E5.broken => B5) /\ (B5 => E5.broken)
  <2>1. E1.label = "messages tries" /\ (E1.broken => B1) /\ (B1 => E1.broken)
    BY <1>2, Checked
  <2>2. E2.label = "aucun message en double" /\ (E2.broken => B2) /\ (B2 => E2.broken)
    BY <1>2, Checked
  <2>3. E3.label = "tout auteur a une fiche" /\ (E3.broken => B3) /\ (B3 => E3.broken)
    BY <1>2, Checked
  <2>4. E4.label = "toute piece jointe est decrite" /\ (E4.broken => B4) /\ (B4 => E4.broken)
    BY <1>2, Checked
  <2>5. E5.label = "tout canal est decrit" /\ (E5.broken => B5) /\ (B5 => E5.broken)
    BY <1>2, Checked
  <2> HIDE DEF E1, E2, E3, E4, E5
  <2> QED BY <2>1, <2>2, <2>3, <2>4, <2>5
<1> HIDE DEF E1, E2, E3, E4, E5
<1>4. PostErrors(a) \subseteq {E1.label, E2.label, E3.label, E4.label, E5.label}
  BY <1>1
<1>5. \A l : l \in PostErrors(a) <=> \E e \in {E1, E2, E3, E4, E5} : e.broken /\ l = e.label
  BY <1>1
<1>6. /\ "messages tries" \in PostErrors(a) <=> B1
      /\ "aucun message en double" \in PostErrors(a) <=> B2
      /\ "tout auteur a une fiche" \in PostErrors(a) <=> B3
      /\ "toute piece jointe est decrite" \in PostErrors(a) <=> B4
      /\ "tout canal est decrit" \in PostErrors(a) <=> B5
  <2>1. \A l : l \in PostErrors(a) => \/ E1.broken /\ l = E1.label
                                      \/ E2.broken /\ l = E2.label
                                      \/ E3.broken /\ l = E3.label
                                      \/ E4.broken /\ l = E4.label
                                      \/ E5.broken /\ l = E5.label
    BY <1>5, Zenon
  <2>2. /\ E1.broken => E1.label \in PostErrors(a)
        /\ E2.broken => E2.label \in PostErrors(a)
        /\ E3.broken => E3.label \in PostErrors(a)
        /\ E4.broken => E4.label \in PostErrors(a)
        /\ E5.broken => E5.label \in PostErrors(a)
    BY <1>5, Zenon
  <2> QED BY <1>3, <2>1, <2>2
<1> QED BY <1>3, <1>4, <1>6 DEF B1, B2, B3, B4, B5

\* An archive that verify accepts, file by file and across files.
LEMMA VerifiedParts ==
  ASSUME NEW a, IsArchive(a), IsFilled(a), Verify(a) = {}
  PROVE  /\ a.manifest.readable /\ ~ Repeats(a.users) /\ ~ Repeats(a.files)
         /\ ChannelErrors(a) = {} /\ BlobErrors(a) = {} /\ ManifestErrors(a) = {}
         /\ \A c \in DOMAIN a.posts : InOrder(a.posts[c]) /\ ~ Repeats(a.posts[c])
         /\ \A p \in PostsOf(a) : p.user = "" \/ p.user \in Ids(a.users)
         /\ \A p \in PostsOf(a) : p.files \subseteq Ids(a.files)
         /\ DOMAIN a.posts \subseteq Ids(a.channels)
<1>1. a.manifest.readable
  BY DEF Verify
<1>2. /\ ChannelErrors(a) = {} /\ RowErrors(a) = {} /\ PostErrors(a) = {}
      /\ BlobErrors(a) = {} /\ ManifestErrors(a) = {}
  BY <1>1 DEF Verify
<1>3. ~ Repeats(a.users) /\ ~ Repeats(a.files)
  BY <1>2 DEF RowErrors
<1>4. /\ ~ \E c \in DOMAIN a.posts : ~ InOrder(a.posts[c])
      /\ ~ \E c \in DOMAIN a.posts : Repeats(a.posts[c])
      /\ ~ \E p \in PostsOf(a) : p.user # "" /\ p.user \notin Ids(a.users)
      /\ ~ \E p \in PostsOf(a) : ~ (p.files \subseteq Ids(a.files))
      /\ DOMAIN a.posts \subseteq Ids(a.channels)
  BY <1>2, PostErrorsAre
<1> QED BY <1>1, <1>2, <1>3, <1>4

LEMMA VerifiedInit ==
  ASSUME Verified, PseudonymsAreNew, OwnFiles, Init
  PROVE  WellFormedInv /\ ReferencesInv /\ ManifestInv /\ BinariesInv
<1> DEFINE a == src
<1>1. a \in Sources /\ orig = src /\ rd.pc = "idle" /\ begun = {} /\ unfinished = {}
  BY DEF Init, RedactInit, Idle
<1>2. IsArchive(a) /\ IsFilled(a) /\ Verify(a) = {}
  BY <1>1, SourcesAssumption DEF Verified
<1>3. /\ \A q \in Requests : Pseudonym(q.user) \notin Ids(a.users)
      /\ \A p \in PostsOf(a) : \A f \in ToSet(a.files) : f.id \in p.files => f.user = p.user
  BY <1>1 DEF PseudonymsAreNew, OwnFiles
<1> HIDE DEF a
<1>4. /\ a.manifest.readable /\ ~ Repeats(a.users) /\ ~ Repeats(a.files)
      /\ ChannelErrors(a) = {} /\ BlobErrors(a) = {} /\ ManifestErrors(a) = {}
      /\ \A c \in DOMAIN a.posts : InOrder(a.posts[c]) /\ ~ Repeats(a.posts[c])
      /\ \A p \in PostsOf(a) : p.user = "" \/ p.user \in Ids(a.users)
      /\ \A p \in PostsOf(a) : p.files \subseteq Ids(a.files)
      /\ DOMAIN a.posts \subseteq Ids(a.channels)
  BY <1>2, VerifiedParts
<1>5. AreUsers(a.users) /\ AreFiles(a.files) /\ \A c \in DOMAIN a.posts : ArePosts(a.posts[c])
  BY <1>2, PartsOfArchive
<1>6. \A c \in DOMAIN a.posts : PostsWell(a.posts[c])
  <2> SUFFICES ASSUME NEW c \in DOMAIN a.posts PROVE PostsWell(a.posts[c])
    OBVIOUS
  <2>1. Distinct(a.posts[c])
    BY <1>4, <1>5, DistinctRows DEF ArePosts
  <2>2. \A p \in ToSet(a.posts[c]) : PostIsFilled(p)
    BY <1>2 DEF IsFilled, PostIsFilled
  <2> QED BY <1>4, <2>1, <2>2 DEF PostsWell
<1>7. UsersWell(a.users) /\ Distinct(a.files)
  BY <1>3, <1>4, <1>5, DistinctRows DEF AreUsers, AreFiles, UsersWell
<1>8. RestWell(a.channels, a.emojis, a.manifest, DOMAIN a.posts)
  <2>1. /\ IsManifest(a.manifest) /\ a.manifest.readable \in BOOLEAN /\ AreRows(a.channels)
        /\ AreRows(a.emojis) /\ \A e \in ToSet(a.emojis) : IsEmoji(e)
    BY <1>2 DEF IsFilled
  <2>2. ~ Repeats(a.channels) /\ \A c \in ToSet(a.channels) : c.public
    BY <1>4 DEF ChannelErrors
  <2>3. \A k \in DOMAIN Counted(a) : a.manifest.counts[k] = Counted(a)[k]
    BY <1>4 DEF ManifestErrors
  <2>4. /\ a.manifest.counts.channels = Cardinality(Ids(a.channels))
        /\ a.manifest.counts.emojis = Len(a.emojis)
    <3>1. /\ DOMAIN Counted(a) = {"channels", "posts", "users", "emojis", "attachments"}
          /\ Counted(a).channels = Cardinality(Ids(a.channels)) /\ Counted(a).emojis = Len(a.emojis)
      BY DEF Counted
    <3> QED BY <2>3, <3>1
  <2>5. a.manifest.joined = Len(a.manifest.joinedList)
    BY <1>4 DEF ManifestErrors
  <2> QED BY <1>4, <2>1, <2>2, <2>4, <2>5 DEF RestWell
<1>9. WellFormedInv
  BY <1>1, <1>6, <1>7, <1>8 DEF WellFormedInv, WellFormed, a
<1>10. ReferencesInv
  <2>1. UnderWay
    BY <1>1 DEF UnderWay
  <2>2. PseudonymsAsked
    <3> SUFFICES ASSUME NEW p \in PostsOf(a), NEW q \in Requests, p.user = Pseudonym(q.user) PROVE FALSE
      BY DEF PseudonymsAsked, a
    <3> QED BY <1>3, <1>4 DEF PseudonymsAreNew
  <2>3. AuthorsInv
    BY <1>4 DEF AuthorsInv, a
  <2>4. CitedInv
    <3> SUFFICES ASSUME NEW p \in PostsOf(a), NEW x \in p.files
                 PROVE  \E f \in ToSet(a.files) : f.id = x /\ SameAccount(f.user, p.user)
      BY DEF CitedInv, a
    <3>1. x \in Ids(a.files)
      BY <1>4
    <3>2. PICK f \in ToSet(a.files) : f.id = x
      BY <3>1 DEF Ids
    <3>3. f.user = p.user
      BY <1>3, <3>2
    <3> QED BY <3>2, <3>3 DEF SameAccount
  <2> QED BY <2>1, <2>2, <2>3, <2>4 DEF ReferencesInv
<1>11. BinariesInv
  <2>1. ToSet(WithBlob(a)) = {f \in ToSet(a.files) : f.path}
    BY <1>5, WithBlobRows
  <2>2. NoneDangles(a.files, a.blobs)
    BY <1>4, <2>1 DEF NoneDangles, BlobErrors
  <2>3. OneOwner(a.files)
    <3>1. \A f, g \in ToSet(a.files) : f.id = g.id => f = g
      BY <1>4, <1>5, OneRowPerId DEF AreFiles
    <3> QED BY <3>1 DEF OneOwner
  <2> QED BY <1>1, <2>2, <2>3 DEF BinariesInv, a
<1> QED BY <1>1, <1>9, <1>10, <1>11 DEF ManifestInv

\* Everything the theorems on verify rest on.
VerifiedInv == RedactInv /\ WellFormedInv /\ ReferencesInv /\ ManifestInv /\ BinariesInv

LEMMA VerifiedInvariant ==
  ASSUME Verified, PseudonymsAreNew, OwnFiles PROVE Spec => []VerifiedInv
<1>1. Init => VerifiedInv
  BY RedactInitHolds, VerifiedInit DEF Init, VerifiedInv
<1>2. VerifiedInv /\ [Next]_vars => VerifiedInv'
  BY RedactStep, WellFormedKept, ReferencesKept, ManifestKept, BinariesKept DEF VerifiedInv
<1> QED BY <1>1, <1>2, PTL DEF Spec

\* On archives that verify accepts, whatever is cut, repeated and mixed between
\* accounts, a redaction that completes while none is left half done leaves an
\* archive that verify accepts, unless the manifest was torn or one account was
\* asked for in both modes: every author left has a row, since the rows of an
\* account outlive its posts and its pseudonym's row waits only for requests
\* that have not completed; every attachment cited is still described, since a
\* post and its attachments leave or change names together.
THEOREM CompletedArchivesVerify ==
  ASSUME Verified, PseudonymsAreNew, OwnFiles
  PROVE  Spec => []CompletedRedactionVerifies
<1>1. VerifiedInv => CompletedRedactionVerifies
  <2> SUFFICES ASSUME VerifiedInv, rd.pc = "done", unfinished = {}, src.manifest.readable, ~ BothModes
               PROVE  Verify(src) = {}
    BY DEF CompletedRedactionVerifies
  <2> DEFINE a == src
  <2>1. WellFormed(a) /\ AuthorsInv /\ CitedInv /\ ManifestErrors(a) = {} /\ IsArchive(a)
    BY DEF VerifiedInv, WellFormedInv, ReferencesInv, ManifestInv, RedactInv, Shape
  <2>2. AreUsers(a.users) /\ AreFiles(a.files) /\ \A c \in DOMAIN a.posts : ArePosts(a.posts[c])
    BY <2>1, PartsOfArchive
  <2>3. BlobErrors(a) = {}
    <3>1. ToSet(WithBlob(a)) = {f \in ToSet(a.files) : f.path}
      BY <2>2, WithBlobRows
    <3>2. NoneDangles(a.files, a.blobs)
      BY DEF VerifiedInv, BinariesInv
    <3> QED BY <3>1, <3>2 DEF NoneDangles, BlobErrors
  <2>4. ChannelErrors(a) = {} /\ DOMAIN a.posts \subseteq Ids(a.channels)
    BY <2>1 DEF WellFormed, RestWell, ChannelErrors
  <2>5. RowErrors(a) = {}
    <3>1. ~ Repeats(a.users) /\ ~ Repeats(a.files)
      BY <2>1, <2>2, DistinctRows DEF AreUsers, AreFiles, WellFormed, UsersWell
    <3> QED BY <3>1 DEF RowErrors
  <2>6. \A p \in PostsOf(a) : p.user = "" \/ p.user \in Ids(a.users)
    BY <2>1 DEF AuthorsInv, Waits
  <2>7. \A p \in PostsOf(a) : p.files \subseteq Ids(a.files)
    BY <2>1 DEF CitedInv, Ids
  <2>8. \A c \in DOMAIN a.posts : InOrder(a.posts[c]) /\ ~ Repeats(a.posts[c])
    BY <2>1, <2>2, DistinctRows DEF ArePosts, WellFormed, PostsWell
  <2> HIDE DEF a
  <2>9. PostErrors(a) = {}
    BY <2>4, <2>6, <2>7, <2>8, PostErrorsAre
  <2>10. Verify(a) = {}
    BY <2>1, <2>3, <2>4, <2>5, <2>9 DEF Verify, a
  <2> QED BY <2>10 DEF a
<1> QED BY <1>1, VerifiedInvariant, PTL
=============================================================================
