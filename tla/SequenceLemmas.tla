---------------------------- MODULE SequenceLemmas ----------------------------
(***************************************************************************)
(* Facts about sequences that the library of theorems does not have.       *)
(***************************************************************************)
EXTENDS SequencesExt, SequenceTheorems, FiniteSetTheorems,
        WellFoundedInduction, NaturalsInduction, TLAPS

(* RemoveAt keeps the elements before the one removed in place and moves   *)
(* those behind it forward by one.                                         *)
LEMMA RemoveAtProperties ==
  ASSUME NEW S, NEW s \in Seq(S), NEW i \in 1..Len(s)
  PROVE  /\ RemoveAt(s, i) \in Seq(S)
         /\ Len(RemoveAt(s, i)) = Len(s) - 1
         /\ \A j \in 1..(Len(s) - 1) :
              RemoveAt(s, i)[j] = IF j < i THEN s[j] ELSE s[j + 1]
<1> DEFINE front == SubSeq(s, 1, i - 1)
           back == SubSeq(s, i + 1, Len(s))
<1>1. Len(s) \in Nat /\ \A j \in 1..Len(s) : s[j] \in S
  BY LenProperties
<1>2. /\ front \in Seq(S) /\ Len(front) = i - 1
      /\ \A j \in 1..(i - 1) : front[j] = s[j]
  BY <1>1, SubSeqProperties
<1>3. /\ back \in Seq(S) /\ Len(back) = Len(s) - i
      /\ \A j \in 1..(Len(s) - i) : back[j] = s[i + j]
  BY <1>1, SubSeqProperties
<1>4. RemoveAt(s, i) = front \o back
  BY DEF RemoveAt
<1> HIDE DEF front, back
<1> DEFINE both == front \o back
<1>5. /\ both \in Seq(S)
      /\ Len(both) = Len(front) + Len(back)
      /\ \A j \in 1..(Len(front) + Len(back)) :
           both[j] = IF j <= Len(front) THEN front[j] ELSE back[j - Len(front)]
  BY <1>2, <1>3, ConcatProperties
<1> HIDE DEF both
<1>6. /\ Len(both) = Len(s) - 1
      /\ \A j \in 1..(Len(s) - 1) :
           both[j] = IF j <= i - 1 THEN front[j] ELSE back[j - (i - 1)]
  BY <1>1, <1>2, <1>3, <1>5
<1>7. ASSUME NEW j \in 1..(Len(s) - 1)
      PROVE  both[j] = IF j < i THEN s[j] ELSE s[j + 1]
  <2>1. CASE j < i
    BY <2>1, <1>1, <1>2, <1>6
  <2>2. CASE ~(j < i)
    <3>1. j - (i - 1) \in 1..(Len(s) - i) /\ i + (j - (i - 1)) = j + 1
      BY <2>2, <1>1
    <3>2. both[j] = back[j - (i - 1)]
      BY <2>2, <1>1, <1>6
    <3> QED BY <2>2, <3>1, <3>2, <1>3
  <2> QED BY <2>1, <2>2
<1> QED BY <1>4, <1>5, <1>6, <1>7 DEF both

(* What an extended sequence contains at most.                             *)
LEMMA AppendContains ==
  ASSUME NEW S, NEW s \in Seq(S), NEW e \in S, NEW x,
         Contains(Append(s, e), x)
  PROVE  Contains(s, x) \/ x = e
<1>1. PICK i \in 1..Len(Append(s, e)) : Append(s, e)[i] = x
  BY DEF Contains
<1>2. Len(s) \in Nat /\ Len(Append(s, e)) = Len(s) + 1
  BY LenProperties, AppendProperties
<1>3. CASE i \in 1..Len(s)
  BY <1>1, <1>3, AppendProperties DEF Contains
<1>4. CASE i = Len(s) + 1
  BY <1>1, <1>4, AppendProperties
<1> QED BY <1>1, <1>2, <1>3, <1>4

(* What a sequence contains after an element was appended.                 *)
LEMMA AppendHolds ==
  ASSUME NEW S, NEW s \in Seq(S), NEW e \in S, NEW x
  PROVE  Contains(Append(s, e), x) <=> Contains(s, x) \/ x = e
<1>1. /\ Len(s) \in Nat /\ Len(Append(s, e)) = Len(s) + 1
      /\ \A i \in 1..Len(s) : Append(s, e)[i] = s[i]
      /\ Append(s, e)[Len(s) + 1] = e
  BY LenProperties, AppendProperties
<1>2. ASSUME Contains(s, x) PROVE Contains(Append(s, e), x)
  <2>1. PICK i \in 1..Len(s) : s[i] = x
    BY <1>2 DEF Contains
  <2> QED BY <1>1, <2>1 DEF Contains
<1>3. Contains(Append(s, e), e)
  <2>1. Len(s) + 1 \in 1..Len(Append(s, e))
    BY <1>1
  <2> QED BY <1>1, <2>1 DEF Contains
<1> QED BY <1>2, <1>3, AppendContains

(* The same of a sequence without repetitions and a removed element.       *)
LEMMA RemoveHolds ==
  ASSUME NEW S, NEW s \in Seq(S), IsInjective(s), NEW i \in 1..Len(s), NEW x
  PROVE  Contains(RemoveAt(s, i), x) <=> Contains(s, x) /\ x # s[i]
<1> DEFINE t == RemoveAt(s, i)
<1>1. /\ Len(s) \in Nat /\ Len(t) = Len(s) - 1
      /\ \A j \in 1..(Len(s) - 1) : t[j] = IF j < i THEN s[j] ELSE s[j + 1]
      /\ \A j, k \in 1..Len(s) : s[j] = s[k] => j = k
  BY LenProperties, RemoveAtProperties DEF IsInjective
<1> HIDE DEF t
<1>2. ASSUME Contains(t, x) PROVE Contains(s, x) /\ x # s[i]
  <2>1. PICK j \in 1..Len(t) : t[j] = x
    BY <1>2 DEF Contains
  <2>2. PICK k \in 1..Len(s) : k # i /\ s[k] = x
    <3>1. CASE j < i
      BY <1>1, <2>1, <3>1
    <3>2. CASE ~(j < i)
      <4>1. j + 1 \in 1..Len(s) /\ j + 1 # i
        BY <1>1, <3>2
      <4> QED BY <1>1, <2>1, <3>2, <4>1
    <3> QED BY <3>1, <3>2
  <2> QED BY <1>1, <2>2 DEF Contains
<1>3. ASSUME Contains(s, x), x # s[i] PROVE Contains(t, x)
  <2>1. PICK k \in 1..Len(s) : s[k] = x
    BY <1>3 DEF Contains
  <2>2. CASE k < i
    BY <1>1, <2>1, <2>2 DEF Contains
  <2>3. CASE k > i
    <3>1. k - 1 \in 1..Len(t) /\ ~(k - 1 < i) /\ (k - 1) + 1 = k
      BY <1>1, <2>3
    <3>2. t[k - 1] = x
      BY <1>1, <2>1, <3>1
    <3> QED BY <3>1, <3>2 DEF Contains
  <2> QED BY <1>3, <2>1, <2>2, <2>3
<1> QED BY <1>2, <1>3 DEF t

(* A set of numbers that holds 0 and the successor of each of its numbers  *)
(* holds them all.  Facts about recursive definitions are proved with it,  *)
(* the set being that of the numbers for which they hold.                  *)
LEMMA SetInduction ==
  ASSUME NEW S, 0 \in S, \A n \in Nat : n \in S => n + 1 \in S
  PROVE  \A n \in Nat : n \in S
<1> DEFINE T == {n \in Nat : n \notin S}
<1>1. SUFFICES ASSUME T # {} PROVE FALSE
  OBVIOUS
<1>2. \E x \in T : \A y \in T : ~ (<<y, x>> \in OpToRel(<, Nat))
  <2>1. IsWellFoundedOn(OpToRel(<, Nat), Nat)
    BY NatLessThanWellFounded
  <2>2. T \subseteq Nat
    OBVIOUS
  <2> HIDE DEF T
  <2> QED BY <1>1, <2>1, <2>2, WFMin
<1>3. PICK x \in T : \A y \in T : ~(y < x)
  BY <1>2 DEF OpToRel
<1>4. x \in Nat /\ x # 0
  OBVIOUS
<1>5. x - 1 \in Nat /\ x - 1 < x /\ (x - 1) + 1 = x
  BY <1>4
<1>6. x - 1 \in S
  BY <1>3, <1>5
<1>7. x \in S
  BY <1>5, <1>6
<1> QED BY <1>7

(* A sequence without repetitions is as long as it has elements.           *)
LEMMA InjectiveLength ==
  ASSUME NEW S, NEW s \in Seq(S), IsInjective(s)
  PROVE  /\ IsFiniteSet({s[i] : i \in 1..Len(s)})
         /\ Cardinality({s[i] : i \in 1..Len(s)}) = Len(s)
         /\ IsFiniteSet(S) => Len(s) <= Cardinality(S)
<1> DEFINE D == 1..Len(s)
           R == {s[i] : i \in 1..Len(s)}
<1>1. Len(s) \in Nat /\ s \in [D -> S] /\ DOMAIN s = D
  BY LenProperties
<1>2. IsFiniteSet(D) /\ Cardinality(D) = Len(s)
  BY <1>1, FS_Interval
<1>3. \A i, j \in D : s[i] = s[j] => i = j
  BY <1>1 DEF IsInjective
<1>4. s \in [D -> R] /\ \A r \in R : \E i \in D : s[i] = r
  BY <1>1
<1>5. s \in Surjection(D, R) /\ s \in Injection(D, R)
  <2> HIDE DEF D, R
  <2> QED BY <1>3, <1>4, <1>1 DEF Surjection, Injection, IsInjective
<1>6. IsFiniteSet(R) /\ Cardinality(R) = Cardinality(D)
  <2> HIDE DEF D, R
  <2> QED BY <1>2, <1>5, FS_Surjection
<1>7. R \in SUBSET S
  BY <1>1
<1>8. IsFiniteSet(S) => Cardinality(R) <= Cardinality(S)
  <2> HIDE DEF R
  <2> QED BY <1>7, FS_Subset
<1> QED BY <1>2, <1>6, <1>8

(* The sequences of a family share no element, and none repeats one.       *)
Apart(seqs, D, S) ==
  /\ \A i \in D : IsInjective(seqs[i])
  /\ \A i, j \in D, e \in S :
       Contains(seqs[i], e) /\ Contains(seqs[j], e) => i = j

(* The concatenation of such sequences repeats no element either.          *)
LEMMA FlattenInjective ==
  ASSUME NEW S, NEW n \in Nat \ {0}, NEW seqs \in [1..n -> Seq(S)],
         Apart(seqs, 1..n, S)
  PROVE  /\ FlattenSeq(seqs) \in Seq(S)
         /\ IsInjective(FlattenSeq(seqs))
         /\ \A e : Contains(FlattenSeq(seqs), e)
                     <=> \E i \in 1..n : Contains(seqs[i], e)
<1> DEFINE Flat(m, f) == f = [i \in 1..m |-> IF i = 1 THEN seqs[i]
                                             ELSE f[i - 1] \o seqs[i]]
           flatten[i \in 1..Len(seqs)] ==
             IF i = 1 THEN seqs[i] ELSE flatten[i - 1] \o seqs[i]
<1>1. Len(seqs) = n
  <2>1. seqs \in Seq(Seq(S))
    OBVIOUS
  <2> QED BY <2>1, LenProperties
<1>2. FlattenSeq(seqs) = flatten[n]
  BY <1>1 DEF FlattenSeq
<1>3. \E f : Flat(n, f)
  <2> DEFINE M == {m \in Nat : \E f : Flat(m, f)}
  <2>1. 0 \in M
    <3>1. Flat(0, <<>>)
      OBVIOUS
    <3> QED BY <3>1
  <2>2. ASSUME NEW m \in Nat, m \in M
        PROVE  m + 1 \in M
    <3>1. PICK f : Flat(m, f)
      BY <2>2
    <3> DEFINE g == [i \in 1..(m + 1) |-> IF i \in 1..m THEN f[i]
                       ELSE IF i = 1 THEN seqs[i] ELSE f[i - 1] \o seqs[i]]
    <3>2. Flat(m + 1, g)
      <4>1. ASSUME NEW i \in 1..(m + 1)
            PROVE  g[i] = IF i = 1 THEN seqs[i] ELSE g[i - 1] \o seqs[i]
        <5>1. CASE i \in 1..m
          <6>1. f[i] = IF i = 1 THEN seqs[i] ELSE f[i - 1] \o seqs[i]
            BY <3>1, <5>1
          <6>2. i # 1 => i - 1 \in 1..m /\ i - 1 \in 1..(m + 1)
            BY <5>1
          <6> QED BY <5>1, <6>1, <6>2
        <5>2. CASE i \notin 1..m
          <6>1. i # 1 => i - 1 \in 1..m /\ i - 1 \in 1..(m + 1)
            BY <5>2
          <6> QED BY <5>2, <6>1
        <5> QED BY <5>1, <5>2
      <4> QED BY <4>1
    <3> HIDE DEF g
    <3> HIDE DEF Flat
    <3> QED BY <3>2
  <2>3. \A m \in Nat : m \in M
    <3> HIDE DEF M
    <3> QED BY <2>1, <2>2, SetInduction
  <2> QED BY <2>3
<1>4. Flat(n, flatten)
  BY <1>1, <1>3
<1> HIDE DEF flatten
<1> DEFINE Good(m) == /\ flatten[m] \in Seq(S) /\ IsInjective(flatten[m])
                      /\ \A e : Contains(flatten[m], e)
                                  <=> \E i \in 1..m : Contains(seqs[i], e)
           G == {m \in Nat : m + 1 \in 1..n => Good(m + 1)}
<1> USE DEF Apart
<1>5. 0 \in G
  <2>1. flatten[1] = seqs[1]
    BY <1>4
  <2> QED BY <2>1
<1>6. ASSUME NEW m \in Nat, m \in G
      PROVE  m + 1 \in G
  <2>1. SUFFICES ASSUME m + 2 \in 1..n
                 PROVE  Good(m + 2)
    OBVIOUS
  <2>2. Good(m + 1)
    BY <1>6, <2>1
  <2> DEFINE a == flatten[m + 1]
             b == seqs[m + 2]
  <2>3. flatten[m + 2] = a \o b
    <3>1. m + 2 # 1 /\ (m + 2) - 1 = m + 1
      OBVIOUS
    <3> QED BY <1>4, <2>1, <3>1
  <2>4. /\ a \in Seq(S) /\ IsInjective(a) /\ b \in Seq(S) /\ IsInjective(b)
        /\ \A e : Contains(a, e) <=> \E i \in 1..(m + 1) : Contains(seqs[i], e)
    BY <2>1, <2>2
  <2>5. \A e \in S : ~(Contains(a, e) /\ Contains(b, e))
    BY <2>1, <2>4
  <2> HIDE DEF a, b
  <2>6. /\ Len(a) \in Nat /\ Len(b) \in Nat
        /\ DOMAIN a = 1..Len(a) /\ DOMAIN b = 1..Len(b)
        /\ \A i \in 1..Len(a) : a[i] \in S
        /\ \A i \in 1..Len(b) : b[i] \in S
    BY <2>4, LenProperties, ElementOfSeq
  <2> DEFINE ab == a \o b
  <2>7. /\ ab \in Seq(S) /\ Len(ab) = Len(a) + Len(b)
        /\ \A i \in 1..(Len(a) + Len(b)) :
             ab[i] = IF i <= Len(a) THEN a[i] ELSE b[i - Len(a)]
    BY <2>4, ConcatProperties
  <2> HIDE DEF ab
  <2>8. \A e : Contains(ab, e) <=> Contains(a, e) \/ Contains(b, e)
    <3>1. ASSUME NEW e, Contains(ab, e)
          PROVE  Contains(a, e) \/ Contains(b, e)
      <4>1. PICK i \in 1..Len(ab) : ab[i] = e
        BY <3>1 DEF Contains
      <4>2. CASE i <= Len(a)
        BY <2>6, <2>7, <4>1, <4>2 DEF Contains
      <4>3. CASE ~(i <= Len(a))
        <5>1. i - Len(a) \in 1..Len(b)
          BY <2>6, <2>7, <4>3
        <5> QED BY <2>7, <4>1, <4>3, <5>1 DEF Contains
      <4> QED BY <4>2, <4>3
    <3>2. ASSUME NEW e, Contains(a, e)
          PROVE  Contains(ab, e)
      <4>1. PICK i \in 1..Len(a) : a[i] = e
        BY <3>2 DEF Contains
      <4>2. i \in 1..Len(ab) /\ ab[i] = e
        BY <2>6, <2>7, <4>1
      <4> QED BY <4>2 DEF Contains
    <3>3. ASSUME NEW e, Contains(b, e)
          PROVE  Contains(ab, e)
      <4>1. PICK i \in 1..Len(b) : b[i] = e
        BY <3>3 DEF Contains
      <4>2. Len(a) + i \in 1..(Len(a) + Len(b)) /\ ~(Len(a) + i <= Len(a))
            /\ (Len(a) + i) - Len(a) = i
        BY <2>6, <4>1
      <4>3. Len(a) + i \in 1..Len(ab) /\ ab[Len(a) + i] = e
        BY <2>7, <4>1, <4>2
      <4> QED BY <4>3 DEF Contains
    <3> QED BY <3>1, <3>2, <3>3
  <2>9. IsInjective(ab)
    <3>1. DOMAIN ab = 1..(Len(a) + Len(b))
      BY <2>7, LenProperties
    <3>2. ASSUME NEW i \in 1..(Len(a) + Len(b)), NEW j \in 1..(Len(a) + Len(b)),
                 ab[i] = ab[j], i < j
          PROVE  FALSE
      <4>1. CASE j <= Len(a)
        <5>1. i \in 1..Len(a) /\ j \in 1..Len(a) /\ i # j
          BY <2>6, <3>2, <4>1
        <5>2. a[i] = a[j]
          BY <2>7, <3>2, <5>1
        <5> QED BY <2>4, <2>6, <5>1, <5>2 DEF IsInjective
      <4>2. CASE ~(i <= Len(a))
        <5>1. i - Len(a) \in 1..Len(b) /\ j - Len(a) \in 1..Len(b)
              /\ i - Len(a) # j - Len(a) /\ ~(j <= Len(a))
          BY <2>6, <3>2, <4>2
        <5>2. b[i - Len(a)] = b[j - Len(a)]
          BY <2>7, <3>2, <4>2, <5>1
        <5> QED BY <2>4, <2>6, <5>1, <5>2 DEF IsInjective
      <4>3. CASE i <= Len(a) /\ ~(j <= Len(a))
        <5>1. i \in 1..Len(a) /\ j - Len(a) \in 1..Len(b)
          BY <2>6, <3>2, <4>3
        <5>2. a[i] = b[j - Len(a)]
          BY <2>7, <3>2, <4>3
        <5> QED BY <2>5, <2>6, <5>1, <5>2 DEF Contains
      <4> QED BY <2>6, <3>2, <4>1, <4>2, <4>3
    <3> QED BY <2>6, <3>1, <3>2 DEF IsInjective
  <2>10. \A e : (\E i \in 1..(m + 2) : Contains(seqs[i], e))
                  <=> Contains(a, e) \/ Contains(b, e)
    <3>1. 1..(m + 2) = 1..(m + 1) \cup {m + 2}
      OBVIOUS
    <3> QED BY <2>4, <3>1 DEF b
  <2> QED BY <2>3, <2>7, <2>8, <2>9, <2>10 DEF ab
<1>7. \A m \in Nat : m \in G
  <2> HIDE DEF G
  <2> QED BY <1>5, <1>6, SetInduction
<1>8. Good(n)
  <2>1. n - 1 \in Nat /\ (n - 1) + 1 = n
    OBVIOUS
  <2>2. n - 1 \in G
    BY <1>7, <2>1
  <2> QED BY <2>1, <2>2
<1> QED BY <1>2, <1>8

(* The sum of the sizes of disjoint sets is the size of their union.       *)
LEMMA SumOfSizes ==
  ASSUME NEW D, IsFiniteSet(D), NEW E, IsFiniteSet(E),
         NEW A \in [D -> SUBSET E], NEW f \in [D -> Nat],
         \A d \in D : f[d] = Cardinality(A[d]),
         \A c, d \in D : c # d => A[c] \cap A[d] = {}
  PROVE  SumFunction(f) = Cardinality(UNION {A[d] : d \in D})
<1> DEFINE U(s) == UNION {A[d] : d \in s}
           Sum(g) == g = [s \in SUBSET D |->
                            IF s = {} THEN 0
                            ELSE LET x == CHOOSE x \in s : TRUE
                                 IN  f[x] + g[s \ {x}]]
           iter[s \in SUBSET D] ==
             IF s = {} THEN 0
             ELSE LET x == CHOOSE x \in s : TRUE
                  IN  f[x] + iter[s \ {x}]
           size == [s \in SUBSET D |-> Cardinality(U(s))]
<1>1. SumFunction(f) = iter[D]
  <2>1. DOMAIN f = D
    OBVIOUS
  <2> QED BY <2>1 DEF SumFunction, SumFunctionOnSet, FoldFunctionOnSet,
                      MapThenFoldSet
<1>2. ASSUME NEW s \in SUBSET D, NEW x \in s
      PROVE  /\ s \ {x} \in SUBSET D
             /\ Cardinality(U(s)) = f[x] + Cardinality(U(s \ {x}))
  <2>1. U(s) = A[x] \cup U(s \ {x}) /\ A[x] \cap U(s \ {x}) = {}
    OBVIOUS
  <2>2. U(s \ {x}) \in SUBSET E /\ A[x] \in SUBSET E
    OBVIOUS
  <2>3. IsFiniteSet(A[x]) /\ IsFiniteSet(U(s \ {x}))
    <3> HIDE DEF U
    <3> QED BY <2>2, FS_Subset
  <2>4. Cardinality(U(s)) = Cardinality(A[x]) + Cardinality(U(s \ {x}))
    <3> HIDE DEF U
    <3>1. /\ Cardinality({}) = 0
          /\ Cardinality(A[x]) \in Nat /\ Cardinality(U(s \ {x})) \in Nat
      BY <2>3, FS_EmptySet, FS_CardinalityType
    <3>2. Cardinality(A[x] \cup U(s \ {x}))
            = Cardinality(A[x]) + Cardinality(U(s \ {x}))
                - Cardinality(A[x] \cap U(s \ {x}))
      BY <2>3, FS_Union
    <3>3. /\ Cardinality(U(s)) = Cardinality(A[x] \cup U(s \ {x}))
          /\ Cardinality(A[x] \cap U(s \ {x})) = 0
      BY <2>1, <3>1, Zenon
    <3> QED BY <3>1, <3>2, <3>3
  <2>5. f[x] = Cardinality(A[x]) /\ s \ {x} \in SUBSET D
    OBVIOUS
  <2> HIDE DEF U
  <2> QED BY <2>4, <2>5
<1>3. Cardinality(U({})) = 0
  <2>1. U({}) = {}
    OBVIOUS
  <2> QED BY <2>1, FS_EmptySet
<1>4. Sum(size)
  <2>1. ASSUME NEW s \in SUBSET D
        PROVE  size[s] = IF s = {} THEN 0
                         ELSE LET x == CHOOSE x \in s : TRUE
                              IN  f[x] + size[s \ {x}]
    <3> DEFINE x == CHOOSE x \in s : TRUE
    <3>1. CASE s = {}
      BY <1>3, <3>1
    <3>2. CASE s # {}
      <4>1. x \in s
        BY <3>2
      <4> HIDE DEF x, U
      <4>2. size[s] = f[x] + size[s \ {x}]
        BY <1>2, <4>1
      <4> QED BY <3>2, <4>2 DEF x
    <3> QED BY <3>1, <3>2
  <2> QED BY <2>1
<1>5. Sum(iter)
  <2>1. \E g : Sum(g)
    <3> HIDE DEF Sum
    <3> QED BY <1>4
  <2> QED BY <2>1
<1> HIDE DEF iter
<1> DEFINE N == {n \in Nat : \A s \in SUBSET D :
                   Cardinality(s) = n => iter[s] = Cardinality(U(s))}
<1>6. \A s \in SUBSET D : IsFiniteSet(s) /\ Cardinality(s) \in Nat
  BY FS_Subset, FS_CardinalityType
<1>7. 0 \in N
  <2>1. ASSUME NEW s \in SUBSET D, Cardinality(s) = 0
        PROVE  iter[s] = Cardinality(U(s))
    <3>1. s = {}
      BY <1>6, <2>1, FS_EmptySet
    <3>2. iter[{}] = 0
      BY <1>5
    <3> QED BY <1>3, <3>1, <3>2
  <2> QED BY <2>1
<1>8. ASSUME NEW n \in Nat, n \in N
      PROVE  n + 1 \in N
  <2>1. ASSUME NEW s \in SUBSET D, Cardinality(s) = n + 1
        PROVE  iter[s] = Cardinality(U(s))
    <3> DEFINE x == CHOOSE x \in s : TRUE
    <3>1. s # {}
      <4>1. Cardinality({}) = 0 /\ n + 1 # 0
        BY FS_EmptySet
      <4> QED BY <2>1, <4>1
    <3>2. x \in s
      BY <3>1
    <3>3. iter[s] = f[x] + iter[s \ {x}]
      BY <1>5, <3>1
    <3> HIDE DEF x, U
    <3>4. Cardinality(s \ {x}) = n
      BY <1>6, <2>1, <3>2, FS_RemoveElement
    <3>5. iter[s \ {x}] = Cardinality(U(s \ {x}))
      BY <1>8, <3>4
    <3> QED BY <1>2, <3>2, <3>3, <3>5
  <2> QED BY <2>1
<1>9. \A n \in Nat : n \in N
  <2> HIDE DEF N
  <2> QED BY <1>7, <1>8, SetInduction
<1>10. iter[D] = Cardinality(U(D))
  <2>1. Cardinality(D) \in N
    BY <1>6, <1>9
  <2> QED BY <2>1
<1> QED BY <1>1, <1>10

(* What a sequence is after an element was put in front of it.             *)
LEMMA ConsProperties ==
  ASSUME NEW S, NEW s \in Seq(S), NEW e \in S
  PROVE  /\ <<e>> \o s \in Seq(S)
         /\ Len(<<e>> \o s) = Len(s) + 1
         /\ (<<e>> \o s)[1] = e
         /\ \A i \in 1..Len(s) : (<<e>> \o s)[i + 1] = s[i]
         /\ \A x : Contains(<<e>> \o s, x) <=> x = e \/ Contains(s, x)
         /\ IsInjective(s) /\ ~Contains(s, e) => IsInjective(<<e>> \o s)
<1> DEFINE es == <<e>> \o s
<1>1. /\ Len(s) \in Nat /\ DOMAIN s = 1..Len(s)
      /\ \A i \in 1..Len(s) : s[i] \in S
  BY LenProperties
<1>2. /\ es \in Seq(S) /\ Len(es) = 1 + Len(s)
      /\ \A i \in 1..(1 + Len(s)) : es[i] = IF i <= 1 THEN e ELSE s[i - 1]
  <2>1. <<e>> \in Seq(S) /\ Len(<<e>>) = 1 /\ <<e>>[1] = e
    OBVIOUS
  <2>2. /\ es \in Seq(S) /\ Len(es) = 1 + Len(s)
        /\ \A i \in 1..(1 + Len(s)) :
             es[i] = IF i <= 1 THEN <<e>>[i] ELSE s[i - 1]
    BY <2>1, ConcatProperties
  <2> QED BY <1>1, <2>1, <2>2
<1>3. DOMAIN es = 1..(Len(s) + 1)
  BY <1>1, <1>2, LenProperties
<1> HIDE DEF es
<1>4. es[1] = e /\ \A i \in 1..Len(s) : es[i + 1] = s[i]
  BY <1>1, <1>2
<1>5. ASSUME NEW x PROVE Contains(es, x) <=> x = e \/ Contains(s, x)
  <2>1. ASSUME Contains(es, x) PROVE x = e \/ Contains(s, x)
    <3>1. PICK i \in 1..(Len(s) + 1) : es[i] = x
      BY <1>1, <1>2, <2>1 DEF Contains
    <3>2. i # 1 => i - 1 \in 1..Len(s) /\ x = s[i - 1]
      BY <1>1, <1>2, <3>1
    <3> QED BY <1>4, <3>1, <3>2 DEF Contains
  <2>2. Contains(es, e)
    BY <1>1, <1>2, <1>4 DEF Contains
  <2>3. ASSUME Contains(s, x) PROVE Contains(es, x)
    <3>1. PICK i \in 1..Len(s) : s[i] = x
      BY <2>3 DEF Contains
    <3>2. i + 1 \in 1..Len(es) /\ es[i + 1] = x
      BY <1>1, <1>2, <1>4, <3>1
    <3> QED BY <3>2 DEF Contains
  <2> QED BY <2>1, <2>2, <2>3
<1>6. ASSUME IsInjective(s), ~Contains(s, e)
      PROVE  IsInjective(es)
  <2>1. ASSUME NEW i \in 1..(Len(s) + 1), NEW j \in 1..(Len(s) + 1),
               es[i] = es[j], i < j
        PROVE  FALSE
    <3>1. j - 1 \in 1..Len(s) /\ es[j] = s[j - 1]
      BY <1>1, <1>2, <2>1
    <3>2. CASE i = 1
      BY <1>4, <1>6, <2>1, <3>1, <3>2 DEF Contains
    <3>3. CASE i # 1
      <4>1. i - 1 \in 1..Len(s) /\ es[i] = s[i - 1] /\ i - 1 # j - 1
        BY <1>1, <1>2, <2>1, <3>3
      <4> QED BY <1>1, <1>6, <2>1, <3>1, <4>1 DEF IsInjective
    <3> QED BY <3>2, <3>3
  <2> QED BY <1>1, <1>3, <2>1 DEF IsInjective
<1> QED BY <1>2, <1>4, <1>5, <1>6 DEF es
=============================================================================
