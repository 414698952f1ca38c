---------------------------- MODULE UtHashProofs -----------------------------
(***************************************************************************)
(* The proofs about UtHash.                                                *)
(***************************************************************************)
EXTENDS UtHashInv, SequenceLemmas

(* Of a list that repeats no element, PutInFront keeps what is in a set.   *)
LEMMA PutInFrontInjective ==
  ASSUME NEW s \in Seq(Elem), IsInjective(s), NEW S
  PROVE  /\ PutInFront(s, S) \in Seq(Elem)
         /\ IsInjective(PutInFront(s, S))
         /\ \A e : Contains(PutInFront(s, S), e) <=> e \in S /\ Contains(s, e)
<1> DEFINE n == Len(s)
           D == 1..n
           Put(e, c) == IF e \in S THEN <<e>> \o c ELSE c
           Step(q, g) == IF q = {} THEN <<>>
                         ELSE LET x == Max(q) IN Put(s[x], g[q \ {x}])
           iter[q \in SUBSET D] ==
             IF q = {} THEN <<>>
             ELSE LET x == Max(q) IN Put(s[x], iter[q \ {x}])
<1>1. n \in Nat /\ s \in [D -> Elem] /\ DOMAIN s = D
  BY LenProperties
<1>2. PutInFront(s, S) = iter[D]
  BY <1>1 DEF PutInFront, FoldLeft, MapThenFoldSet
<1>3. ASSUME NEW q \in SUBSET D, q # {}
      PROVE  Max(q) \in q /\ \A i \in q : i <= Max(q)
  <2>1. \E i \in q : \A j \in q : i >= j
    <3> DEFINE T == {n - i : i \in q}
    <3>1. T \subseteq Nat /\ T # {}
      <4>1. \A i \in q : n - i \in Nat
        BY <1>1
      <4> QED BY <1>3, <4>1
    <3>2. PICK t \in T : \A u \in T : ~(<<u, t>> \in OpToRel(<, Nat))
      <4> HIDE DEF T
      <4> QED BY <3>1, NatLessThanWellFounded, WFMin
    <3>3. PICK i \in q : t = n - i
      OBVIOUS
    <3>4. ASSUME NEW j \in q PROVE i >= j
      <4>1. ~(n - j < n - i)
        BY <3>1, <3>2, <3>3 DEF OpToRel
      <4> QED BY <1>1, <4>1
    <3> QED BY <3>4
  <2> QED BY <2>1 DEF Max
<1>4. IsFiniteSet(D) /\ Cardinality(D) = n
  BY <1>1, FS_Interval
<1>5. \A q \in SUBSET D : IsFiniteSet(q) /\ Cardinality(q) \in Nat
  BY <1>4, FS_Subset, FS_CardinalityType
<1> DEFINE Upto(m) == {q \in SUBSET D : Cardinality(q) <= m}
           Fold(m, g) == g = [q \in Upto(m) |-> Step(q, g)]
<1>6. \E g : Fold(n, g)
  <2> DEFINE M == {m \in Nat : \E g : Fold(m, g)}
  <2>1. 0 \in M
    <3> DEFINE g == [q \in Upto(0) |-> <<>>]
    <3>1. \A q \in Upto(0) : q = {}
      BY <1>5, FS_EmptySet
    <3>2. Fold(0, g)
      <4>1. \A q \in Upto(0) : Step(q, g) = <<>>
        BY <3>1
      <4> HIDE DEF Step, Upto
      <4> QED BY <4>1
    <3> HIDE DEF g, Fold
    <3> QED BY <3>2
  <2>2. ASSUME NEW m \in Nat, m \in M
        PROVE  m + 1 \in M
    <3>1. PICK f : Fold(m, f)
      BY <2>2
    <3> DEFINE g == [q \in Upto(m + 1) |-> Step(q, f)]
    <3>2. ASSUME NEW q \in Upto(m + 1)
          PROVE  g[q] = Step(q, g)
      <4>1. CASE q = {}
        BY <4>1
      <4>2. CASE q # {}
        <5> DEFINE x == Max(q)
                   r == q \ {x}
        <5>1. x \in q
          BY <1>3, <4>2
        <5>2. Cardinality(r) = Cardinality(q) - 1
          <6> HIDE DEF x
          <6> QED BY <1>5, <5>1, FS_RemoveElement
        <5>3. r \in Upto(m) /\ r \in Upto(m + 1)
          <6>1. r \in SUBSET D /\ Cardinality(r) <= m /\ Cardinality(r) <= m + 1
            <7> HIDE DEF x
            <7> QED BY <1>5, <5>1, <5>2
          <6> HIDE DEF r
          <6> QED BY <6>1
        <5>4. f[r] = g[r]
          <6>1. f[r] = Step(r, f)
            <7> HIDE DEF r, Step, Upto
            <7> QED BY <3>1, <5>3
          <6>2. g[r] = Step(r, f)
            <7> HIDE DEF r, Step, Upto
            <7> QED BY <5>3
          <6> QED BY <6>1, <6>2, Zenon
        <5>5. g[q] = Step(q, f)
          <6> HIDE DEF Step, Upto
          <6> QED OBVIOUS
        <5> HIDE DEF Put, g
        <5> QED BY <4>2, <5>4, <5>5, Zenon
      <4> QED BY <4>1, <4>2
    <3>3. Fold(m + 1, g)
      <4> HIDE DEF Upto
      <4>1. g = [q \in Upto(m + 1) |-> g[q]]
        <5> HIDE DEF Step
        <5> QED OBVIOUS
      <4> HIDE DEF g, Step
      <4> QED BY <3>2, <4>1
    <3> HIDE DEF g, Fold
    <3> QED BY <3>3
  <2>3. \A m \in Nat : m \in M
    <3> HIDE DEF M
    <3> QED BY <2>1, <2>2, SetInduction
  <2> QED BY <1>1, <2>3
<1>7. iter = [q \in SUBSET D |-> Step(q, iter)]
  <2>1. Upto(n) = SUBSET D
    BY <1>4, <1>5, FS_Subset
  <2>2. \E g : g = [q \in SUBSET D |-> Step(q, g)]
    BY <1>6, <2>1
  <2> QED BY <2>2
<1> HIDE DEF iter
<1> DEFINE Good(m) ==
             /\ iter[1..m] \in Seq(Elem) /\ IsInjective(iter[1..m])
             /\ \A e : Contains(iter[1..m], e)
                         <=> e \in S /\ \E i \in 1..m : s[i] = e
           G == {m \in Nat : m <= n => Good(m)}
<1>8. 0 \in G
  <2>1. 1..0 = {} /\ iter[{}] = <<>>
    BY <1>7
  <2>2. <<>> \in Seq(Elem) /\ IsInjective(<<>>) /\ \A e : ~Contains(<<>>, e)
    BY EmptySeq DEF IsInjective, Contains
  <2>3. iter[1..0] = <<>>
    BY <2>1, Zenon
  <2>4. iter[1..0] \in Seq(Elem) /\ IsInjective(iter[1..0])
    BY <2>2, <2>3, Zenon
  <2>5. \A e : ~Contains(iter[1..0], e)
    BY <2>2, <2>3, Zenon
  <2>6. Good(0)
    BY <2>1, <2>4, <2>5
  <2> HIDE DEF Good
  <2> QED BY <2>6
<1>9. ASSUME NEW m \in Nat, m \in G
      PROVE  m + 1 \in G
  <2>1. SUFFICES ASSUME m + 1 <= n
                 PROVE  Good(m + 1)
    OBVIOUS
  <2> DEFINE c == iter[1..m]
             x == s[m + 1]
  <2>2. Good(m)
    BY <1>1, <1>9, <2>1
  <2>3. iter[1..(m + 1)] = Put(x, c)
    <3> DEFINE q == 1..(m + 1)
    <3>1. q \in SUBSET D /\ q # {} /\ m + 1 \in q
      <4>1. \A i \in q : i \in D
        BY <1>1, <2>1
      <4>2. m + 1 \in q
        OBVIOUS
      <4> HIDE DEF q, D
      <4> QED BY <4>1, <4>2
    <3>2. Max(q) = m + 1
      <4>1. Max(q) \in q /\ m + 1 <= Max(q)
        <5> HIDE DEF q
        <5> QED BY <1>3, <3>1
      <4> QED BY <4>1
    <3>3. q \ {m + 1} = 1..m
      BY <1>1
    <3>4. iter[q] = Put(s[Max(q)], iter[q \ {Max(q)}])
      <4> HIDE DEF q, Put
      <4> QED BY <1>7, <3>1
    <3> HIDE DEF q, Put
    <3>5. iter[q] = Put(x, c)
      BY <3>2, <3>3, <3>4, Zenon
    <3> QED BY <3>5 DEF q
  <2>4. x \in Elem /\ m + 1 \in 1..n /\ \A i \in 1..m : s[i] # x
    BY <1>1, <2>1 DEF IsInjective
  <2>5. (\E i \in 1..(m + 1) : s[i] = x)
    OBVIOUS
  <2>6. ASSUME NEW e
        PROVE  (\E i \in 1..(m + 1) : s[i] = e)
                 <=> e = x \/ \E i \in 1..m : s[i] = e
    <3>1. 1..(m + 1) = 1..m \cup {m + 1}
      OBVIOUS
    <3> QED BY <3>1
  <2>7. ~Contains(c, x)
    BY <2>2, <2>4
  <2>8. CASE x \in S
    <3>1. iter[1..(m + 1)] = <<x>> \o c
      BY <2>3, <2>8
    <3> HIDE DEF x, c
    <3>2. /\ <<x>> \o c \in Seq(Elem) /\ IsInjective(<<x>> \o c)
          /\ \A e : Contains(<<x>> \o c, e) <=> e = x \/ Contains(c, e)
      BY <2>2, <2>4, <2>7, ConsProperties DEF c
    <3>3. \A e : Contains(c, e) <=> e \in S /\ \E i \in 1..m : s[i] = e
      BY <2>2 DEF c
    <3> DEFINE xc == <<x>> \o c
               new == iter[1..(m + 1)]
    <3>4. /\ xc \in Seq(Elem) /\ IsInjective(xc)
          /\ \A e : Contains(xc, e) <=> e \in S /\ \E i \in 1..(m + 1) : s[i] = e
      <4> HIDE DEF xc
      <4> QED BY <2>6, <2>8, <3>2, <3>3 DEF xc
    <3>5. new = xc
      BY <3>1
    <3> HIDE DEF xc
    <3> QED BY <3>4, <3>5
  <2>9. CASE x \notin S
    <3>1. iter[1..(m + 1)] = c
      BY <2>3, <2>9
    <3> DEFINE new == iter[1..(m + 1)]
    <3>2. /\ c \in Seq(Elem) /\ IsInjective(c)
          /\ \A e : Contains(c, e) <=> e \in S /\ \E i \in 1..(m + 1) : s[i] = e
      <4> HIDE DEF x
      <4> QED BY <2>2, <2>6, <2>9
    <3>3. new = c
      BY <3>1
    <3> HIDE DEF c
    <3> QED BY <3>2, <3>3
  <2> QED BY <2>8, <2>9
<1>10. \A m \in Nat : m \in G
  <2> HIDE DEF G
  <2> QED BY <1>8, <1>9, SetInduction
<1>11. Good(n)
  <2>1. n \in G
    BY <1>1, <1>10
  <2>2. n <= n
    BY <1>1
  <2> HIDE DEF Good
  <2> QED BY <2>1, <2>2
<1> QED BY <1>2, <1>11 DEF Contains

(* Following the links of a linked list gives the list.                    *)
LEMMA FollowPath ==
  ASSUME NEW s \in Seq(Elem), IsInjective(s), NEW first, NEW link,
         first = At(s, 1), \A k \in 1..Len(s) : link[s[k]] = At(s, k + 1)
  PROVE  Follow(first, link) = s
<1> DEFINE n == Len(s)
           bound == Cardinality(Elem) + 1
           Path(f) == f = [k \in 1..bound |->
                             IF k = 1 THEN first
                             ELSE IF f[k - 1] = Null THEN Null
                             ELSE link[f[k - 1]]]
           at[k \in 1..bound] ==
             IF k = 1 THEN first
             ELSE IF at[k - 1] = Null THEN Null ELSE link[at[k - 1]]
           path == [k \in 1..bound |-> At(s, k)]
<1>1. n \in Nat /\ s \in [1..n -> Elem] /\ \A k \in 1..n : s[k] \in Elem
  BY LenProperties
<1>2. bound \in Nat /\ n < bound
  <2>1. IsFiniteSet(Elem) /\ Cardinality(Elem) \in Nat
    BY HashAssumption, FS_CardinalityType
  <2>2. n <= Cardinality(Elem)
    BY <2>1, InjectiveLength
  <2> QED BY <1>1, <2>1, <2>2
<1>3. Follow(first, link)
        = [k \in 1..Cardinality({k \in 1..bound : at[k] # Null}) |-> at[k]]
  BY DEF Follow
<1>4. Path(path)
  <2>1. ASSUME NEW k \in 1..bound
        PROVE  path[k] = IF k = 1 THEN first
                         ELSE IF path[k - 1] = Null THEN Null
                         ELSE link[path[k - 1]]
    <3>1. CASE k = 1
      BY <3>1
    <3>2. CASE k # 1 /\ k - 1 \in 1..n
      <4>1. path[k - 1] = s[k - 1] /\ s[k - 1] # Null
        BY <1>1, <1>2, <3>2, HashAssumption DEF At
      <4>2. path[k] = link[s[k - 1]]
        BY <1>2, <3>2
      <4> QED BY <3>2, <4>1, <4>2
    <3>3. CASE k # 1 /\ k - 1 \notin 1..n
      <4>1. path[k - 1] = Null
        BY <1>2, <3>3 DEF At
      <4>2. path[k] = Null
        BY <1>1, <1>2, <3>3 DEF At
      <4> QED BY <3>3, <4>1, <4>2
    <3> QED BY <3>1, <3>2, <3>3
  <2> QED BY <2>1
<1>5. Path(at)
  <2>1. \E f : Path(f)
    <3> HIDE DEF path, Path
    <3> QED BY <1>4
  <2> QED BY <2>1
<1> HIDE DEF at, bound
<1> DEFINE G == {k \in Nat : k + 1 <= bound => at[k + 1] = At(s, k + 1)}
<1>6. 0 \in G
  BY <1>2, <1>5
<1>7. ASSUME NEW k \in Nat, k \in G
      PROVE  k + 1 \in G
  <2>1. SUFFICES ASSUME k + 2 <= bound
                 PROVE  at[k + 2] = At(s, k + 2)
    OBVIOUS
  <2>2. /\ k + 1 \in 1..bound /\ k + 2 \in 1..bound
        /\ k + 2 # 1 /\ (k + 2) - 1 = k + 1
    BY <1>2, <2>1
  <2>3. at[k + 1] = At(s, k + 1)
    BY <1>2, <1>7, <2>1
  <2>4. at[k + 2] = IF at[k + 1] = Null THEN Null ELSE link[at[k + 1]]
    BY <1>5, <2>2
  <2>5. path[k + 1] = At(s, k + 1) /\ path[k + 2] = At(s, k + 2)
    BY <2>2
  <2>6. path[k + 2] = IF path[k + 1] = Null THEN Null ELSE link[path[k + 1]]
    <3> HIDE DEF path
    <3> QED BY <1>4, <2>2 DEF bound
  <2> HIDE DEF path
  <2> QED BY <2>3, <2>4, <2>5, <2>6
<1>8. \A k \in Nat : k \in G
  <2> HIDE DEF G
  <2> QED BY <1>6, <1>7, SetInduction
<1>9. \A k \in 1..bound : at[k] = At(s, k)
  <2>1. TAKE k \in 1..bound
  <2>2. k - 1 \in Nat /\ (k - 1) + 1 = k /\ k <= bound
    BY <1>2
  <2>3. k - 1 \in G
    BY <1>8, <2>2
  <2> QED BY <2>2, <2>3
<1>10. {k \in 1..bound : at[k] # Null} = 1..n
  <2>1. ASSUME NEW k \in 1..bound
        PROVE  at[k] # Null <=> k \in 1..n
    BY <1>1, <1>9, HashAssumption DEF At
  <2>2. 1..n \subseteq 1..bound
    BY <1>1, <1>2
  <2> QED BY <2>1, <2>2
<1>11. Cardinality(1..n) = n
  BY <1>1, FS_Interval
<1>12. \A k \in 1..n : at[k] = s[k]
  BY <1>1, <1>2, <1>9 DEF At
<1>13. Cardinality({k \in 1..bound : at[k] # Null}) = n
  BY <1>10, <1>11, Zenon
<1>14. [k \in 1..n |-> at[k]] = s
  BY <1>1, <1>12
<1> QED BY <1>3, <1>13, <1>14, Zenon

(* The multiplier of a chain is a number.                                  *)
LEMMA MultiplierType ==
  ASSUME NEW n \in Nat, NEW ideal
  PROVE  Multiplier(n, ideal) \in Nat
<1> DEFINE Mult(m, f) == f = [k \in 0..m |->
                    IF k = 0 THEN 0
                    ELSE IF k > ideal /\ k > f[k - 1] * ideal THEN f[k - 1] + 1
                    ELSE f[k - 1]]
           mult[k \in 0..n] ==
             IF k = 0 THEN 0
             ELSE IF k > ideal /\ k > mult[k - 1] * ideal THEN mult[k - 1] + 1
             ELSE mult[k - 1]
<1>1. Multiplier(n, ideal) = mult[n]
  BY DEF Multiplier
<1>2. \E f : Mult(n, f)
  <2> DEFINE M == {m \in Nat : \E f : Mult(m, f)}
  <2>1. 0 \in M
    <3> DEFINE f == [k \in 0..0 |-> 0]
    <3>1. Mult(0, f)
      OBVIOUS
    <3> HIDE DEF f, Mult
    <3> QED BY <3>1
  <2>2. ASSUME NEW m \in Nat, m \in M
        PROVE  m + 1 \in M
    <3>1. PICK f : Mult(m, f)
      BY <2>2
    <3> DEFINE Next1(k, g) == IF k > ideal /\ k > g[k - 1] * ideal
                             THEN g[k - 1] + 1 ELSE g[k - 1]
               g == [k \in 0..(m + 1) |-> IF k \in 0..m THEN f[k]
                                          ELSE Next1(k, f)]
    <3>2. ASSUME NEW k \in 0..(m + 1)
          PROVE  g[k] = IF k = 0 THEN 0 ELSE Next1(k, g)
      <4>1. CASE k = 0
        BY <3>1, <4>1
      <4>2. CASE k # 0
        <5>1. k - 1 \in 0..m /\ k - 1 \in 0..(m + 1)
          BY <4>2
        <5>2. g[k - 1] = f[k - 1]
          BY <5>1
        <5>3. g[k] = Next1(k, f)
          <6>1. CASE k \in 0..m
            <7>1. f[k] = Next1(k, f)
              BY <3>1, <4>2, <6>1
            <7> HIDE DEF Next1
            <7> QED BY <6>1, <7>1
          <6>2. CASE k \notin 0..m
            <7> HIDE DEF Next1
            <7> QED BY <6>2
          <6> QED BY <6>1, <6>2
        <5> HIDE DEF g
        <5> QED BY <4>2, <5>2, <5>3
      <4> QED BY <4>1, <4>2
    <3>3. Mult(m + 1, g)
      <4>1. g = [k \in 0..(m + 1) |-> g[k]]
        <5> HIDE DEF Next1
        <5> QED OBVIOUS
      <4> HIDE DEF g
      <4> QED BY <3>2, <4>1
    <3> HIDE DEF g, Mult
    <3> QED BY <3>3
  <2>3. \A m \in Nat : m \in M
    <3> HIDE DEF M
    <3> QED BY <2>1, <2>2, SetInduction
  <2> QED BY <2>3
<1>3. Mult(n, mult)
  BY <1>2
<1> HIDE DEF mult
<1> DEFINE G == {k \in Nat : k <= n => mult[k] \in Nat}
<1>4. 0 \in G
  BY <1>3
<1>5. ASSUME NEW k \in Nat, k \in G
      PROVE  k + 1 \in G
  <2>1. SUFFICES ASSUME k + 1 <= n PROVE mult[k + 1] \in Nat
    OBVIOUS
  <2>2. mult[k] \in Nat
    BY <1>5, <2>1
  <2>3. k + 1 \in 0..n /\ k + 1 # 0 /\ (k + 1) - 1 = k
    BY <2>1
  <2>4. mult[k + 1] = mult[k] + 1 \/ mult[k + 1] = mult[k]
    BY <1>3, <2>3
  <2> QED BY <2>2, <2>4
<1>6. \A k \in Nat : k \in G
  <2> HIDE DEF G
  <2> QED BY <1>4, <1>5, SetInduction
<1>7. mult[n] \in Nat
  BY <1>6
<1> QED BY <1>1, <1>7

(* What is reached from the head of a linked list is the list.             *)
LEMMA FollowList ==
  ASSUME NEW s, NEW first, NEW prev, NEW next, DoublyLinked(first, prev, next, s)
  PROVE  Follow(first, next) = s
BY FollowPath DEF DoublyLinked

(* The elements of a linked list, and what their links lead to.            *)
LEMMA Positions ==
  ASSUME NEW s \in Seq(Elem), IsInjective(s)
  PROVE  /\ Len(s) \in Nat /\ DOMAIN s = 1..Len(s)
         /\ \A k \in 1..Len(s) : s[k] \in Elem /\ s[k] # Null
         /\ \A k : At(s, k) # Null => k \in 1..Len(s) /\ At(s, k) = s[k]
         /\ \A k \in 1..Len(s) : At(s, k) = s[k]
         /\ \A i, j \in 1..Len(s) : s[i] = s[j] => i = j
BY LenProperties, HashAssumption DEF IsInjective, At

(* Links that lead to the same from every element link the same list.      *)
LEMMA LinksKept ==
  ASSUME NEW s, NEW first, NEW prev, NEW next, NEW prev2, NEW next2,
         DoublyLinked(first, prev, next, s),
         \A k \in 1..Len(s) : /\ prev2[s[k]] = prev[s[k]]
                              /\ next2[s[k]] = next[s[k]]
  PROVE  DoublyLinked(first, prev2, next2, s)
BY DEF DoublyLinked

(* HASH_APPEND_LIST: linking an element behind the last one of a list.     *)
LEMMA LinkLast ==
  ASSUME NEW s, NEW first, NEW prev, NEW next, NEW prev2, NEW next2,
         DoublyLinked(first, prev, next, s),
         NEW e \in Elem, ~Contains(s, e),
         prev2[e] = At(s, Len(s)), next2[e] = Null,
         \A x \in Elem \ {e} :
           /\ prev2[x] = prev[x]
           /\ next2[x] = IF x = At(s, Len(s)) THEN e ELSE next[x]
  PROVE  DoublyLinked(IF s = <<>> THEN e ELSE first, prev2, next2, Append(s, e))
<1> DEFINE t == Append(s, e)
<1>1. /\ s \in Seq(Elem) /\ IsInjective(s) /\ first = At(s, 1)
      /\ \A k \in 1..Len(s) : prev[s[k]] = At(s, k - 1) /\ next[s[k]] = At(s, k + 1)
  BY DEF DoublyLinked
<1>2. /\ Len(s) \in Nat
      /\ \A k \in 1..Len(s) : s[k] \in Elem /\ s[k] # Null /\ s[k] # e
      /\ \A k \in 1..Len(s) : At(s, k) = s[k]
      /\ \A i, j \in 1..Len(s) : s[i] = s[j] => i = j
  BY <1>1, Positions DEF Contains
<1>3. /\ t \in Seq(Elem) /\ Len(t) = Len(s) + 1
      /\ \A k \in 1..Len(s) : t[k] = s[k]
      /\ t[Len(s) + 1] = e
  BY <1>1, AppendProperties
<1>4. DOMAIN t = 1..(Len(s) + 1)
  BY <1>3, LenProperties
<1> HIDE DEF t
<1>5. IsInjective(t)
  <2>1. ASSUME NEW i \in 1..(Len(s) + 1), NEW j \in 1..(Len(s) + 1), t[i] = t[j]
        PROVE  i = j
    <3>1. CASE i \in 1..Len(s) /\ j \in 1..Len(s)
      BY <1>2, <1>3, <2>1, <3>1
    <3>2. CASE i = Len(s) + 1 \/ j = Len(s) + 1
      <4>1. \A k \in 1..(Len(s) + 1) : k = Len(s) + 1 \/ k \in 1..Len(s)
        BY <1>2
      <4> QED BY <1>2, <1>3, <2>1, <3>2, <4>1
    <3> QED BY <1>2, <3>1, <3>2
  <2> QED BY <1>4, <2>1 DEF IsInjective
<1>6. (IF s = <<>> THEN e ELSE first) = At(t, 1)
  <2>1. CASE s = <<>>
    BY <1>3, <2>1 DEF At
  <2>2. CASE s # <<>>
    <3>1. 1 \in 1..Len(s)
      BY <1>1, <2>2, EmptySeq
    <3> QED BY <1>1, <1>2, <1>3, <2>2, <3>1 DEF At
  <2> QED BY <2>1, <2>2
<1>7. ASSUME NEW k \in 1..Len(t)
      PROVE  prev2[t[k]] = At(t, k - 1) /\ next2[t[k]] = At(t, k + 1)
  <2>1. CASE k = Len(s) + 1
    <3>1. At(t, k + 1) = Null
      BY <1>2, <1>3, <2>1 DEF At
    <3>2. At(t, k - 1) = At(s, Len(s))
      BY <1>2, <1>3, <2>1 DEF At
    <3> QED BY <1>3, <2>1, <3>1, <3>2
  <2>2. CASE k \in 1..Len(s)
    <3>1. t[k] = s[k] /\ s[k] \in Elem \ {e}
      BY <1>2, <1>3, <2>2
    <3>2. At(t, k - 1) = At(s, k - 1)
      BY <1>2, <1>3, <2>2 DEF At
    <3>3. CASE k = Len(s)
      <4>1. s[k] = At(s, Len(s))
        BY <1>2, <2>2, <3>3
      <4>2. At(t, k + 1) = e
        BY <1>2, <1>3, <3>3 DEF At
      <4> QED BY <1>1, <2>2, <3>1, <3>2, <4>1, <4>2
    <3>4. CASE k # Len(s)
      <4>1. s[k] # At(s, Len(s))
        BY <1>2, <2>2, <3>4
      <4>2. At(t, k + 1) = At(s, k + 1)
        BY <1>2, <1>3, <2>2, <3>4 DEF At
      <4> QED BY <1>1, <2>2, <3>1, <3>2, <4>1, <4>2
    <3> QED BY <3>3, <3>4
  <2> QED BY <1>2, <1>3, <2>1, <2>2
<1> QED BY <1>3, <1>5, <1>6, <1>7 DEF DoublyLinked, t

(* HASH_ADD_TO_BKT: linking an element before the first one of a list.     *)
LEMMA LinkFirst ==
  ASSUME NEW s, NEW first, NEW prev, NEW next, NEW prev2, NEW next2,
         DoublyLinked(first, prev, next, s),
         NEW e \in Elem, ~Contains(s, e),
         prev2[e] = Null, next2[e] = first,
         \A x \in Elem \ {e} :
           /\ next2[x] = next[x]
           /\ prev2[x] = IF x = first THEN e ELSE prev[x]
  PROVE  DoublyLinked(e, prev2, next2, <<e>> \o s)
<1> DEFINE t == <<e>> \o s
<1>1. /\ s \in Seq(Elem) /\ IsInjective(s) /\ first = At(s, 1)
      /\ \A k \in 1..Len(s) : prev[s[k]] = At(s, k - 1) /\ next[s[k]] = At(s, k + 1)
  BY DEF DoublyLinked
<1>2. /\ Len(s) \in Nat
      /\ \A k \in 1..Len(s) : s[k] \in Elem /\ s[k] # Null /\ s[k] # e
      /\ \A k \in 1..Len(s) : At(s, k) = s[k]
      /\ \A i, j \in 1..Len(s) : s[i] = s[j] => i = j
  BY <1>1, Positions DEF Contains
<1>3. /\ t \in Seq(Elem) /\ Len(t) = Len(s) + 1 /\ IsInjective(t)
      /\ t[1] = e
      /\ \A k \in 1..Len(s) : t[k + 1] = s[k]
  BY <1>1, ConsProperties
<1> HIDE DEF t
<1>4. e = At(t, 1)
  BY <1>2, <1>3 DEF At
<1>5. ASSUME NEW k \in 1..Len(t)
      PROVE  prev2[t[k]] = At(t, k - 1) /\ next2[t[k]] = At(t, k + 1)
  <2>1. CASE k = 1
    <3>1. At(t, 0) = Null
      BY DEF At
    <3>2. At(t, 2) = At(s, 1)
      <4>1. CASE 1 \in 1..Len(s)
        BY <1>2, <1>3, <4>1 DEF At
      <4>2. CASE 1 \notin 1..Len(s)
        BY <1>2, <1>3, <4>2 DEF At
      <4> QED BY <4>1, <4>2
    <3> QED BY <1>1, <1>3, <2>1, <3>1, <3>2
  <2>2. CASE k # 1
    <3> DEFINE j == k - 1
    <3>1. j \in 1..Len(s) /\ k = j + 1
      BY <1>2, <1>3, <2>2
    <3> HIDE DEF j
    <3>2. t[k] = s[j] /\ s[j] \in Elem \ {e}
      BY <1>2, <1>3, <3>1
    <3>3. At(t, k + 1) = At(s, j + 1)
      <4>1. CASE j + 1 \in 1..Len(s)
        <5>1. k + 1 \in 1..Len(t) /\ t[(j + 1) + 1] = s[j + 1] /\ (j + 1) + 1 = k + 1
          BY <1>2, <1>3, <3>1, <4>1
        <5> QED BY <4>1, <5>1 DEF At
      <4>2. CASE j + 1 \notin 1..Len(s)
        BY <1>2, <1>3, <3>1, <4>2 DEF At
      <4> QED BY <4>1, <4>2
    <3>4. CASE j = 1
      <4>1. s[j] = first
        BY <1>1, <1>2, <3>1, <3>4
      <4>2. At(t, k - 1) = e
        BY <1>4, <3>1, <3>4
      <4> QED BY <1>1, <3>1, <3>2, <3>3, <4>1, <4>2
    <3>5. CASE j # 1
      <4>1. s[j] # first /\ j - 1 \in 1..Len(s)
        <5>1. 1 \in 1..Len(s) /\ j - 1 \in 1..Len(s)
          BY <1>2, <3>1, <3>5
        <5> QED BY <1>1, <1>2, <3>1, <3>5, <5>1
      <4>2. At(t, k - 1) = At(s, j - 1)
        <5>1. k - 1 \in 1..Len(t) /\ t[(j - 1) + 1] = s[j - 1] /\ (j - 1) + 1 = k - 1
          BY <1>2, <1>3, <3>1, <4>1
        <5> QED BY <4>1, <5>1 DEF At
      <4> QED BY <1>1, <3>1, <3>2, <3>3, <4>1, <4>2
    <3> QED BY <3>4, <3>5
  <2> QED BY <2>1, <2>2
<1> QED BY <1>3, <1>4, <1>5 DEF DoublyLinked, t

(* The links prev2 and next2 lead past e as prev and next lead to it.      *)
Bypass(prev, next, prev2, next2, e) ==
  \A x \in Elem \ {e} :
    /\ next2[x] = IF x = prev[e] THEN next[e] ELSE next[x]
    /\ prev2[x] = IF x = next[e] THEN prev[e] ELSE prev[x]

(* HASH_DELETE: a list without the element whose neighbours were linked to *)
(* each other.                                                             *)
LEMMA Unlink ==
  ASSUME NEW s, NEW first, NEW prev, NEW next, NEW prev2, NEW next2,
         DoublyLinked(first, prev, next, s),
         NEW i \in 1..Len(s), Bypass(prev, next, prev2, next2, s[i])
  PROVE  DoublyLinked(IF first = s[i] THEN next[s[i]] ELSE first, prev2, next2,
                      RemoveAt(s, i))
<1> DEFINE t == RemoveAt(s, i)
           n == Len(s) - 1
<1>1. /\ s \in Seq(Elem) /\ IsInjective(s) /\ first = At(s, 1)
      /\ \A k \in 1..Len(s) : prev[s[k]] = At(s, k - 1) /\ next[s[k]] = At(s, k + 1)
  BY DEF DoublyLinked
<1>2. /\ Len(s) \in Nat
      /\ \A k \in 1..Len(s) : s[k] \in Elem /\ s[k] # Null
      /\ \A k \in 1..Len(s) : At(s, k) = s[k]
      /\ \A j, k \in 1..Len(s) : s[j] = s[k] => j = k
      /\ \A k : k \notin 1..Len(s) => At(s, k) = Null
  BY <1>1, Positions DEF At
<1>3. /\ t \in Seq(Elem) /\ Len(t) = n
      /\ \A j \in 1..n : t[j] = IF j < i THEN s[j] ELSE s[j + 1]
  BY <1>1, RemoveAtProperties
<1>4. DOMAIN t = 1..n
  BY <1>3, LenProperties
<1> HIDE DEF t
<1>5. IsInjective(t)
  <2>1. ASSUME NEW j \in 1..n, NEW k \in 1..n, t[j] = t[k]
        PROVE  j = k
    <3> DEFINE p(l) == IF l < i THEN l ELSE l + 1
    <3>1. \A l \in 1..n : p(l) \in 1..Len(s) /\ t[l] = s[p(l)]
      BY <1>2, <1>3
    <3>2. p(j) = p(k)
      BY <1>2, <2>1, <3>1
    <3> QED BY <3>2
  <2> QED BY <1>4, <2>1 DEF IsInjective
<1>6. (IF first = s[i] THEN next[s[i]] ELSE first) = At(t, 1)
  <2>1. 1 \in 1..Len(s) /\ first = s[1]
    BY <1>1, <1>2
  <2>2. CASE i = 1
    <3>1. next[s[i]] = At(s, 2)
      BY <1>1, <2>2
    <3>2. At(t, 1) = At(s, 2)
      BY <1>2, <1>3, <2>2 DEF At
    <3> QED BY <2>1, <2>2, <3>1, <3>2
  <2>3. CASE i # 1
    <3>1. first # s[i]
      BY <1>2, <2>1, <2>3
    <3>2. At(t, 1) = s[1]
      BY <1>2, <1>3, <2>3 DEF At
    <3> QED BY <2>1, <3>1, <3>2
  <2> QED BY <2>2, <2>3
<1>7. ASSUME NEW k \in 1..Len(t)
      PROVE  prev2[t[k]] = At(t, k - 1) /\ next2[t[k]] = At(t, k + 1)
  <2> DEFINE p == IF k < i THEN k ELSE k + 1
  <2>1. p \in 1..Len(s) /\ p # i /\ t[k] = s[p]
    BY <1>2, <1>3
  <2>2. s[p] \in Elem \ {s[i]}
    BY <1>2, <2>1
  <2>3. /\ prev[s[p]] = At(s, p - 1) /\ next[s[p]] = At(s, p + 1)
        /\ prev[s[i]] = At(s, i - 1) /\ next[s[i]] = At(s, i + 1)
    BY <1>1, <2>1
  <2>4. /\ s[p] = At(s, i - 1) <=> p = i - 1
        /\ s[p] = At(s, i + 1) <=> p = i + 1
    <3>1. ASSUME NEW j \in Int
          PROVE  s[p] = At(s, j) <=> p = j
      BY <1>2, <2>1
    <3> QED BY <3>1
  <2>5. next2[s[p]] = IF p = i - 1 THEN At(s, i + 1) ELSE At(s, p + 1)
    BY <2>2, <2>3, <2>4 DEF Bypass
  <2>6. prev2[s[p]] = IF p = i + 1 THEN At(s, i - 1) ELSE At(s, p - 1)
    BY <2>2, <2>3, <2>4 DEF Bypass
  <2>7. ASSUME NEW j \in Int
        PROVE  At(t, j) = IF j < i THEN At(s, j) ELSE At(s, j + 1)
    <3>1. CASE j \in 1..n
      <4>1. j \in 1..Len(s) /\ j + 1 \in 1..Len(s)
        BY <1>2, <3>1
      <4> QED BY <1>2, <1>3, <3>1, <4>1 DEF At
    <3>2. CASE j \notin 1..n
      <4>1. IF j < i THEN j \notin 1..Len(s) ELSE j + 1 \notin 1..Len(s)
        BY <1>2, <3>2
      <4> QED BY <1>2, <1>3, <3>2, <4>1 DEF At
    <3> QED BY <3>1, <3>2
  <2>8. k - 1 \in Int /\ k + 1 \in Int /\ k \in Int /\ i \in Int
    BY <1>2
  <2>9. next2[s[p]] = At(t, k + 1)
    <3>1. At(t, k + 1) = IF k + 1 < i THEN At(s, k + 1) ELSE At(s, (k + 1) + 1)
      BY <2>7, <2>8
    <3>2. CASE k + 1 < i
      <4>1. p = k /\ p # i - 1
        BY <2>8, <3>2
      <4> QED BY <2>5, <3>1, <3>2, <4>1
    <3>3. CASE k + 1 = i
      <4>1. p = k /\ p = i - 1 /\ (k + 1) + 1 = i + 1 /\ ~(k + 1 < i)
        BY <2>8, <3>3
      <4> QED BY <2>5, <3>1, <4>1
    <3>4. CASE k + 1 > i
      <4>1. p = k + 1 /\ p # i - 1 /\ (k + 1) + 1 = p + 1 /\ ~(k + 1 < i)
        BY <2>8, <3>4
      <4> QED BY <2>5, <3>1, <4>1
    <3> QED BY <2>8, <3>2, <3>3, <3>4
  <2>10. prev2[s[p]] = At(t, k - 1)
    <3>1. At(t, k - 1) = IF k - 1 < i THEN At(s, k - 1) ELSE At(s, (k - 1) + 1)
      BY <2>7, <2>8
    <3>2. CASE k < i
      <4>1. p = k /\ p # i + 1 /\ k - 1 < i
        BY <2>8, <3>2
      <4> QED BY <2>6, <3>1, <4>1
    <3>3. CASE k = i
      <4>1. p = i + 1 /\ k - 1 < i /\ k - 1 = i - 1
        BY <2>8, <3>3
      <4> QED BY <2>6, <3>1, <4>1
    <3>4. CASE k > i
      <4>1. p = k + 1 /\ p # i + 1 /\ (k - 1) + 1 = p - 1 /\ ~(k - 1 < i)
        BY <2>8, <3>4
      <4> QED BY <2>6, <3>1, <4>1
    <3> QED BY <2>8, <3>2, <3>3, <3>4
  <2> QED BY <2>1, <2>9, <2>10
<1> QED BY <1>3, <1>5, <1>6, <1>7 DEF DoublyLinked, t

(* A hash value has a bucket.                                              *)
LEMMA Bucket ==
  ASSUME NEW v \in Nat, NEW n \in Nat \ {0}
  PROVE  HASH_TO_BKT(v, n) \in 0..(n - 1)
BY DEF HASH_TO_BKT

(* The order of the application is the list that its links make.           *)
LEMMA OrderIs ==
  ASSUME NEW o, ListLinked(head, hh, o)
  PROVE  Order = o
BY FollowList DEF ListLinked, Order

(* The chain of a bucket is the list that its links make.                  *)
LEMMA ChainIs ==
  ASSUME NEW t, NEW h, NEW b, NEW c, ChainLinked(t.buckets[b], h, c)
  PROVE  Chain(t, h, b) = c
BY FollowList DEF ChainLinked, Chain

(* A table whose members were replaced.                                    *)
With(t, items, tail, buckets) ==
  [t EXCEPT !.num_items = items, !.tail = tail, !.buckets = buckets]

(* What the members of such a table are.                                   *)
LEMMA Updated ==
  ASSUME NEW n, NEW t \in UT_hash_table(n),
         NEW items \in Nat, NEW tail,
         NEW buckets \in [0..(n - 1) -> UT_hash_bucket],
         NEW u, u = With(t, items, tail, buckets)
  PROVE  /\ tail \in Elem => u \in UT_hash_table(n)
         /\ u.num_buckets = n /\ u.num_items = items /\ u.tail = tail
         /\ u.buckets = buckets
<1> DEFINE R(b, i, l) == [buckets |-> b, num_buckets |-> n, num_items |-> i,
                          tail |-> l, ineff_expands |-> t.ineff_expands,
                          noexpand |-> t.noexpand]
           t1 == [t EXCEPT !.num_items = items]
           t2 == [t1 EXCEPT !.tail = tail]
           t3 == [t2 EXCEPT !.buckets = buckets]
<1>1. /\ t = R(t.buckets, t.num_items, t.tail)
      /\ t.ineff_expands \in Nat /\ t.noexpand \in BOOLEAN /\ t.num_buckets = n
  BY DEF UT_hash_table
<1>2. t1 = R(t.buckets, items, t.tail)
  BY <1>1
<1> HIDE DEF t1
<1>3. t2 = R(t.buckets, items, tail)
  BY <1>2
<1> HIDE DEF t2
<1>4. t3 = R(buckets, items, tail)
  BY <1>3
<1>5. u = t3
  BY Zenon DEF t1, t2, With
<1> HIDE DEF t3
<1> QED BY <1>1, <1>4, <1>5 DEF UT_hash_table

Family(t) == [0..(t.num_buckets - 1) -> Seq(Elem)]

(* A hash with an element more is whole again, before any expansion.       *)
LEMMA Added ==
  ASSUME NEW t, NEW o, NEW chain \in Family(t), Woven(head, t, hh, o, chain),
         NEW e \in Elem, ~Contains(o, e), NEW v \in Nat, NEW b,
         b = HASH_TO_BKT(v, t.num_buckets)
  PROVE  Woven(IF head = Null THEN e ELSE head, Counted(t, e, b), Linked(t, e, v),
               Append(o, e), [chain EXCEPT ![b] = <<e>> \o @])
<1> DEFINE n == t.num_buckets
           h2 == Linked(t, e, v)
           t2 == Counted(t, e, b)
           o2 == Append(o, e)
           last == IF head = Null THEN Null ELSE t.tail
           first == t.buckets[b].hh_head
           chain2 == [chain EXCEPT ![b] = <<e>> \o @]
<1>1. /\ hh \in [Elem -> UT_hash_handle] /\ n \in Nat \ {0} /\ t \in UT_hash_table(n)
      /\ t.num_items = Len(o) /\ (o # <<>> => t.tail = Last(o))
      /\ o \in Seq(Elem) /\ IsInjective(o) /\ head = At(o, 1)
      /\ \A c \in 0..(n - 1) : ChainLinked(t.buckets[c], hh, chain[c])
  BY DEF Woven, ListLinked, DoublyLinked
<1>2. b \in 0..(n - 1)
  BY <1>1, Bucket
<1>3. /\ Len(o) \in Nat /\ (o = <<>> <=> Len(o) = 0)
      /\ \A k \in 1..Len(o) : o[k] \in Elem /\ o[k] # Null
  BY <1>1, Positions, EmptySeq
<1>4. /\ head = Null <=> o = <<>>
      /\ last = At(o, Len(o)) /\ last \in Elem \cup {Null} /\ last # e
  BY <1>1, <1>3, HashAssumption DEF At, Last, Contains
<1>5. /\ t \in [buckets : [0..(n - 1) -> UT_hash_bucket], num_buckets : {n},
                num_items : Nat, tail : Elem, ineff_expands : Nat,
                noexpand : BOOLEAN]
      /\ t.buckets[b] \in UT_hash_bucket /\ first \in Elem \cup {Null}
  BY <1>1, <1>2 DEF UT_hash_table, UT_hash_bucket
<1>6. ASSUME NEW c \in 0..(n - 1)
      PROVE  /\ chain[c] \in Seq(Elem) /\ IsInjective(chain[c])
             /\ t.buckets[c].hh_head = At(chain[c], 1)
             /\ t.buckets[c].count = Len(chain[c])
             /\ \A x \in Elem : Contains(chain[c], x)
                  <=> Contains(o, x) /\ HASH_TO_BKT(hh[x].hashv, n) = c
             /\ ~Contains(chain[c], e)
  BY <1>1 DEF ChainLinked, DoublyLinked, Woven, Placed
<1>7. /\ h2[e] = [prev |-> last, next |-> Null, hh_prev |-> Null,
                  hh_next |-> first, hashv |-> v]
      /\ \A x \in Elem \ {e} :
           /\ h2[x].prev = hh[x].prev
           /\ h2[x].next = IF x = last THEN e ELSE hh[x].next
           /\ h2[x].hh_prev = IF x = first THEN e ELSE hh[x].hh_prev
           /\ h2[x].hh_next = hh[x].hh_next
           /\ h2[x].hashv = hh[x].hashv
  <2>1. h2[e] = [prev |-> last, next |-> Null, hh_prev |-> Null,
                 hh_next |-> first, hashv |-> v]
    BY DEF Linked
  <2>2. ASSUME NEW x \in Elem \ {e}
        PROVE  /\ h2[x].prev = hh[x].prev
               /\ h2[x].next = IF x = last THEN e ELSE hh[x].next
               /\ h2[x].hh_prev = IF x = first THEN e ELSE hh[x].hh_prev
               /\ h2[x].hh_next = hh[x].hh_next
               /\ h2[x].hashv = hh[x].hashv
    <3>1. hh[x] \in UT_hash_handle
      BY <1>1
    <3>2. h2[x] = [hh[x] EXCEPT !.next = IF x = last THEN e ELSE @,
                                !.hh_prev = IF x = first THEN e ELSE @]
      BY DEF Linked
    <3> HIDE DEF h2, last, first
    <3> QED BY <3>1, <3>2 DEF UT_hash_handle
  <2> HIDE DEF h2, last, first
  <2> QED BY <2>1, <2>2
<1>8. h2 \in [Elem -> UT_hash_handle]
  <2> DEFINE z(x) == IF x = e THEN [prev |-> last, next |-> Null, hh_prev |-> Null,
                                    hh_next |-> first, hashv |-> v]
                     ELSE [hh[x] EXCEPT !.next = IF x = last THEN e ELSE @,
                                        !.hh_prev = IF x = first THEN e ELSE @]
  <2>1. h2 = [x \in Elem |-> z(x)]
    BY Zenon DEF Linked
  <2>2. ASSUME NEW x \in Elem PROVE z(x) \in UT_hash_handle
    <3>1. hh[x] \in UT_hash_handle
      BY <1>1
    <3>2. last \in Elem \cup {Null} /\ first \in Elem \cup {Null}
      BY <1>4, <1>5
    <3> HIDE DEF last, first
    <3> QED BY <3>1, <3>2 DEF UT_hash_handle
  <2> HIDE DEF z, h2
  <2> QED BY <2>1, <2>2
<1>9. /\ t2.num_buckets = n /\ t2 \in UT_hash_table(n)
      /\ t2.num_items = Len(o) + 1 /\ t2.tail = e
      /\ t2.buckets[b].hh_head = e
      /\ t2.buckets[b].count = Len(chain[b]) + 1
      /\ \A c \in 0..(n - 1) \ {b} : t2.buckets[c] = t.buckets[c]
  <2> DEFINE bkt == [hh_head |-> e, count |-> t.buckets[b].count + 1,
                     expand_mult |-> t.buckets[b].expand_mult]
             bkts == [t.buckets EXCEPT ![b] = bkt]
  <2>1. t2 = With(t, t.num_items + 1, e, bkts)
    BY Zenon DEF Counted, With
  <2>2. bkt \in UT_hash_bucket /\ bkt.hh_head = e /\ bkt.count = Len(chain[b]) + 1
    <3> DEFINE m == t.buckets[b].count
               l == t.buckets[b].expand_mult
    <3>1. m \in Nat /\ l \in Nat /\ m = Len(chain[b])
      BY <1>2, <1>5, <1>6 DEF UT_hash_bucket
    <3> HIDE DEF m, l
    <3>2. bkt = [hh_head |-> e, count |-> m + 1, expand_mult |-> l]
      BY DEF m, l
    <3> HIDE DEF bkt
    <3> QED BY <3>1, <3>2 DEF UT_hash_bucket
  <2> HIDE DEF bkt
  <2>3. /\ bkts \in [0..(n - 1) -> UT_hash_bucket] /\ bkts[b] = bkt
        /\ \A c \in 0..(n - 1) \ {b} : bkts[c] = t.buckets[c]
    BY <1>2, <1>5, <2>2
  <2>4. t.num_items + 1 \in Nat
    BY <1>5
  <2> HIDE DEF bkts, t2
  <2>5. /\ t2 \in UT_hash_table(n) /\ t2.num_buckets = n
        /\ t2.num_items = t.num_items + 1 /\ t2.tail = e /\ t2.buckets = bkts
    <3>1. t \in UT_hash_table(n)
      BY <1>1
    <3>2. t.num_items + 1 \in Nat
      BY <2>4
    <3>3. bkts \in [0..(n-1) -> UT_hash_bucket]
      BY <2>3
    <3> DEFINE m == t.num_items + 1
    <3> HIDE DEF m, n
    <3>4. t2 \in UT_hash_table(n) /\ t2.num_buckets = n
        /\ t2.num_items = m /\ t2.tail = e /\ t2.buckets = bkts
      BY <3>1, <3>2, <3>3, <2>1, Updated DEF m
    <3> QED BY <3>4 DEF m, n
  <2> QED BY <1>1, <2>2, <2>3, <2>5
<1>10. /\ o2 \in Seq(Elem) /\ Len(o2) = Len(o) + 1 /\ Last(o2) = e
  BY <1>1, <1>3, AppendProperties DEF Last
<1> HIDE DEF h2, t2, o2
<1>11. ListLinked(IF head = Null THEN e ELSE head, h2, o2)
  <2> DEFINE prev == [x \in Elem |-> hh[x].prev]
             next == [x \in Elem |-> hh[x].next]
             prev2 == [x \in Elem |-> h2[x].prev]
             next2 == [x \in Elem |-> h2[x].next]
  <2>1. DoublyLinked(head, prev, next, o)
    BY DEF Woven, ListLinked
  <2>2. /\ prev2[e] = At(o, Len(o)) /\ next2[e] = Null
        /\ \A x \in Elem \ {e} :
             /\ prev2[x] = prev[x]
             /\ next2[x] = IF x = At(o, Len(o)) THEN e ELSE next[x]
    BY <1>4, <1>7
  <2> HIDE DEF prev, next, prev2, next2
  <2>3. DoublyLinked(IF o = <<>> THEN e ELSE head, prev2, next2, o2)
    BY <2>1, <2>2, LinkLast DEF o2
  <2> QED BY <1>4, <2>3 DEF ListLinked, prev2, next2
<1>12. ASSUME NEW c \in 0..(n - 1)
       PROVE  ChainLinked(t2.buckets[c], h2, chain2[c])
  <2> DEFINE prev == [x \in Elem |-> hh[x].hh_prev]
             next == [x \in Elem |-> hh[x].hh_next]
             prev2 == [x \in Elem |-> h2[x].hh_prev]
             next2 == [x \in Elem |-> h2[x].hh_next]
  <2>1. DoublyLinked(t.buckets[c].hh_head, prev, next, chain[c])
    BY <1>1 DEF ChainLinked
  <2>2. /\ prev2[e] = Null /\ next2[e] = first
        /\ \A x \in Elem \ {e} :
             /\ next2[x] = next[x]
             /\ prev2[x] = IF x = first THEN e ELSE prev[x]
    BY <1>7
  <2> HIDE DEF prev, next, prev2, next2
  <2>3. CASE c = b
    <3>1. chain2[c] = <<e>> \o chain[b]
      BY <1>2, <2>3 DEF Family
    <3>2. DoublyLinked(e, prev2, next2, <<e>> \o chain[b])
      BY <1>6, <2>1, <2>2, <2>3, LinkFirst
    <3>3. Len(<<e>> \o chain[b]) = Len(chain[b]) + 1
      BY <1>2, <1>6, ConsProperties
    <3> HIDE DEF chain2
    <3> QED BY <1>9, <2>3, <3>1, <3>2, <3>3 DEF ChainLinked, prev2, next2
  <2>4. CASE c # b
    <3>1. chain2[c] = chain[c] /\ t2.buckets[c] = t.buckets[c]
      BY <1>9, <2>4
    <3>2. ASSUME NEW k \in 1..Len(chain[c])
          PROVE  /\ prev2[chain[c][k]] = prev[chain[c][k]]
                 /\ next2[chain[c][k]] = next[chain[c][k]]
      <4> DEFINE x == chain[c][k]
      <4>1. x \in Elem /\ Contains(chain[c], x) /\ x # Null
        BY <1>6, Positions DEF Contains
      <4>2. x # e
        BY <1>6, <4>1
      <4>3. x # first
        <5>1. SUFFICES ASSUME x = first PROVE FALSE
          OBVIOUS
        <5>2. first = chain[b][1] /\ 1 \in 1..Len(chain[b])
          BY <1>2, <1>6, <4>1, <5>1 DEF At
        <5>3. Contains(chain[b], x)
          BY <5>1, <5>2 DEF Contains
        <5> HIDE DEF x
        <5> QED BY <1>2, <1>6, <2>4, <4>1, <5>3
      <4> HIDE DEF x
      <4>4. prev2[x] = prev[x] /\ next2[x] = next[x]
        BY <2>2, <4>1, <4>2, <4>3
      <4> QED BY <4>4 DEF x
    <3>3. DoublyLinked(t.buckets[c].hh_head, prev2, next2, chain[c])
      BY <2>1, <3>2, LinksKept
    <3> HIDE DEF chain2
    <3> QED BY <1>6, <3>1, <3>3 DEF ChainLinked, prev2, next2
  <2> QED BY <2>3, <2>4
<1>13. Placed(n, h2, o2, chain2)
  <2> SUFFICES ASSUME NEW c \in 0..(n - 1), NEW x \in Elem
               PROVE  Contains(chain2[c], x)
                        <=> Contains(o2, x) /\ HASH_TO_BKT(h2[x].hashv, n) = c
    BY DEF Placed
  <2>1. Contains(o2, x) <=> Contains(o, x) \/ x = e
    BY <1>1, AppendHolds DEF o2
  <2>2. Contains(chain2[c], x) <=> Contains(chain[c], x) \/ (x = e /\ c = b)
    <3>1. CASE c = b
      <4>1. chain2[c] = <<e>> \o chain[b]
        BY <1>2, <3>1 DEF Family
      <4>2. Contains(<<e>> \o chain[b], x) <=> x = e \/ Contains(chain[b], x)
        BY <1>2, <1>6, ConsProperties
      <4> HIDE DEF chain2
      <4> QED BY <3>1, <4>1, <4>2
    <3>2. CASE c # b
      <4>1. chain2[c] = chain[c]
        BY <3>2
      <4> QED BY <3>2, <4>1
    <3> QED BY <3>1, <3>2
  <2> HIDE DEF chain2
  <2>3. CASE x = e
    BY <1>6, <1>7, <2>1, <2>2, <2>3
  <2>4. CASE x # e
    BY <1>6, <1>7, <2>1, <2>2, <2>4
  <2> QED BY <2>3, <2>4
<1>14. o2 # <<>>
  BY <1>3, <1>10, EmptySeq
<1> HIDE DEF chain2
<1>15. Woven(IF head = Null THEN e ELSE head, t2, h2, o2, chain2)
  BY <1>1, <1>8, <1>9, <1>10, <1>11, <1>12, <1>13, <1>14 DEF Woven
<1> QED BY <1>15 DEF h2, t2, o2, chain2

(* A table that was just made has no element.                              *)
LEMMA Made ==
  ASSUME head = Null, hh \in [Elem -> UT_hash_handle], NEW e \in Elem
  PROVE  LET t == HASH_MAKE_TABLE(e)
             chain == [b \in 0..(HASH_INITIAL_NUM_BUCKETS - 1) |-> <<>>]
         IN  Woven(head, t, hh, <<>>, chain) /\ chain \in Family(t)
<1> DEFINE t == HASH_MAKE_TABLE(e)
           n == HASH_INITIAL_NUM_BUCKETS
           chain == [b \in 0..(n - 1) |-> <<>>]
<1>1. n \in Nat \ {0}
  BY HashAssumption
<1>2. /\ t.num_buckets = n /\ t.num_items = 0
      /\ \A b \in 0..(n - 1) :
           t.buckets[b].hh_head = Null /\ t.buckets[b].count = 0
  BY DEF HASH_MAKE_TABLE, EmptyBucket
<1>3. t \in UT_hash_table(n)
  <2>1. EmptyBucket \in UT_hash_bucket
    BY DEF EmptyBucket, UT_hash_bucket
  <2> QED BY <2>1 DEF HASH_MAKE_TABLE, UT_hash_table
<1> HIDE DEF t, n
<1>4. /\ <<>> \in Seq(Elem) /\ Len(<<>>) = 0 /\ IsInjective(<<>>)
      /\ \A k : At(<<>>, k) = Null
      /\ \A x : ~Contains(<<>>, x)
  BY EmptySeq DEF IsInjective, At, Contains
<1>5. ListLinked(head, hh, <<>>)
  BY <1>4 DEF ListLinked, DoublyLinked
<1>6. ASSUME NEW b \in 0..(n - 1)
      PROVE  ChainLinked(t.buckets[b], hh, chain[b])
  <2>1. DoublyLinked(Null, [x \in Elem |-> hh[x].hh_prev],
                     [x \in Elem |-> hh[x].hh_next], <<>>)
    BY <1>4 DEF DoublyLinked
  <2> QED BY <1>2, <1>4, <2>1 DEF ChainLinked
<1>7. Placed(n, hh, <<>>, chain)
  BY <1>4 DEF Placed
<1>8. chain \in Family(t)
  BY <1>2, <1>4 DEF Family
<1> HIDE DEF chain
<1>9. Woven(head, t, hh, <<>>, chain)
  BY <1>1, <1>2, <1>3, <1>4, <1>5, <1>6, <1>7 DEF Woven
<1> QED BY <1>8, <1>9 DEF t, chain, n

(* The handles after the links of e were led past it.                      *)
LEMMA UnlinkedLinks ==
  ASSUME hh \in [Elem -> UT_hash_handle], NEW e \in Elem
  PROVE  /\ Unlinked(e) \in [Elem -> UT_hash_handle]
         /\ \A x \in Elem \ {e} :
              /\ Unlinked(e)[x].next = IF x = hh[e].prev THEN hh[e].next ELSE hh[x].next
              /\ Unlinked(e)[x].prev = IF x = hh[e].next THEN hh[e].prev ELSE hh[x].prev
              /\ Unlinked(e)[x].hh_next
                   = IF x = hh[e].hh_prev THEN hh[e].hh_next ELSE hh[x].hh_next
              /\ Unlinked(e)[x].hh_prev
                   = IF x = hh[e].hh_next THEN hh[e].hh_prev ELSE hh[x].hh_prev
              /\ Unlinked(e)[x].hashv = hh[x].hashv
<1> DEFINE h2 == Unlinked(e)
<1>0. /\ hh[e] \in UT_hash_handle
      /\ hh[e].prev \in Elem \cup {Null} /\ hh[e].next \in Elem \cup {Null}
      /\ hh[e].hh_prev \in Elem \cup {Null} /\ hh[e].hh_next \in Elem \cup {Null}
  BY DEF UT_hash_handle
<1> DEFINE z(x) ==
      [next |-> IF x = hh[e].prev THEN hh[e].next ELSE hh[x].next,
       prev |-> IF x = hh[e].next THEN hh[e].prev ELSE hh[x].prev,
       hh_next |-> IF x = hh[e].hh_prev THEN hh[e].hh_next ELSE hh[x].hh_next,
       hh_prev |-> IF x = hh[e].hh_next THEN hh[e].hh_prev ELSE hh[x].hh_prev,
       hashv |-> hh[x].hashv]
<1>1. h2 = [x \in Elem |-> IF x = e THEN Freed ELSE z(x)]
  BY DEF Unlinked
<1>2. ASSUME NEW x \in Elem
      PROVE  z(x) \in UT_hash_handle
  <2>1. hh[x] \in UT_hash_handle
    OBVIOUS
  <2> QED BY <1>0, <2>1 DEF UT_hash_handle
<1>3. Freed \in UT_hash_handle
  BY DEF Freed, UT_hash_handle
<1>4. h2 \in [Elem -> UT_hash_handle]
  <2> HIDE DEF z, h2
  <2> QED BY <1>1, <1>2, <1>3
<1>5. \A x \in Elem \ {e} : h2[x] = z(x)
  <2> HIDE DEF z, h2
  <2> QED BY <1>1
<1>6. ASSUME NEW x \in Elem \ {e}
      PROVE  /\ h2[x].next = IF x = hh[e].prev THEN hh[e].next ELSE hh[x].next
             /\ h2[x].prev = IF x = hh[e].next THEN hh[e].prev ELSE hh[x].prev
             /\ h2[x].hh_next = IF x = hh[e].hh_prev THEN hh[e].hh_next ELSE hh[x].hh_next
             /\ h2[x].hh_prev = IF x = hh[e].hh_next THEN hh[e].hh_prev ELSE hh[x].hh_prev
             /\ h2[x].hashv = hh[x].hashv
  <2> HIDE DEF h2
  <2>1. h2[x] = z(x)
    BY <1>5
  <2> QED BY <2>1
<1> HIDE DEF h2, z
<1>7. /\ h2 \in [Elem -> UT_hash_handle]
      /\ \A x \in Elem \ {e} :
           /\ h2[x].next = IF x = hh[e].prev THEN hh[e].next ELSE hh[x].next
           /\ h2[x].prev = IF x = hh[e].next THEN hh[e].prev ELSE hh[x].prev
           /\ h2[x].hh_next = IF x = hh[e].hh_prev THEN hh[e].hh_next ELSE hh[x].hh_next
           /\ h2[x].hh_prev = IF x = hh[e].hh_next THEN hh[e].hh_prev ELSE hh[x].hh_prev
           /\ h2[x].hashv = hh[x].hashv
  BY <1>4, <1>6
<1> QED BY <1>7 DEF h2

(* t2 is the table t after e, of bucket b, was taken out of it.            *)
Lessened(t, t2, h, e, b) ==
  LET tail == IF t.tail = e THEN h[e].prev ELSE t.tail
      n == t.num_buckets
  IN  /\ t2.num_buckets = n /\ t2.num_items = t.num_items - 1 /\ t2.tail = tail
      /\ tail \in Elem => t2 \in UT_hash_table(n)
      /\ t2.buckets[b].hh_head = (IF t.buckets[b].hh_head = e THEN h[e].hh_next
                                  ELSE t.buckets[b].hh_head)
      /\ t2.buckets[b].count = t.buckets[b].count - 1
      /\ \A c \in 0..(n - 1) \ {b} : t2.buckets[c] = t.buckets[c]

(* An element that is not the only one leaves both its lists whole.        *)
LEMMA Removed ==
  ASSUME NEW o, NEW chain \in Family(tbl), Woven(head, tbl, hh, o, chain),
         Len(o) # 1, NEW k \in 1..Len(o), NEW e, e = o[k],
         NEW b, b = HASH_TO_BKT(hh[e].hashv, tbl.num_buckets),
         NEW i \in 1..Len(chain[b]), chain[b][i] = e,
         NEW t2, Lessened(tbl, t2, hh, e, b)
  PROVE  Woven(IF hh[e].prev = Null THEN hh[e].next ELSE head, t2, Unlinked(e),
               RemoveAt(o, k), [chain EXCEPT ![b] = RemoveAt(@, i)])
<1> DEFINE n == tbl.num_buckets
           h2 == Unlinked(e)
           o2 == RemoveAt(o, k)
           cb == chain[b]
           tail == IF tbl.tail = e THEN hh[e].prev ELSE tbl.tail
           c2 == RemoveAt(cb, i)
           chain2 == [chain EXCEPT ![b] = c2]
<1>1. /\ hh \in [Elem -> UT_hash_handle] /\ n \in Nat \ {0} /\ tbl \in UT_hash_table(n)
      /\ tbl.num_items = Len(o) /\ (o # <<>> => tbl.tail = Last(o))
      /\ o \in Seq(Elem) /\ IsInjective(o) /\ head = At(o, 1)
      /\ \A x \in 1..Len(o) : /\ hh[o[x]].prev = At(o, x - 1)
                              /\ hh[o[x]].next = At(o, x + 1)
      /\ \A c \in 0..(n - 1) : ChainLinked(tbl.buckets[c], hh, chain[c])
  <2>1. o \in Seq(Elem) /\ \A x \in 1..Len(o) : o[x] \in Elem
    BY ElementOfSeq DEF Woven, ListLinked, DoublyLinked
  <2> QED BY <2>1 DEF Woven, ListLinked, DoublyLinked
<1>2. /\ Len(o) \in Nat /\ Len(o) >= 2 /\ o # <<>>
      /\ \A x \in 1..Len(o) : o[x] \in Elem /\ o[x] # Null
      /\ \A x \in 1..Len(o) : At(o, x) = o[x]
      /\ \A x, y \in 1..Len(o) : o[x] = o[y] => x = y
      /\ e \in Elem /\ Contains(o, e)
  <2>1. /\ Len(o) \in Nat
        /\ \A x \in 1..Len(o) : o[x] \in Elem /\ o[x] # Null
        /\ \A x \in 1..Len(o) : At(o, x) = o[x]
        /\ \A x, y \in 1..Len(o) : o[x] = o[y] => x = y
    BY <1>1, Positions
  <2>2. Len(o) >= 2
    <3> DEFINE m == Len(o)
    <3>1. m \in Nat /\ k \in 1..m /\ m # 1
      BY <2>1
    <3> HIDE DEF m
    <3>2. m >= 2
      BY ONLY <3>1
    <3> QED BY <3>2 DEF m
  <2> QED BY <1>1, <2>1, <2>2, EmptySeq DEF Contains
<1>3. b \in 0..(n - 1)
  <2>1. hh[e].hashv \in Nat
    BY <1>1, <1>2 DEF UT_hash_handle
  <2> QED BY <1>1, <2>1, Bucket
<1>4. ASSUME NEW c \in 0..(n - 1)
      PROVE  /\ chain[c] \in Seq(Elem) /\ IsInjective(chain[c])
             /\ DoublyLinked(tbl.buckets[c].hh_head, [x \in Elem |-> hh[x].hh_prev],
                             [x \in Elem |-> hh[x].hh_next], chain[c])
             /\ tbl.buckets[c].count = Len(chain[c])
             /\ \A x \in Elem : Contains(chain[c], x)
                  <=> Contains(o, x) /\ HASH_TO_BKT(hh[x].hashv, n) = c
  BY <1>1 DEF ChainLinked, DoublyLinked, Woven, Placed
<1>5. /\ hh[e].hh_prev = At(cb, i - 1)
      /\ hh[e].hh_next = At(cb, i + 1)
      /\ cb \in Seq(Elem) /\ IsInjective(cb) /\ Len(cb) \in Nat
      /\ i \in 1..Len(cb) /\ cb[i] = e
      /\ tbl.buckets[b].count = Len(cb)
  <2>1. /\ cb \in Seq(Elem) /\ IsInjective(cb) /\ Len(cb) \in Nat
        /\ i \in 1..Len(cb) /\ cb[i] = e /\ tbl.buckets[b].count = Len(cb)
    BY <1>3, <1>4, LenProperties
  <2> DEFINE prev == [x \in Elem |-> hh[x].hh_prev]
             next == [x \in Elem |-> hh[x].hh_next]
  <2>2. DoublyLinked(tbl.buckets[b].hh_head, prev, next, cb)
    BY <1>3, <1>4
  <2>3. prev[e] = hh[e].hh_prev /\ next[e] = hh[e].hh_next
    BY <1>2
  <2> HIDE DEF prev, next, cb
  <2>4. prev[cb[i]] = At(cb, i - 1) /\ next[cb[i]] = At(cb, i + 1)
    BY <2>1, <2>2 DEF DoublyLinked
  <2> QED BY <2>1, <2>3, <2>4
<1> HIDE DEF cb
<1>6. hh[e].prev = At(o, k - 1) /\ hh[e].next = At(o, k + 1)
  BY <1>1
<1>7. \A s \in Seq(Elem) : \A x : At(s, x) \in Elem \cup {Null}
  BY ElementOfSeq DEF At
<1>8. /\ hh[e] \in UT_hash_handle
      /\ hh[e].prev \in Elem \cup {Null} /\ hh[e].next \in Elem \cup {Null}
      /\ hh[e].hh_prev \in Elem \cup {Null} /\ hh[e].hh_next \in Elem \cup {Null}
  BY <1>1, <1>2 DEF UT_hash_handle
<1>9. /\ h2 \in [Elem -> UT_hash_handle]
      /\ \A x \in Elem \ {e} :
           /\ h2[x].next = IF x = hh[e].prev THEN hh[e].next ELSE hh[x].next
           /\ h2[x].prev = IF x = hh[e].next THEN hh[e].prev ELSE hh[x].prev
           /\ h2[x].hh_next = IF x = hh[e].hh_prev THEN hh[e].hh_next ELSE hh[x].hh_next
           /\ h2[x].hh_prev = IF x = hh[e].hh_next THEN hh[e].hh_prev ELSE hh[x].hh_prev
           /\ h2[x].hashv = hh[x].hashv
  BY <1>1, <1>2, UnlinkedLinks
<1>10. /\ o2 \in Seq(Elem) /\ Len(o2) = Len(o) - 1 /\ o2 # <<>>
       /\ \A j \in 1..(Len(o) - 1) : o2[j] = IF j < k THEN o[j] ELSE o[j + 1]
  <2>1. /\ o2 \in Seq(Elem) /\ Len(o2) = Len(o) - 1
        /\ \A j \in 1..(Len(o) - 1) : o2[j] = IF j < k THEN o[j] ELSE o[j + 1]
    BY <1>1, RemoveAtProperties
  <2> HIDE DEF o2
  <2> QED BY <1>2, <2>1, EmptySeq
<1>11. c2 \in Seq(Elem) /\ Len(c2) = Len(cb) - 1
  BY <1>5, RemoveAtProperties
<1>12. /\ chain2[b] = c2
       /\ \A c \in 0..(n - 1) \ {b} : chain2[c] = chain[c]
  BY <1>3 DEF Family, cb
<1>13. tail \in Elem /\ tail = Last(o2)
  <2>1. tbl.tail = o[Len(o)]
    BY <1>1, <1>2 DEF Last
  <2>2. CASE k = Len(o)
    <3>1. tail = o[Len(o) - 1] /\ Len(o) - 1 \in 1..Len(o)
      BY <1>2, <1>6, <2>1, <2>2 DEF At
    <3>2. o2[Len(o) - 1] = o[Len(o) - 1]
      BY <1>2, <1>10, <2>2
    <3> QED BY <1>2, <1>10, <3>1, <3>2 DEF Last
  <2>3. CASE k # Len(o)
    <3>1. tail = o[Len(o)]
      BY <1>2, <2>1, <2>3
    <3>2. Len(o) - 1 \in 1..(Len(o) - 1) /\ ~(Len(o) - 1 < k) /\ (Len(o) - 1) + 1 = Len(o)
          /\ Len(o) \in 1..Len(o)
      BY <1>2, <2>3
    <3>3. o2[Len(o) - 1] = o[Len(o)]
      BY <1>10, <3>2
    <3> QED BY <1>2, <1>10, <3>1, <3>2, <3>3 DEF Last
  <2> QED BY <2>2, <2>3
<1>14. /\ t2.buckets[b].count = Len(c2)
       /\ t2 \in UT_hash_table(n) /\ t2.num_buckets = n
       /\ t2.num_items = Len(o) - 1 /\ t2.tail = tail
      /\ t2.buckets[b].hh_head = (IF tbl.buckets[b].hh_head = e THEN hh[e].hh_next
                                  ELSE tbl.buckets[b].hh_head)
      /\ \A c \in 0..(n - 1) \ {b} : t2.buckets[c] = tbl.buckets[c]
  BY <1>1, <1>5, <1>11, <1>13 DEF Lessened, cb
<1> HIDE DEF h2, o2, c2, chain2
<1>17. ListLinked(IF hh[e].prev = Null THEN hh[e].next ELSE head, h2, o2)
  <2> DEFINE prev == [x \in Elem |-> hh[x].prev]
             next == [x \in Elem |-> hh[x].next]
             prev2 == [x \in Elem |-> h2[x].prev]
             next2 == [x \in Elem |-> h2[x].next]
  <2>1. DoublyLinked(head, prev, next, o)
    BY DEF Woven, ListLinked
  <2>2. Bypass(prev, next, prev2, next2, o[k])
    BY <1>2, <1>9 DEF Bypass
  <2>3. prev[e] = hh[e].prev /\ next[e] = hh[e].next
    BY <1>2
  <2> HIDE DEF prev, next, prev2, next2
  <2>4. DoublyLinked(IF head = o[k] THEN next[o[k]] ELSE head, prev2, next2, o2)
    BY <2>1, <2>2, Unlink DEF o2
  <2>5. hh[e].prev = Null <=> head = e
    BY <1>1, <1>2, <1>6 DEF At
  <2> QED BY <2>3, <2>4, <2>5 DEF ListLinked, prev2, next2
<1>18. ASSUME NEW c \in 0..(n - 1)
       PROVE  ChainLinked(t2.buckets[c], h2, chain2[c])
  <2> DEFINE prev == [x \in Elem |-> hh[x].hh_prev]
             next == [x \in Elem |-> hh[x].hh_next]
             prev2 == [x \in Elem |-> h2[x].hh_prev]
             next2 == [x \in Elem |-> h2[x].hh_next]
  <2>1. DoublyLinked(tbl.buckets[c].hh_head, prev, next, chain[c])
    BY <1>4
  <2>2. Bypass(prev, next, prev2, next2, e)
    BY <1>2, <1>9 DEF Bypass
  <2>3. prev[e] = hh[e].hh_prev /\ next[e] = hh[e].hh_next
    BY <1>2
  <2> HIDE DEF prev, next, prev2, next2
  <2>4. CASE c = b
    <3> DEFINE first == tbl.buckets[b].hh_head
    <3>1. DoublyLinked(first, prev, next, cb)
      BY <2>1, <2>4 DEF cb
    <3>2. Bypass(prev, next, prev2, next2, cb[i])
      BY <1>5, <2>2
    <3> HIDE DEF first
    <3>3. DoublyLinked(IF first = cb[i] THEN next[cb[i]] ELSE first,
                       prev2, next2, c2)
      <4>1. i \in 1..Len(cb)
        BY <1>5
      <4>2. DoublyLinked(IF first = cb[i] THEN next[cb[i]] ELSE first,
                         prev2, next2, RemoveAt(cb, i))
        BY <4>1, <3>1, <3>2, Unlink
      <4> QED BY <4>2 DEF c2
    <3> QED BY <1>5, <1>12, <1>14, <2>3, <2>4, <3>3 DEF ChainLinked, prev2, next2, first
  <2>5. CASE c # b
    <3>1. chain2[c] = chain[c] /\ t2.buckets[c] = tbl.buckets[c]
      BY <1>12, <1>14, <2>5
    <3>2. ASSUME NEW j \in 1..Len(chain[c])
          PROVE  /\ prev2[chain[c][j]] = prev[chain[c][j]]
                 /\ next2[chain[c][j]] = next[chain[c][j]]
      <4> DEFINE x == chain[c][j]
      <4>1. x \in Elem /\ Contains(chain[c], x) /\ x # Null
        BY <1>4, Positions DEF Contains
      <4> HIDE DEF x
      <4>2. ~Contains(cb, x)
        <5>1. HASH_TO_BKT(hh[x].hashv, n) = c
          BY <1>4, <4>1
        <5>2. Contains(cb, x) => HASH_TO_BKT(hh[x].hashv, n) = b
          BY <1>3, <1>4, <4>1 DEF cb
        <5> QED BY <2>5, <5>1, <5>2
      <4>3. \A l : At(cb, l) # x
        BY <4>1, <4>2 DEF At, Contains
      <4>4. x # e
        BY <1>5, <4>2 DEF Contains
      <4>5. prev2[x] = prev[x] /\ next2[x] = next[x]
        BY <1>5, <2>2, <2>3, <4>1, <4>3, <4>4 DEF Bypass
      <4> QED BY <4>5 DEF x
    <3>3. DoublyLinked(tbl.buckets[c].hh_head, prev2, next2, chain[c])
      BY <2>1, <3>2, LinksKept
    <3> QED BY <1>4, <3>1, <3>3 DEF ChainLinked, prev2, next2
  <2> QED BY <2>4, <2>5
<1>19. Placed(n, h2, o2, chain2)
  <2> SUFFICES ASSUME NEW c \in 0..(n - 1), NEW x \in Elem
               PROVE  Contains(chain2[c], x)
                        <=> Contains(o2, x) /\ HASH_TO_BKT(h2[x].hashv, n) = c
    BY DEF Placed
  <2>1. Contains(o2, x) <=> Contains(o, x) /\ x # e
    BY <1>1, RemoveHolds DEF o2
  <2>2. Contains(c2, x) <=> Contains(cb, x) /\ x # e
    BY <1>5, RemoveHolds DEF c2
  <2>3. Contains(chain[c], e) <=> c = b
    BY <1>2, <1>4
  <2>4. Contains(chain2[c], x) <=> Contains(chain[c], x) /\ x # e
    <3>1. CASE c = b
      BY <1>12, <2>2, <3>1 DEF cb
    <3>2. CASE c # b
      BY <1>12, <2>3, <3>2
    <3> QED BY <3>1, <3>2
  <2>5. CASE x = e
    BY <2>1, <2>4, <2>5
  <2>6. CASE x # e
    <3>1. h2[x].hashv = hh[x].hashv
      BY <1>9, <2>6
    <3>2. Contains(chain[c], x) <=> Contains(o, x) /\ HASH_TO_BKT(hh[x].hashv, n) = c
      BY <1>4
    <3> QED BY <2>1, <2>4, <2>6, <3>1, <3>2
  <2> QED BY <2>5, <2>6
<1>20. Woven(IF hh[e].prev = Null THEN hh[e].next ELSE head, t2, h2, o2, chain2)
  <2>1. /\ t2.num_items = Len(o2) /\ t2.tail = Last(o2)
        /\ t2.num_buckets = n /\ t2 \in UT_hash_table(n) /\ n \in Nat \ {0}
    BY <1>1, <1>10, <1>13, <1>14
  <2>2. h2 \in [Elem -> UT_hash_handle]
    BY <1>9
  <2> HIDE DEF n, tail
  <2> QED BY <1>17, <1>18, <1>19, <2>1, <2>2 DEF Woven
<1> QED BY <1>20 DEF h2, o2, c2, cb, chain2

(* The handles after every element was linked into its new chain.          *)
LEMMA Relinks ==
  ASSUME NEW h \in [Elem -> UT_hash_handle], NEW D, NEW nc \in [D -> Seq(Elem)],
         Apart(nc, D, Elem)
  PROVE  LET h2 == Relinked(h, nc)
         IN  /\ h2 \in [Elem -> UT_hash_handle]
             /\ \A e \in Elem : /\ h2[e].prev = h[e].prev
                                /\ h2[e].next = h[e].next
                                /\ h2[e].hashv = h[e].hashv
             /\ \A b \in D : \A k \in 1..Len(nc[b]) :
                  /\ h2[nc[b][k]].hh_prev = At(nc[b], k - 1)
                  /\ h2[nc[b][k]].hh_next = At(nc[b], k + 1)
<1> DEFINE h2 == Relinked(h, nc)
           In(e) == \E b \in DOMAIN nc : Contains(nc[b], e)
           B(e) == CHOOSE b \in DOMAIN nc : Contains(nc[b], e)
           K(e) == CHOOSE k \in DOMAIN nc[B(e)] : nc[B(e)][k] = e
           A(b, k) == IF k \in DOMAIN nc[b] THEN nc[b][k] ELSE Null
           New(x, p, q) == [x EXCEPT !.hh_prev = p, !.hh_next = q]
<1>1. ASSUME NEW b \in D
      PROVE  /\ nc[b] \in Seq(Elem) /\ Len(nc[b]) \in Nat
             /\ DOMAIN nc[b] = 1..Len(nc[b])
             /\ \A k \in 1..Len(nc[b]) : nc[b][k] \in Elem
             /\ \A j, k \in 1..Len(nc[b]) : nc[b][j] = nc[b][k] => j = k
             /\ \A k : A(b, k) = At(nc[b], k) /\ A(b, k) \in Elem \cup {Null}
  <2>1. nc[b] \in Seq(Elem) /\ IsInjective(nc[b])
    BY DEF Apart
  <2> QED BY <2>1, Positions DEF At
<1>2. h2 = [e \in Elem |-> IF In(e) THEN New(h[e], A(B(e), K(e) - 1), A(B(e), K(e) + 1))
                           ELSE h[e]]
  BY Zenon DEF Relinked
<1>0. DOMAIN nc = D
  OBVIOUS
<1>3. ASSUME NEW x \in UT_hash_handle,
             NEW p \in Elem \cup {Null}, NEW q \in Elem \cup {Null}
      PROVE  /\ New(x, p, q) \in UT_hash_handle
             /\ New(x, p, q).hh_prev = p /\ New(x, p, q).hh_next = q
             /\ New(x, p, q).prev = x.prev /\ New(x, p, q).next = x.next
             /\ New(x, p, q).hashv = x.hashv
  BY DEF UT_hash_handle
<1>4. ASSUME NEW e \in Elem, In(e) PROVE B(e) \in D /\ Contains(nc[B(e)], e)
  BY <1>0, <1>4
<1>5. ASSUME NEW b \in D, NEW k \in 1..Len(nc[b])
      PROVE  /\ nc[b][k] \in Elem /\ In(nc[b][k])
             /\ B(nc[b][k]) = b /\ K(nc[b][k]) = k
  <2> DEFINE e == nc[b][k]
  <2>1. e \in Elem /\ Contains(nc[b], e)
    BY <1>1 DEF Contains
  <2>2. In(e)
    BY <1>0, <2>1
  <2>3. B(e) = b
    <3> HIDE DEF e, B, In
    <3> QED BY <1>4, <2>1, <2>2 DEF Apart
  <2>4. K(e) = CHOOSE l \in DOMAIN nc[b] : nc[b][l] = e
    <3> HIDE DEF B, e
    <3> QED BY <2>3
  <2>5. \E l \in DOMAIN nc[b] : nc[b][l] = e
    BY <1>1
  <2> DEFINE l == CHOOSE l \in DOMAIN nc[b] : nc[b][l] = e
  <2>6. l \in DOMAIN nc[b] /\ nc[b][l] = e
    BY <2>5
  <2> HIDE DEF l
  <2>7. l = k
    BY <1>1, <2>6
  <2> HIDE DEF K, B, In
  <2> QED BY <2>1, <2>2, <2>3, <2>4, <2>7 DEF l
<1> DEFINE p(e) == A(B(e), K(e) - 1)
           q(e) == A(B(e), K(e) + 1)
<1>6. ASSUME NEW e \in Elem, In(e)
      PROVE  p(e) \in Elem \cup {Null} /\ q(e) \in Elem \cup {Null}
  <2>1. B(e) \in D
    BY <1>4, <1>6
  <2> HIDE DEF A, B, K
  <2> QED BY <1>1, <2>1
<1>7. ASSUME NEW e \in Elem
      PROVE  h2[e] = IF In(e) THEN New(h[e], p(e), q(e)) ELSE h[e]
  <2> HIDE DEF New, A, B, K, In, h2
  <2> QED BY <1>2
<1>8. h2 \in [Elem -> UT_hash_handle]
      /\ \A e \in Elem : /\ h2[e].prev = h[e].prev
                         /\ h2[e].next = h[e].next
                         /\ h2[e].hashv = h[e].hashv
  <2> HIDE DEF New, p, q, In, h2
  <2>1. ASSUME NEW e \in Elem
        PROVE  /\ h2[e] \in UT_hash_handle
               /\ h2[e].prev = h[e].prev /\ h2[e].next = h[e].next
               /\ h2[e].hashv = h[e].hashv
    <3>1. h[e] \in UT_hash_handle
      OBVIOUS
    <3>2. CASE In(e)
      BY <1>3, <1>6, <1>7, <3>1, <3>2
    <3>3. CASE ~In(e)
      BY <1>7, <3>1, <3>3
    <3> QED BY <3>2, <3>3
  <2>2. \E g : h2 = [e \in Elem |-> g[e]]
    <3> DEFINE g == [e \in Elem |-> h2[e]]
    <3>1. h2 = [e \in Elem |-> g[e]]
      BY <1>2
    <3> QED BY <3>1
  <2> QED BY <2>1, <2>2
<1>9. ASSUME NEW b \in D, NEW k \in 1..Len(nc[b])
      PROVE  /\ h2[nc[b][k]].hh_prev = At(nc[b], k - 1)
             /\ h2[nc[b][k]].hh_next = At(nc[b], k + 1)
  <2> DEFINE e == nc[b][k]
  <2>1. e \in Elem /\ In(e) /\ h[e] \in UT_hash_handle
    <3> HIDE DEF In
    <3> QED BY <1>5
  <2>2. p(e) = At(nc[b], k - 1) /\ q(e) = At(nc[b], k + 1)
    <3> HIDE DEF A, B, K
    <3> QED BY <1>1, <1>5
  <2> HIDE DEF p, q, e, In, h2, New
  <2>3. h2[e] = New(h[e], p(e), q(e))
    BY <1>7, <2>1
  <2>4. h2[e].hh_prev = p(e) /\ h2[e].hh_next = q(e)
    <3>1. p(e) \in Elem \cup {Null} /\ q(e) \in Elem \cup {Null}
      BY <1>6, <2>1
    <3> DEFINE pe == p(e)
               qe == q(e)
    <3> HIDE DEF pe, qe
    <3>2. New(h[e], pe, qe).hh_prev = pe /\ New(h[e], pe, qe).hh_next = qe
      BY <1>3, <2>1, <3>1 DEF pe, qe
    <3> QED BY <2>3, <3>2 DEF pe, qe
  <2>5. h2[e].hh_prev = At(nc[b], k - 1) /\ h2[e].hh_next = At(nc[b], k + 1)
    BY <2>2, <2>4
  <2> QED BY <2>5 DEF e
<1> QED BY <1>8, <1>9

(* The new chains hold what the old ones held, each element where its hash *)
(* value now says.                                                         *)
LEMMA NewChainsHold ==
  ASSUME NEW first, NEW t, NEW h, NEW o, NEW chain \in Family(t),
         Woven(first, t, h, o, chain)
  PROVE  LET nc == NewChains(t, h)
             twice == 2 * t.num_buckets
         IN  /\ nc \in [0..(twice - 1) -> Seq(Elem)]
             /\ \A b \in 0..(twice - 1) : IsInjective(nc[b])
             /\ Placed(twice, h, o, nc)
<1> DEFINE n == t.num_buckets
           twice == 2 * n
           seqs == [k \in 1..n |-> Chain(t, h, k - 1)]
           items == FlattenSeq(seqs)
           Of(b) == {e \in Elem : HASH_TO_BKT(h[e].hashv, twice) = b}
           nc == NewChains(t, h)
<1>1. /\ n \in Nat \ {0} /\ h \in [Elem -> UT_hash_handle]
      /\ \A b \in 0..(n - 1) :
           /\ chain[b] \in Seq(Elem) /\ IsInjective(chain[b])
           /\ Chain(t, h, b) = chain[b]
      /\ \A b \in 0..(n - 1), e \in Elem :
           Contains(chain[b], e)
             <=> Contains(o, e) /\ HASH_TO_BKT(h[e].hashv, n) = b
  <2>1. /\ n \in Nat \ {0} /\ h \in [Elem -> UT_hash_handle]
        /\ \A b \in 0..(n - 1) : ChainLinked(t.buckets[b], h, chain[b])
        /\ Placed(n, h, o, chain)
    BY DEF Woven
  <2>2. ASSUME NEW b \in 0..(n - 1)
        PROVE  /\ chain[b] \in Seq(Elem) /\ IsInjective(chain[b])
               /\ Chain(t, h, b) = chain[b]
    <3>1. ChainLinked(t.buckets[b], h, chain[b])
      BY <2>1
    <3>2. chain[b] \in Seq(Elem) /\ IsInjective(chain[b])
      BY <3>1 DEF ChainLinked, DoublyLinked
    <3>3. Chain(t, h, b) = chain[b]
      BY <3>1, ChainIs
    <3> QED BY <3>2, <3>3
  <2> QED BY <2>1, <2>2 DEF Placed
<1>2. ASSUME NEW k \in 1..n
      PROVE  /\ seqs[k] \in Seq(Elem) /\ IsInjective(seqs[k])
             /\ \A e \in Elem : Contains(seqs[k], e)
                  <=> Contains(o, e) /\ HASH_TO_BKT(h[e].hashv, n) = k - 1
  <2>1. k - 1 \in 0..(n - 1)
    BY <1>1
  <2>2. seqs[k] = chain[k - 1]
    BY <1>1, <2>1
  <2> HIDE DEF seqs
  <2> QED BY <1>1, <2>1, <2>2
<1>3. /\ items \in Seq(Elem) /\ IsInjective(items)
      /\ \A e : Contains(items, e) <=> \E k \in 1..n : Contains(seqs[k], e)
  <2>1. seqs \in [1..n -> Seq(Elem)]
    <3>1. \A k \in 1..n : seqs[k] \in Seq(Elem)
      BY <1>2
    <3> QED BY <3>1
  <2>2. ASSUME NEW i \in 1..n, NEW j \in 1..n, NEW e \in Elem,
               Contains(seqs[i], e), Contains(seqs[j], e)
        PROVE  i = j
    <3> HIDE DEF seqs
    <3>1. i - 1 = j - 1
      BY <1>2, <2>2
    <3> QED BY <1>1, <3>1
  <2>3. \A i \in 1..n : IsInjective(seqs[i])
    BY <1>2
  <2> HIDE DEF seqs
  <2>4. Apart(seqs, 1..n, Elem)
    BY <2>2, <2>3 DEF Apart
  <2>5. n \in Nat \ {0}
    BY <1>1
  <2> HIDE DEF n
  <2> QED BY <2>1, <2>4, <2>5, FlattenInjective
<1> HIDE DEF seqs, items
<1>4. ASSUME NEW e \in Elem
      PROVE  Contains(items, e) <=> Contains(o, e)
  <2> DEFINE k == HASH_TO_BKT(h[e].hashv, n) + 1
  <2>1. HASH_TO_BKT(h[e].hashv, n) \in 0..(n - 1)
    <3>1. h[e].hashv \in Nat
      BY <1>1 DEF UT_hash_handle
    <3> QED BY <1>1, <3>1, Bucket
  <2>2. k \in 1..n /\ k - 1 = HASH_TO_BKT(h[e].hashv, n)
    BY <1>1, <2>1
  <2> HIDE DEF k, n
  <2> QED BY <1>2, <1>3, <2>2
<1>5. nc = [b \in 0..(twice - 1) |-> PutInFront(items, Of(b))]
  BY DEF NewChains, items, seqs
<1>6. ASSUME NEW b \in 0..(twice - 1)
      PROVE  /\ nc[b] \in Seq(Elem) /\ IsInjective(nc[b])
             /\ \A e \in Elem : Contains(nc[b], e)
                  <=> Contains(o, e) /\ HASH_TO_BKT(h[e].hashv, twice) = b
  <2> DEFINE S == Of(b)
             c == PutInFront(items, S)
  <2>1. nc[b] = c
    <3> HIDE DEF nc
    <3> QED BY <1>5
  <2>2. \A e \in Elem : e \in S <=> HASH_TO_BKT(h[e].hashv, twice) = b
    OBVIOUS
  <2> HIDE DEF nc, S, twice, n
  <2>3. /\ c \in Seq(Elem) /\ IsInjective(c)
        /\ \A e : Contains(c, e) <=> e \in S /\ Contains(items, e)
    BY <1>3, PutInFrontInjective
  <2> HIDE DEF c
  <2> QED BY <1>4, <2>1, <2>2, <2>3
<1>7. nc \in [0..(twice - 1) -> Seq(Elem)]
  <2> DEFINE f == [b \in 0..(twice - 1) |-> nc[b]]
  <2>1. nc = f
    BY <1>5
  <2> HIDE DEF nc
  <2>2. f \in [0..(twice - 1) -> Seq(Elem)]
    BY <1>6
  <2> QED BY <2>1, <2>2
<1> HIDE DEF nc, twice, n
<1>8. Placed(twice, h, o, nc)
  BY <1>6 DEF Placed
<1>9. /\ nc \in [0..(twice - 1) -> Seq(Elem)]
      /\ \A b \in 0..(twice - 1) : IsInjective(nc[b])
      /\ Placed(twice, h, o, nc)
  BY <1>6, <1>7, <1>8
<1> QED BY <1>9 DEF nc, twice, n

(* The table after its buckets were doubled.                               *)
LEMMA Doubled ==
  ASSUME NEW n \in Nat \ {0}, NEW t \in UT_hash_table(n),
         NEW nc \in [0..(2 * n - 1) -> Seq(Elem)]
  PROVE  LET t2 == HASH_EXPAND_BUCKETS(t, nc)
         IN  /\ t2 \in UT_hash_table(2 * n)
             /\ t2.num_buckets = 2 * n
             /\ t2.num_items = t.num_items /\ t2.tail = t.tail
             /\ \A b \in 0..(2 * n - 1) :
                  /\ t2.buckets[b].hh_head = At(nc[b], 1)
                  /\ t2.buckets[b].count = Len(nc[b])
<1> DEFINE twice == 2 * n
           D == 0..(twice - 1)
           bkt(b) == [hh_head |-> IF nc[b] = <<>> THEN Null ELSE nc[b][1],
                      count |-> Len(nc[b]),
                      expand_mult |-> Multiplier(Len(nc[b]), ideal_chain_maxlen(t))]
           bkts == [b \in DOMAIN nc |-> bkt(b)]
           ineff == Ineffective(t, nc)
           t2 == HASH_EXPAND_BUCKETS(t, nc)
<1>1. ASSUME NEW b \in D
      PROVE  /\ bkt(b) \in UT_hash_bucket
             /\ bkt(b).hh_head = At(nc[b], 1) /\ bkt(b).count = Len(nc[b])
  <2> DEFINE c == nc[b]
             head1 == IF c = <<>> THEN Null ELSE c[1]
             mult == Multiplier(Len(c), ideal_chain_maxlen(t))
  <2>1. c \in Seq(Elem) /\ Len(c) \in Nat
    BY LenProperties
  <2> HIDE DEF c
  <2>2. mult \in Nat
    BY <2>1, MultiplierType
  <2>3. head1 = At(c, 1) /\ head1 \in Elem \cup {Null}
    BY <2>1, EmptySeq, LenProperties DEF At
  <2> HIDE DEF head1, mult
  <2>4. bkt(b) = [hh_head |-> head1, count |-> Len(c), expand_mult |-> mult]
    BY DEF head1, mult, c
  <2> HIDE DEF bkt
  <2> QED BY <2>1, <2>2, <2>3, <2>4 DEF UT_hash_bucket, c
<1>2. bkts \in [D -> UT_hash_bucket] /\ \A b \in D : bkts[b] = bkt(b)
  <2>1. DOMAIN nc = D
    OBVIOUS
  <2> HIDE DEF bkt, D
  <2> QED BY <1>1, <2>1
<1>3. /\ t.num_items \in Nat /\ t.tail \in Elem /\ t.num_buckets = n
      /\ t.ineff_expands \in Nat /\ t.noexpand \in BOOLEAN
      /\ t = [buckets |-> t.buckets, num_buckets |-> n, num_items |-> t.num_items,
              tail |-> t.tail, ineff_expands |-> t.ineff_expands,
              noexpand |-> t.noexpand]
  BY DEF UT_hash_table
<1>4. ineff \in Nat
  BY <1>3 DEF Ineffective
<1> DEFINE no == t.noexpand \/ ineff > 1
           t1 == [t EXCEPT !.buckets = bkts]
           t3 == [t1 EXCEPT !.num_buckets = 2 * @]
           t4 == [t3 EXCEPT !.ineff_expands = ineff]
           t5 == [t4 EXCEPT !.noexpand = @ \/ ineff > 1]
<1>5. t2 = t5
  BY Zenon DEF HASH_EXPAND_BUCKETS
<1> HIDE DEF t2, bkts, ineff
<1>6. t5 = [buckets |-> bkts, num_buckets |-> twice, num_items |-> t.num_items,
            tail |-> t.tail, ineff_expands |-> ineff, noexpand |-> no]
  <2> DEFINE R(k, i, x) == [buckets |-> bkts, num_buckets |-> k,
                            num_items |-> t.num_items, tail |-> t.tail,
                            ineff_expands |-> i, noexpand |-> x]
  <2>1. t1 = R(n, t.ineff_expands, t.noexpand)
    BY <1>3
  <2> HIDE DEF t1
  <2>2. t3 = R(twice, t.ineff_expands, t.noexpand)
    BY <2>1
  <2> HIDE DEF t3
  <2>3. t4 = R(twice, ineff, t.noexpand)
    BY <2>2
  <2> HIDE DEF t4
  <2>4. t5 = R(twice, ineff, no)
    BY <2>3
  <2> HIDE DEF t5
  <2> QED BY <2>4
<1> HIDE DEF no, t5, twice
<1>7. no \in BOOLEAN
  BY <1>3 DEF no
<1>8. /\ t2 \in UT_hash_table(twice) /\ t2.num_buckets = twice
      /\ t2.num_items = t.num_items /\ t2.tail = t.tail /\ t2.buckets = bkts
  BY <1>2, <1>3, <1>4, <1>5, <1>6, <1>7 DEF UT_hash_table
<1> HIDE DEF bkt
<1> QED BY <1>1, <1>2, <1>8 DEF t2, twice

(* A hash whose buckets were doubled is whole again.                       *)
LEMMA Expanded ==
  ASSUME NEW first, NEW t, NEW h, NEW o, NEW chain \in Family(t),
         Woven(first, t, h, o, chain), NEW nc, nc = NewChains(t, h)
  PROVE  /\ Woven(first, HASH_EXPAND_BUCKETS(t, nc), Relinked(h, nc), o, nc)
         /\ nc \in Family(HASH_EXPAND_BUCKETS(t, nc))
<1> DEFINE n == t.num_buckets
           twice == 2 * n
           t2 == HASH_EXPAND_BUCKETS(t, nc)
           h2 == Relinked(h, nc)
<1>1. /\ h \in [Elem -> UT_hash_handle] /\ n \in Nat \ {0} /\ t \in UT_hash_table(n)
      /\ t.num_items = Len(o) /\ (o # <<>> => t.tail = Last(o))
      /\ ListLinked(first, h, o)
      /\ o \in Seq(Elem) /\ IsInjective(o)
  BY DEF Woven, ListLinked, DoublyLinked
<1>2. /\ nc \in [0..(twice - 1) -> Seq(Elem)]
      /\ \A b \in 0..(twice - 1) : IsInjective(nc[b])
      /\ Placed(twice, h, o, nc)
  BY NewChainsHold
<1>3. /\ t2 \in UT_hash_table(twice) /\ t2.num_buckets = twice
      /\ t2.num_items = t.num_items /\ t2.tail = t.tail
      /\ \A b \in 0..(twice - 1) : /\ t2.buckets[b].hh_head = At(nc[b], 1)
                                   /\ t2.buckets[b].count = Len(nc[b])
  <2>1. n \in Nat \ {0} /\ t \in UT_hash_table(n)
    BY <1>1
  <2> HIDE DEF n
  <2> QED BY <1>2, <2>1, Doubled
<1> DEFINE D == 0..(twice - 1)
<1>4. Apart(nc, D, Elem)
  BY <1>2 DEF Apart, Placed
<1>5. /\ h2 \in [Elem -> UT_hash_handle]
      /\ \A e \in Elem : /\ h2[e].prev = h[e].prev
                         /\ h2[e].next = h[e].next
                         /\ h2[e].hashv = h[e].hashv
      /\ \A b \in D : \A k \in 1..Len(nc[b]) :
           /\ h2[nc[b][k]].hh_prev = At(nc[b], k - 1)
           /\ h2[nc[b][k]].hh_next = At(nc[b], k + 1)
  <2>1. nc \in [D -> Seq(Elem)] /\ h \in [Elem -> UT_hash_handle]
    BY <1>1, <1>2
  <2> HIDE DEF D
  <2> QED BY <1>4, <2>1, Relinks
<1> HIDE DEF t2, h2
<1>6. ListLinked(first, h2, o)
  <2> DEFINE prev == [x \in Elem |-> h[x].prev]
             next == [x \in Elem |-> h[x].next]
             prev2 == [x \in Elem |-> h2[x].prev]
             next2 == [x \in Elem |-> h2[x].next]
  <2>1. DoublyLinked(first, prev, next, o)
    BY <1>1 DEF ListLinked
  <2>2. \A x \in Elem : prev2[x] = prev[x] /\ next2[x] = next[x]
    BY <1>5
  <2> HIDE DEF prev, next, prev2, next2
  <2>3. \A k \in 1..Len(o) : prev2[o[k]] = prev[o[k]] /\ next2[o[k]] = next[o[k]]
    BY <1>1, <2>2, Positions
  <2>4. DoublyLinked(first, prev2, next2, o)
    BY <2>1, <2>3, LinksKept
  <2> QED BY <2>4 DEF ListLinked, prev2, next2
<1>7. ASSUME NEW b \in 0..(twice - 1)
      PROVE  ChainLinked(t2.buckets[b], h2, nc[b])
  <2> DEFINE c == nc[b]
             prev2 == [x \in Elem |-> h2[x].hh_prev]
             next2 == [x \in Elem |-> h2[x].hh_next]
  <2>1. c \in Seq(Elem) /\ IsInjective(c)
    BY <1>2
  <2>2. ASSUME NEW k \in 1..Len(c)
        PROVE  prev2[c[k]] = At(c, k - 1) /\ next2[c[k]] = At(c, k + 1)
    <3>1. c[k] \in Elem
      <4> HIDE DEF c
      <4> QED BY <2>1, Positions
    <3>2. prev2[c[k]] = h2[c[k]].hh_prev /\ next2[c[k]] = h2[c[k]].hh_next
      BY <3>1
    <3> HIDE DEF prev2, next2
    <3> QED BY <1>5, <3>2
  <2> HIDE DEF prev2, next2
  <2>3. DoublyLinked(t2.buckets[b].hh_head, prev2, next2, c)
    BY <1>3, <2>1, <2>2 DEF DoublyLinked
  <2> QED BY <1>3, <2>3 DEF ChainLinked, prev2, next2
<1>8. Placed(twice, h2, o, nc)
  BY <1>2, <1>5 DEF Placed
<1>9. twice \in Nat \ {0}
  BY <1>1
<1> HIDE DEF twice
<1>10. Woven(first, t2, h2, o, nc)
  BY <1>1, <1>3, <1>5, <1>6, <1>7, <1>8, <1>9 DEF Woven
<1>11. nc \in Family(t2)
  BY <1>2, <1>3 DEF Family
<1> QED BY <1>10, <1>11 DEF t2, h2

-----------------------------------------------------------------------------
(* What is reached through the pointers of a hash is what it is woven of.  *)
LEMMA WovenIs ==
  ASSUME NEW first, NEW t, NEW h, NEW o, NEW chain \in Family(t),
         Woven(first, t, h, o, chain)
  PROVE  /\ Follow(first, [e \in Elem |-> h[e].next]) = o
         /\ Chains(t, h) = chain
         /\ first \in Elem \cup {Null}
<1>1. /\ ListLinked(first, h, o)
      /\ \A b \in 0..(t.num_buckets - 1) : ChainLinked(t.buckets[b], h, chain[b])
  BY DEF Woven
<1>2. Follow(first, [e \in Elem |-> h[e].next]) = o
  BY <1>1, FollowList DEF ListLinked
<1>3. Chains(t, h) = chain
  <2>1. \A b \in 0..(t.num_buckets - 1) : Chain(t, h, b) = chain[b]
    BY <1>1, ChainIs
  <2> QED BY <2>1 DEF Chains, Family
<1>4. first \in Elem \cup {Null}
  BY <1>1, ElementOfSeq DEF ListLinked, DoublyLinked, At
<1> QED BY <1>2, <1>3, <1>4

(* There is a head unless there is no element.                             *)
LEMMA WovenHead ==
  ASSUME NEW first, NEW t, NEW h, NEW o, NEW chain,
         Woven(first, t, h, o, chain)
  PROVE  first = Null <=> o = <<>>
<1>1. o \in Seq(Elem) /\ IsInjective(o) /\ first = At(o, 1)
  BY DEF Woven, ListLinked, DoublyLinked
<1>2. /\ Len(o) \in Nat /\ (o = <<>> <=> Len(o) = 0)
      /\ \A k \in 1..Len(o) : o[k] \in Elem /\ o[k] # Null
  BY <1>1, Positions, EmptySeq
<1> QED BY <1>1, <1>2 DEF At

(* Nothing is reached from no head.                                        *)
LEMMA EmptyOrder ==
  ASSUME NEW link
  PROVE  Follow(Null, link) = <<>>
<1> DEFINE s == <<>>
<1>1. s \in Seq(Elem) /\ Len(s) = 0 /\ IsInjective(s)
  BY EmptySeq DEF IsInjective
<1> HIDE DEF s
<1>2. Null = At(s, 1) /\ \A k \in 1..Len(s) : link[s[k]] = At(s, k + 1)
  BY <1>1 DEF At
<1>3. Follow(Null, link) = s
  BY <1>1, <1>2, FollowPath
<1> QED BY <1>3 DEF s

(* No hash is a whole one.                                                 *)
LEMMA HashInit == Init => HashInv
<1> SUFFICES ASSUME Init PROVE HashInv
  OBVIOUS
<1>1. hh \in [Elem -> UT_hash_handle]
  BY DEF Init, Freed, UT_hash_handle
<1> QED BY <1>1 DEF Init, HashInv, TypeOK

(* A hash that has a head, as its invariant describes it.                  *)
LEMMA Whole ==
  ASSUME HashInv, head # Null
  PROVE  /\ Chains(tbl, hh) \in Family(tbl)
         /\ Woven(head, tbl, hh, Order, Chains(tbl, hh))
<1>1. Woven(head, tbl, hh, Order, Chains(tbl, hh))
  BY DEF HashInv
<1>2. \A b \in 0..(tbl.num_buckets - 1) : Chain(tbl, hh, b) \in Seq(Elem)
  BY <1>1 DEF Woven, ChainLinked, DoublyLinked, Chains
<1> QED BY <1>1, <1>2 DEF Chains, Family

(* A step that leaves both lists whole preserves the invariant.            *)
LEMMA Rewoven ==
  ASSUME head' # Null, NEW o, NEW chain \in Family(tbl'),
         Woven(head', tbl', hh', o, chain)
  PROVE  HashInv' /\ Order' = o
<1>1. /\ Follow(head', [e \in Elem |-> hh'[e].next]) = o
      /\ Chains(tbl', hh') = chain
      /\ head' \in Elem \cup {Null}
  BY WovenIs
<1>2. Order' = o
  BY <1>1 DEF Order
<1>3. Chains(tbl, hh)' = chain
  BY <1>1 DEF Chains, Chain
<1>4. TypeOK'
  BY <1>1 DEF Woven, TypeOK
<1>5. Woven(head, tbl, hh, Order, Chains(tbl, hh))'
  BY <1>2, <1>3 DEF Woven, ListLinked, ChainLinked, Placed
<1> QED BY <1>2, <1>4, <1>5 DEF HashInv

(* HASH_ADD puts the element behind the others.                            *)
LEMMA AddStep ==
  ASSUME HashInv, NEW e \in Elem, NEW v \in HashValue, HASH_ADD(e, v)
  PROVE  HashInv' /\ ~Contains(Order, e) /\ Order' = Append(Order, e)
<1> DEFINE old == IF head = Null THEN HASH_MAKE_TABLE(e) ELSE tbl
           b == HASH_TO_BKT(v, old.num_buckets)
           new == Counted(old, e, b)
           h2 == Linked(old, e, v)
           chain == NewChains(new, h2)
           first == IF head = Null THEN e ELSE head
<1>1. /\ ~Contains(Order, e) /\ head' = first
      /\ \/ tbl' = HASH_EXPAND_BUCKETS(new, chain) /\ hh' = Relinked(h2, chain)
         \/ tbl' = new /\ hh' = h2
  BY Zenon DEF HASH_ADD, InTable
<1>2. PICK c \in Family(old) : Woven(head, old, hh, Order, c)
  <2>1. CASE head = Null
    <3>1. hh \in [Elem -> UT_hash_handle]
      BY DEF HashInv, TypeOK
    <3>2. Order = <<>>
      BY <2>1, EmptyOrder DEF Order
    <3>3. \E c \in Family(HASH_MAKE_TABLE(e)) :
            Woven(head, HASH_MAKE_TABLE(e), hh, <<>>, c)
      BY <2>1, <3>1, Made
    <3> QED BY <2>1, <3>2, <3>3
  <2>2. CASE head # Null
    BY <2>2, Whole
  <2> QED BY <2>1, <2>2
<1>3. v \in Nat
  BY HashAssumption
<1> DEFINE c2 == [c EXCEPT ![b] = <<e>> \o @]
           o2 == Append(Order, e)
<1> HIDE DEF old
<1>4. Woven(first, new, h2, o2, c2)
  BY <1>1, <1>2, <1>3, Added
<1>5. c2 \in Family(new)
  <2>1. /\ old.num_buckets \in Nat \ {0} /\ new.num_buckets = old.num_buckets
    BY <1>2 DEF Woven, Counted, UT_hash_table
  <2>2. b \in 0..(old.num_buckets - 1)
    BY <1>3, <2>1, Bucket
  <2>3. <<e>> \o c[b] \in Seq(Elem)
    <3>1. c[b] \in Seq(Elem)
      BY <1>2, <2>2 DEF Family
    <3> QED BY <3>1, ConsProperties
  <2> QED BY <1>2, <2>1, <2>2, <2>3 DEF Family
<1>6. first # Null
  BY HashAssumption
<1> HIDE DEF new, h2, o2, c2, first
<1>7. CASE tbl' = new /\ hh' = h2
  BY <1>1, <1>4, <1>5, <1>6, <1>7, Rewoven DEF o2
<1>8. CASE tbl' = HASH_EXPAND_BUCKETS(new, chain) /\ hh' = Relinked(h2, chain)
  <2>1. /\ Woven(first, HASH_EXPAND_BUCKETS(new, chain), Relinked(h2, chain), o2, chain)
        /\ chain \in Family(HASH_EXPAND_BUCKETS(new, chain))
    BY <1>4, <1>5, Expanded
  <2> HIDE DEF chain
  <2>2. head' # Null /\ chain \in Family(tbl') /\ Woven(head', tbl', hh', o2, chain)
    BY <1>1, <1>6, <1>8, <2>1
  <2> QED BY <1>1, <2>2, Rewoven DEF o2
<1> QED BY <1>1, <1>7, <1>8

(* HASH_DEL takes the element out of the order.                            *)
LEMMA DelStep ==
  ASSUME HashInv, NEW e \in Elem, HASH_DEL(e)
  PROVE  HashInv' /\ \E k \in 1..Len(Order) : Order[k] = e /\ Order' = RemoveAt(Order, k)
<1> DEFINE o == Order
           chain == Chains(tbl, hh)
           n == tbl.num_buckets
           b == HASH_TO_BKT(hh[e].hashv, n)
           bucket == tbl.buckets[b]
           tail == IF tbl.tail = e THEN hh[e].prev ELSE tbl.tail
           bkt == [hh_head |-> IF bucket.hh_head = e THEN hh[e].hh_next
                               ELSE bucket.hh_head,
                   count |-> bucket.count - 1, expand_mult |-> bucket.expand_mult]
           bkts == [tbl.buckets EXCEPT ![b] = bkt]
           t2 == With(tbl, tbl.num_items - 1, tail, bkts)
<1>1. /\ head # Null /\ Contains(o, e) /\ hh' = Unlinked(e)
      /\ IF hh[e].prev = Null /\ hh[e].next = Null
         THEN head' = Null /\ tbl' = Null
         ELSE /\ head' = IF hh[e].prev = Null THEN hh[e].next ELSE head
              /\ tbl' = t2
  BY Zenon DEF HASH_DEL, InTable, With
<1>2. chain \in Family(tbl) /\ Woven(head, tbl, hh, o, chain)
  BY <1>1, Whole
<1> HIDE DEF o, chain, t2
<1>3. PICK k \in 1..Len(o) : o[k] = e
  BY <1>1 DEF Contains
<1>4. /\ o \in Seq(Elem) /\ IsInjective(o) /\ Len(o) \in Nat /\ head = At(o, 1)
      /\ \A x \in 1..Len(o) : o[x] \in Elem /\ o[x] # Null /\ At(o, x) = o[x]
      /\ hh[e].prev = At(o, k - 1) /\ hh[e].next = At(o, k + 1)
      /\ hh \in [Elem -> UT_hash_handle]
  <2>1. DoublyLinked(head, [x \in Elem |-> hh[x].prev], [x \in Elem |-> hh[x].next], o)
        /\ hh \in [Elem -> UT_hash_handle]
    BY <1>2 DEF Woven, ListLinked
  <2>2. o \in Seq(Elem) /\ IsInjective(o) /\ head = At(o, 1)
    BY <2>1 DEF DoublyLinked
  <2>3. hh[e].prev = At(o, k - 1) /\ hh[e].next = At(o, k + 1)
    BY <1>3, <2>1 DEF DoublyLinked
  <2> QED BY <2>1, <2>2, <2>3, Positions
<1>5. hh[e].prev = Null /\ hh[e].next = Null <=> Len(o) = 1
  <2>1. At(o, k - 1) = Null <=> k - 1 \notin 1..Len(o)
    BY <1>4 DEF At
  <2>2. At(o, k + 1) = Null <=> k + 1 \notin 1..Len(o)
    BY <1>4 DEF At
  <2> DEFINE m == Len(o)
  <2>3. m \in Nat /\ k \in 1..m
    BY <1>3, <1>4
  <2> HIDE DEF m
  <2>4. k - 1 \notin 1..m /\ k + 1 \notin 1..m <=> m = 1
    BY ONLY <2>3
  <2> QED BY <1>4, <2>1, <2>2, <2>4 DEF m
<1>6. CASE Len(o) = 1
  <2>1. head' = Null /\ tbl' = Null /\ hh' = Unlinked(e)
    BY <1>1, <1>5, <1>6
  <2>2. Order' = <<>>
    BY <2>1, EmptyOrder DEF Order
  <2>3. RemoveAt(o, k) = <<>>
    <3> DEFINE r == RemoveAt(o, k)
    <3>1. r \in Seq(Elem) /\ Len(r) = Len(o) - 1
      BY <1>4, RemoveAtProperties
    <3> HIDE DEF r
    <3>2. r = <<>>
      BY <1>6, <3>1, EmptySeq
    <3> QED BY <3>2 DEF r
  <2>4. Unlinked(e) \in [Elem -> UT_hash_handle]
    BY <1>4, UnlinkedLinks
  <2>5. HashInv'
    BY <2>1, <2>4 DEF HashInv, TypeOK
  <2> QED BY <1>3, <2>2, <2>3, <2>5 DEF o
<1>7. CASE Len(o) # 1
  <2>1. /\ n \in Nat \ {0} /\ tbl \in UT_hash_table(n) /\ tbl.num_items = Len(o)
        /\ hh[e].hashv \in Nat
    BY <1>2, <1>4 DEF Woven, UT_hash_handle
  <2>2. b \in 0..(n - 1)
    BY <2>1, Bucket
  <2>3. PICK i \in 1..Len(chain[b]) : chain[b][i] = e
    <3>1. Contains(chain[b], e)
      BY <1>1, <1>2, <2>2 DEF Woven, Placed
    <3> QED BY <3>1 DEF Contains
  <2>4. bkt \in UT_hash_bucket
    <3>1. bucket.count = Len(chain[b]) /\ chain[b] \in Seq(Elem)
      BY <1>2, <2>2 DEF Woven, ChainLinked, DoublyLinked
    <3>2. bucket.count - 1 \in Nat
      BY <2>3, <3>1, LenProperties
    <3>3. bucket \in UT_hash_bucket /\ hh[e].hh_next \in Elem \cup {Null}
      BY <1>4, <2>1, <2>2 DEF UT_hash_table, UT_hash_handle
    <3> QED BY <3>2, <3>3 DEF UT_hash_bucket
  <2>5. /\ bkt.hh_head = (IF bucket.hh_head = e THEN hh[e].hh_next ELSE bucket.hh_head)
        /\ bkt.count = bucket.count - 1
    OBVIOUS
  <2> HIDE DEF bkt
  <2>6. /\ bkts \in [0..(n - 1) -> UT_hash_bucket] /\ bkts[b] = bkt
        /\ \A c \in 0..(n - 1) \ {b} : bkts[c] = tbl.buckets[c]
    <3>1. tbl.buckets \in [0..(n - 1) -> UT_hash_bucket]
      BY <2>1 DEF UT_hash_table
    <3> HIDE DEF n, b
    <3> QED BY <2>2, <2>4, <3>1
  <2>7. tbl.num_items - 1 \in Nat
    BY <1>3, <1>4, <2>1
  <2> HIDE DEF bkts
  <2>8. /\ tail \in Elem => t2 \in UT_hash_table(n)
        /\ t2.num_buckets = n /\ t2.num_items = tbl.num_items - 1
        /\ t2.tail = tail /\ t2.buckets = bkts
    <3> DEFINE m == tbl.num_items - 1
    <3>1. m \in Nat /\ n \in Nat /\ tbl \in UT_hash_table(n)
      BY <2>1, <2>7
    <3> HIDE DEF m, n, tail
    <3> QED BY <2>6, <3>1, Updated DEF t2, m
  <2>9. /\ head' = (IF hh[e].prev = Null THEN hh[e].next ELSE head)
        /\ tbl' = t2 /\ hh' = Unlinked(e)
    BY <1>1, <1>5, <1>7
  <2> DEFINE c2 == [chain EXCEPT ![b] = RemoveAt(@, i)]
             o2 == RemoveAt(o, k)
  <2>10. Woven(head', t2, Unlinked(e), o2, c2)
    <3>1. Woven(IF hh[e].prev = Null THEN hh[e].next ELSE head, t2, Unlinked(e), o2, c2)
      <4>1. Lessened(tbl, t2, hh, e, b)
        BY <2>5, <2>6, <2>8 DEF Lessened
      <4>2. /\ b = HASH_TO_BKT(hh[e].hashv, tbl.num_buckets)
            /\ e = o[k] /\ Len(o) # 1
        BY <1>3, <1>7
      <4> HIDE DEF b
      <4> QED BY <1>2, <2>3, <4>1, <4>2, Removed
    <3> QED BY <2>9, <3>1
  <2>11. c2 \in Family(t2)
    <3>1. chain[b] \in Seq(Elem)
      BY <1>2, <2>2 DEF Family
    <3>2. RemoveAt(chain[b], i) \in Seq(Elem)
      BY <3>1, RemoveAtProperties
    <3> QED BY <1>2, <2>2, <2>8, <3>2 DEF Family
  <2>12. head' # Null
    <3>1. o2 # <<>>
      <4> DEFINE r == o2
      <4>1. r \in Seq(Elem) /\ Len(r) = Len(o) - 1
        BY <1>4, RemoveAtProperties
      <4> HIDE DEF r
      <4>2. r # <<>>
        BY <1>4, <1>7, <4>1
      <4> QED BY <4>2 DEF r
    <3> HIDE DEF c2, o2
    <3> QED BY <2>10, <3>1, WovenHead
  <2> HIDE DEF c2, o2
  <2>13. HashInv' /\ Order' = o2
    BY <2>9, <2>10, <2>11, <2>12, Rewoven
  <2> QED BY <1>3, <2>13 DEF o, o2
<1> QED BY <1>6, <1>7

(* Every step leaves the hash whole and does to its order what the table   *)
(* of OrderedTable does.                                                   *)
LEMMA HashStep ==
  HashInv /\ [Next]_vars =>
    /\ HashInv'
    /\ \/ \E e \in Elem : Table!Enter(e)
       \/ \E k \in 1..Len(Order) : Table!Leave(k)
       \/ UNCHANGED Order
<1> SUFFICES ASSUME HashInv, [Next]_vars
             PROVE  /\ HashInv'
                    /\ \/ \E e \in Elem : Table!Enter(e)
                       \/ \E k \in 1..Len(Order) : Table!Leave(k)
                       \/ UNCHANGED Order
  OBVIOUS
<1>1. ASSUME NEW e \in Elem, NEW v \in HashValue, HASH_ADD(e, v)
      PROVE  HashInv' /\ \E x \in Elem : Table!Enter(x)
  <2>1. HashInv' /\ ~Contains(Order, e) /\ Order' = Append(Order, e)
    BY <1>1, AddStep
  <2>2. Table!Enter(e)
    BY <2>1 DEF Table!Enter, Table!Contains, Contains
  <2> QED BY <2>1, <2>2
<1>2. ASSUME NEW e \in Elem, HASH_DEL(e)
      PROVE  HashInv' /\ \E k \in 1..Len(Order) : Table!Leave(k)
  <2>1. HashInv' /\ \E k \in 1..Len(Order) : Order[k] = e /\ Order' = RemoveAt(Order, k)
    BY <1>2, DelStep
  <2>2. PICK k \in 1..Len(Order) : Order' = RemoveAt(Order, k)
    BY <2>1
  <2>3. Table!Leave(k)
    BY <2>2 DEF Table!Leave, Table!RemoveAt, RemoveAt
  <2> QED BY <2>1, <2>3
<1>3. CASE UNCHANGED vars
  <2>0. head' = head /\ tbl' = tbl /\ hh' = hh
    BY <1>3 DEF vars
  <2>1. HashInv'
    <3>1. CASE head = Null
      BY <2>0, <3>1 DEF HashInv, TypeOK
    <3>2. CASE head # Null
      BY <2>0, <3>2, Whole, Rewoven
    <3> QED BY <3>1, <3>2
  <2>2. Order' = Order
    BY <1>3 DEF Order, vars
  <2> QED BY <2>1, <2>2
<1> QED BY <1>1, <1>2, <1>3 DEF Next

(* Both lists of every element are whole after any sequence of HASH_ADD    *)
(* and HASH_DEL, whatever elements collide and however often the buckets   *)
(* are doubled.                                                            *)
THEOREM HashInvariant == Spec => []HashInv
<1>1. HashInv /\ [Next]_vars => HashInv'
  BY HashStep
<1> QED BY HashInit, <1>1, PTL DEF Spec

(* The pointers of a hash are to elements, and a table is there exactly    *)
(* while it has a head.                                                    *)
THEOREM HashTypes == Spec => []TypeOK
<1>1. HashInv => TypeOK
  BY DEF HashInv
<1> QED BY HashInvariant, <1>1, PTL

(* A hash is a table in the order of the additions, the one that the       *)
(* model of the provider keeps its phonebooks in.                          *)
THEOREM HashIsTable == Spec => ImplementsTable
<1>1. Init => Table!Init
  <2>1. Init => Order = <<>>
    BY EmptyOrder DEF Init, Order
  <2> QED BY <2>1 DEF Table!Init
<1>2. HashInv /\ [Next]_vars => [Table!Next]_Order
  BY HashStep DEF Table!Next
<1> QED BY HashInvariant, <1>1, <1>2, PTL DEF Spec, ImplementsTable, Table!Spec

(* What the invariant says of the chains.                                  *)
LEMMA WovenChains ==
  ASSUME HashInv, head # Null
  PROVE  LET n == tbl.num_buckets
             c(b) == Chain(tbl, hh, b)
         IN  /\ n \in Nat \ {0} /\ tbl \in UT_hash_table(n)
             /\ Order \in Seq(Elem) /\ IsInjective(Order)
             /\ tbl.num_items = Len(Order)
             /\ \A e \in Elem : hh[e].hashv \in Nat
             /\ \A b \in 0..(n - 1) :
                  /\ c(b) \in Seq(Elem) /\ IsInjective(c(b))
                  /\ tbl.buckets[b].count = Len(c(b))
                  /\ \A k \in 1..Len(c(b)) : hh[c(b)[k]].hh_prev = At(c(b), k - 1)
                  /\ \A e \in Elem :
                       Contains(c(b), e)
                         <=> InTable(e) /\ HASH_TO_BKT(hh[e].hashv, n) = b
<1> DEFINE n == tbl.num_buckets
           chain == Chains(tbl, hh)
<1>1. Woven(head, tbl, hh, Order, chain)
  BY Whole
<1> HIDE DEF chain
<1>2. /\ n \in Nat \ {0} /\ tbl \in UT_hash_table(n)
      /\ Order \in Seq(Elem) /\ IsInjective(Order)
      /\ tbl.num_items = Len(Order)
      /\ hh \in [Elem -> UT_hash_handle]
  BY <1>1 DEF Woven, ListLinked, DoublyLinked
<1>3. \A e \in Elem : hh[e].hashv \in Nat
  BY <1>2 DEF UT_hash_handle
<1>4. ASSUME NEW b \in 0..(n - 1)
      PROVE  /\ chain[b] \in Seq(Elem) /\ IsInjective(chain[b])
             /\ tbl.buckets[b].count = Len(chain[b])
             /\ \A k \in 1..Len(chain[b]) : hh[chain[b][k]].hh_prev = At(chain[b], k - 1)
             /\ \A e \in Elem :
                  Contains(chain[b], e)
                    <=> InTable(e) /\ HASH_TO_BKT(hh[e].hashv, n) = b
  <2>1. ChainLinked(tbl.buckets[b], hh, chain[b])
    BY <1>1 DEF Woven
  <2>2. /\ chain[b] \in Seq(Elem) /\ IsInjective(chain[b])
        /\ tbl.buckets[b].count = Len(chain[b])
    BY <2>1 DEF ChainLinked, DoublyLinked
  <2>3. ASSUME NEW k \in 1..Len(chain[b])
        PROVE  hh[chain[b][k]].hh_prev = At(chain[b], k - 1)
    <3> DEFINE prev == [e \in Elem |-> hh[e].hh_prev]
    <3>1. prev[chain[b][k]] = At(chain[b], k - 1)
      BY <2>1 DEF ChainLinked, DoublyLinked
    <3>2. chain[b][k] \in Elem
      BY <2>2, Positions
    <3> QED BY <3>1, <3>2
  <2>4. \A e \in Elem : Contains(chain[b], e)
          <=> InTable(e) /\ HASH_TO_BKT(hh[e].hashv, n) = b
    BY <1>1 DEF Woven, Placed, InTable
  <2> QED BY <2>2, <2>3, <2>4
<1>5. \A b \in 0..(n - 1) : chain[b] = Chain(tbl, hh, b)
  BY DEF chain, Chains
<1> QED BY <1>2, <1>3, <1>4, <1>5

(* HASH_FIND finds every element under its key and nothing under a key     *)
(* that is not there.                                                      *)
THEOREM HashFinds == Spec => []FindExact
<1>1. ASSUME HashInv
      PROVE  FindExact
  <2> SUFFICES ASSUME NEW e \in Elem, NEW v \in HashValue,
                      InTable(e) => v = hh[e].hashv
               PROVE  HASH_FIND(e, v) = IF InTable(e) THEN e ELSE Null
    BY DEF FindExact
  <2>1. CASE head = Null
    <3>1. Order = <<>>
      BY <2>1, EmptyOrder DEF Order
    <3>2. ~InTable(e)
      BY <3>1 DEF InTable, Contains
    <3> QED BY <2>1, <3>2 DEF HASH_FIND
  <2>2. CASE head # Null
    <3> DEFINE n == tbl.num_buckets
               b == HASH_TO_BKT(v, n)
               c == Chain(tbl, hh, b)
               found == {k \in DOMAIN c : hh[c[k]].hashv = v /\ c[k] = e}
    <3>1. HASH_FIND(e, v) = IF found = {} THEN Null ELSE c[Min(found)]
      BY <2>2 DEF HASH_FIND
    <3>2. b \in 0..(n - 1)
      <4>1. n \in Nat \ {0} /\ v \in Nat
        BY <1>1, <2>2, WovenChains, HashAssumption
      <4> QED BY <4>1, Bucket
    <3>3. /\ c \in Seq(Elem) /\ IsInjective(c)
          /\ Contains(c, e) <=> InTable(e) /\ HASH_TO_BKT(hh[e].hashv, n) = b
      BY <1>1, <2>2, <3>2, WovenChains
    <3> HIDE DEF c
    <3>4. /\ Len(c) \in Nat /\ DOMAIN c = 1..Len(c)
          /\ \A i, j \in 1..Len(c) : c[i] = c[j] => i = j
      BY <3>3, Positions
    <3>5. CASE InTable(e)
      <4>1. Contains(c, e) /\ hh[e].hashv = v
        BY <2>2, <3>3, <3>5
      <4>2. PICK k \in 1..Len(c) : c[k] = e
        BY <4>1 DEF Contains
      <4>3. found = {k}
        BY <3>4, <4>1, <4>2
      <4>4. Min(found) = k
        <5>1. Min({k}) = k
          BY <4>2 DEF Min
        <5> QED BY <4>3, <5>1, Zenon
      <4> HIDE DEF found
      <4> QED BY <3>1, <3>5, <4>2, <4>3, <4>4
    <3>6. CASE ~InTable(e)
      <4>1. found = {}
        BY <3>3, <3>4, <3>6 DEF Contains
      <4> HIDE DEF found
      <4> QED BY <3>1, <3>6, <4>1
    <3> QED BY <3>5, <3>6
  <2> QED BY <2>1, <2>2
<1> QED BY HashInvariant, <1>1, PTL

(* The list of the application is linked both ways, has as many elements   *)
(* as are counted, and ends at the tail.                                   *)
THEOREM HashListSound == Spec => []ListSound
<1>1. ASSUME HashInv
      PROVE  ListSound
  <2> SUFFICES ASSUME head # Null
               PROVE  /\ Len(Order) = tbl.num_items
                      /\ tbl.tail = Last(Order)
                      /\ \A k \in DOMAIN Order :
                           hh[Order[k]].prev = IF k = 1 THEN Null ELSE Order[k - 1]
    BY DEF ListSound
  <2>1. Woven(head, tbl, hh, Order, Chains(tbl, hh))
    BY <1>1, Whole
  <2> DEFINE o == Order
  <2> HIDE DEF o
  <2>2. /\ tbl.num_items = Len(o) /\ (o # <<>> => tbl.tail = Last(o))
        /\ o \in Seq(Elem) /\ IsInjective(o)
        /\ \A k \in 1..Len(o) : hh[o[k]].prev = At(o, k - 1)
    <3>1. /\ tbl.num_items = Len(o) /\ (o # <<>> => tbl.tail = Last(o))
          /\ ListLinked(head, hh, o)
      BY <2>1 DEF Woven, o
    <3>2. o \in Seq(Elem) /\ IsInjective(o)
      BY <3>1 DEF ListLinked, DoublyLinked
    <3>3. \A k \in 1..Len(o) : o[k] \in Elem
      BY <3>2, Positions
    <3> QED BY <3>1, <3>2, <3>3 DEF ListLinked, DoublyLinked
  <2>3. o # <<>>
    BY <2>1, WovenHead DEF o
  <2>4. DOMAIN o = 1..Len(o) /\ Len(o) \in Nat
    BY <2>2, LenProperties
  <2>5. \A k \in 1..Len(o) : At(o, k - 1) = IF k = 1 THEN Null ELSE o[k - 1]
    BY <2>4 DEF At
  <2>6. /\ Len(o) = tbl.num_items /\ tbl.tail = Last(o)
        /\ \A k \in DOMAIN o : hh[o[k]].prev = IF k = 1 THEN Null ELSE o[k - 1]
    BY <2>2, <2>3, <2>4, <2>5
  <2> QED BY <2>6 DEF o
<1> QED BY HashInvariant, <1>1, PTL

(* Every chain is linked both ways and has the length that is counted for  *)
(* it, and the counts add up to the number of items.                       *)
THEOREM HashChainsSound == Spec => []ChainsSound
<1>1. ASSUME HashInv, head # Null
      PROVE  tbl.num_items
               = SumFunction([b \in DOMAIN tbl.buckets |-> tbl.buckets[b].count])
  <2> DEFINE n == tbl.num_buckets
             D == 0..(n - 1)
             c(b) == Chain(tbl, hh, b)
             Held(s) == {s[k] : k \in 1..Len(s)}
             A == [b \in D |-> Held(c(b))]
             f == [b \in D |-> tbl.buckets[b].count]
  <2>1. /\ n \in Nat \ {0} /\ tbl \in UT_hash_table(n)
        /\ Order \in Seq(Elem) /\ IsInjective(Order)
        /\ tbl.num_items = Len(Order)
        /\ \A e \in Elem : hh[e].hashv \in Nat
        /\ \A b \in D :
             /\ c(b) \in Seq(Elem) /\ IsInjective(c(b))
             /\ tbl.buckets[b].count = Len(c(b))
             /\ \A e \in Elem :
                  Contains(c(b), e)
                    <=> InTable(e) /\ HASH_TO_BKT(hh[e].hashv, n) = b
    BY <1>1, WovenChains
  <2> HIDE DEF c
  <2>2. ASSUME NEW s \in Seq(Elem), IsInjective(s)
        PROVE  /\ Held(s) \in SUBSET Elem /\ Cardinality(Held(s)) = Len(s)
               /\ Len(s) \in Nat
               /\ \A e \in Elem : e \in Held(s) <=> Contains(s, e)
    <3>1. Cardinality(Held(s)) = Len(s)
      BY <2>2, InjectiveLength
    <3>2. Held(s) \in SUBSET Elem /\ Len(s) \in Nat
      BY LenProperties
    <3>3. \A e \in Elem : e \in Held(s) <=> Contains(s, e)
      BY DEF Contains
    <3> QED BY <3>1, <3>2, <3>3
  <2> HIDE DEF Held
  <2>3. ASSUME NEW b \in D
        PROVE  /\ A[b] \in SUBSET Elem /\ f[b] \in Nat /\ f[b] = Cardinality(A[b])
               /\ \A e \in Elem : e \in A[b]
                    <=> InTable(e) /\ HASH_TO_BKT(hh[e].hashv, n) = b
    BY <2>1, <2>2
  <2>4. A \in [D -> SUBSET Elem] /\ f \in [D -> Nat]
    <3> DEFINE B(b) == Held(c(b))
               g(b) == tbl.buckets[b].count
    <3>1. \A b \in D : B(b) \in SUBSET Elem /\ g(b) \in Nat
      BY <2>1, <2>2
    <3> QED BY <3>1
  <2>5. IsFiniteSet(D) /\ IsFiniteSet(Elem)
    <3>1. 0 \in Int /\ n - 1 \in Int
      BY <2>1
    <3> QED BY <3>1, FS_Interval, HashAssumption
  <2>6. DOMAIN tbl.buckets = D
    BY <2>1 DEF UT_hash_table
  <2>7. f = [b \in DOMAIN tbl.buckets |-> tbl.buckets[b].count]
    BY <2>6
  <2> HIDE DEF A, f
  <2>8. \A a, b \in D : a # b => A[a] \cap A[b] = {}
    BY <2>3, <2>4
  <2>9. SumFunction(f) = Cardinality(UNION {A[b] : b \in D})
    <3> HIDE DEF D
    <3> QED BY <2>3, <2>4, <2>5, <2>8, SumOfSizes
  <2>10. UNION {A[b] : b \in D} = Held(Order)
    <3>1. \A e \in Elem : e \in Held(Order) <=> InTable(e)
      BY <2>1, <2>2 DEF InTable
    <3>2. \A e \in Elem : HASH_TO_BKT(hh[e].hashv, n) \in D
      BY <2>1, Bucket
    <3>3. Held(Order) \in SUBSET Elem
      BY <2>1, <2>2
    <3> HIDE DEF D
    <3>4. \A e \in Elem : (\E b \in D : e \in A[b]) <=> e \in Held(Order)
      BY <2>3, <3>1, <3>2
    <3> QED BY <2>4, <3>3, <3>4
  <2>11. Cardinality(Held(Order)) = Len(Order)
    BY <2>1, <2>2
  <2> QED BY <2>1, <2>7, <2>9, <2>10, <2>11
<1>2. ASSUME HashInv
      PROVE  ChainsSound
  <2>1. ASSUME head # Null, NEW b \in 0..(tbl.num_buckets - 1)
        PROVE  LET c == Chain(tbl, hh, b)
               IN  /\ tbl.buckets[b].count = Len(c)
                   /\ \A k \in DOMAIN c :
                        hh[c[k]].hh_prev = IF k = 1 THEN Null ELSE c[k - 1]
    <3> DEFINE c == Chain(tbl, hh, b)
    <3>1. /\ c \in Seq(Elem) /\ tbl.buckets[b].count = Len(c)
          /\ \A k \in 1..Len(c) : hh[c[k]].hh_prev = At(c, k - 1)
      BY <1>2, <2>1, WovenChains
    <3> HIDE DEF c
    <3>2. DOMAIN c = 1..Len(c) /\ Len(c) \in Nat
      BY <3>1, LenProperties
    <3>3. \A k \in 1..Len(c) : At(c, k - 1) = IF k = 1 THEN Null ELSE c[k - 1]
      BY <3>2 DEF At
    <3>4. /\ tbl.buckets[b].count = Len(c)
          /\ \A k \in DOMAIN c :
               hh[c[k]].hh_prev = IF k = 1 THEN Null ELSE c[k - 1]
      BY <3>1, <3>2, <3>3
    <3> QED BY <3>4 DEF c
  <2> QED BY <1>1, <1>2, <2>1 DEF ChainsSound
<1> QED BY HashInvariant, <1>2, PTL
=============================================================================
