---------------------------- MODULE LibraryProofs ----------------------------
(***************************************************************************)
(* Proofs about what hosts do with a store of memories: a listing names    *)
(* every row its lens showed throughout, an answer about an insertion is   *)
(* the first one that was recorded, a batch leaves behind a prefix of its  *)
(* operations, a sleep pass forgets what it saw, and a recall and a        *)
(* prepared context keep the best of their hits.                           *)
(***************************************************************************)
EXTENDS Library, FiniteSetTheorems, SequenceTheorems, WellFoundedInduction, TLAPS

(* Numbers and sequences *)

\* A set of numbers that holds 0, and with each number the next, holds all.
LEMMA SetInduction ==
  ASSUME NEW G, 0 \in G, \A n \in Nat : n \in G => n + 1 \in G
  PROVE  Nat \subseteq G
<1> DEFINE rest == Nat \ G
<1>1. SUFFICES ASSUME rest # {} PROVE FALSE
  OBVIOUS
<1>2. PICK n \in rest : \A m \in rest : ~(<<m, n>> \in OpToRel(<, Nat))
  <2>1. rest \subseteq Nat
    OBVIOUS
  <2> HIDE DEF rest
  <2>2. QED
    BY <1>1, <2>1, NatLessThanWellFounded, WFMin
<1>3. \A m \in rest : ~(m < n)
  BY <1>2 DEF OpToRel
<1>4. n - 1 \in Nat /\ n - 1 \in G
  BY <1>3
<1>5. QED
  BY <1>4

\* The members of a finite set of numbers have ranks, one each.
LEMMA NthIs ==
  ASSUME NEW I, I \subseteq Nat, IsFiniteSet(I)
  PROVE  /\ Cardinality(I) \in Nat
         /\ \A k \in 1 .. Cardinality(I) :
              Nth(I, k) \in I /\ Cardinality({j \in I : j <= Nth(I, k)}) = k
<1> DEFINE upto(i) == {j \in I : j <= i}
           n == Cardinality(I)
           rank == [i \in I |-> Cardinality(upto(i))]
<1>1. n \in Nat
  BY FS_CardinalityType
<1>2. \A i \in I : IsFiniteSet(upto(i)) /\ Cardinality(upto(i)) \in 1 .. n
  <2> SUFFICES ASSUME NEW i \in I PROVE IsFiniteSet(upto(i)) /\ Cardinality(upto(i)) \in 1 .. n
    OBVIOUS
  <2>1. upto(i) \in SUBSET I /\ i \in upto(i)
    OBVIOUS
  <2> HIDE DEF upto
  <2>2. IsFiniteSet(upto(i)) /\ Cardinality(upto(i)) <= n
    BY <2>1, FS_Subset
  <2>3. Cardinality(upto(i)) \in Nat /\ Cardinality(upto(i)) # 0
    BY <2>1, <2>2, FS_CardinalityType, FS_EmptySet
  <2>4. QED
    BY <1>1, <2>2, <2>3
<1>3. ASSUME NEW i \in I, NEW j \in I, i < j
      PROVE  Cardinality(upto(i)) # Cardinality(upto(j))
  <2>1. i \in Nat /\ j \in Nat /\ j \in upto(j) /\ j \notin upto(i)
    BY <1>3
  <2>2. upto(i) \in SUBSET upto(j) /\ upto(i) # upto(j)
    <3>1. \A m \in upto(i) : m \in upto(j)
      BY <1>3, <2>1
    <3>2. QED
      BY <2>1, <3>1
  <2> HIDE DEF upto
  <2>3. QED
    BY <1>2, <2>2, FS_Subset
<1>4. rank \in Injection(I, 1 .. n)
  <2>1. rank \in [I -> 1 .. n]
    BY <1>2
  <2>2. \A i, j \in I : rank[i] = rank[j] => i = j
    <3>1. SUFFICES ASSUME NEW i \in I, NEW j \in I, rank[i] = rank[j], i # j PROVE FALSE
      OBVIOUS
    <3>2. i < j \/ j < i
      BY <3>1
    <3>3. QED
      BY <1>3, <3>1, <3>2
  <2>3. QED
    BY <2>1, <2>2 DEF Injection, IsInjective
<1>5. IsFiniteSet(1 .. n) /\ Cardinality(1 .. n) = n
  BY <1>1, FS_Interval
<1>6. rank \in Surjection(I, 1 .. n)
  <2> HIDE DEF rank
  <2>1. QED
    BY <1>4, <1>5, FS_Injection
<1>7. \A k \in 1 .. n : \E i \in I : Cardinality(upto(i)) = k
  BY <1>6 DEF Surjection
<1>8. QED
  BY <1>1, <1>7 DEF Nth

\* What a sequence has at some of its places is a sequence.
LEMMA AmongIs ==
  ASSUME NEW s, NEW I, I \subseteq Nat, IsFiniteSet(I)
  PROVE  /\ Among(s, I) \in Seq(Range(Among(s, I)))
         /\ DOMAIN Among(s, I) = 1 .. Cardinality(I) /\ Cardinality(I) \in Nat
         /\ \A k \in DOMAIN Among(s, I) : Nth(I, k) \in I /\ Among(s, I)[k] = s[Nth(I, k)]
<1> DEFINE n == Cardinality(I)
           a == Among(s, I)
<1>1. n \in Nat /\ \A k \in 1 .. n : Nth(I, k) \in I
  BY NthIs
<1>2. a = [k \in 1 .. n |-> s[Nth(I, k)]]
  BY DEF Among
<1>3. a \in [1 .. n -> Range(a)]
  BY <1>2 DEF Range
<1> HIDE DEF a
<1>4. a \in Seq(Range(a))
  <2>1. Seq(Range(a)) = UNION {[1 .. k -> Range(a)] : k \in Nat}
    BY SeqDef
  <2>2. QED
    BY <1>1, <1>3, <2>1
<1>5. QED
  BY <1>1, <1>2, <1>4 DEF a

\* A function of the first numbers is a sequence.
LEMMA InSeq ==
  ASSUME NEW S, NEW n \in Nat, NEW s \in [1 .. n -> S]
  PROVE  s \in Seq(S) /\ Len(s) = n /\ DOMAIN s = 1 .. n
<1>1. s \in Seq(S)
  BY SeqDef
<1>2. QED
  BY <1>1, LenProperties

\* An element that is appended leaves those before it where they are.
LEMMA Appends ==
  ASSUME NEW s, NEW e, NEW t, s \in Seq(Range(s)), t = Append(s, e)
  PROVE  /\ t \in Seq(Range(t)) /\ Len(s) \in Nat /\ Len(t) = Len(s) + 1
         /\ DOMAIN s = 1 .. Len(s) /\ DOMAIN t = 1 .. Len(s) + 1
         /\ \A i \in 1 .. Len(s) : t[i] = s[i]
         /\ t[Len(s) + 1] = e
         /\ Range(t) = Range(s) \cup {e}
<1> DEFINE S == Range(s) \cup {e}
<1>1. s \in Seq(S) /\ e \in S
  BY SeqMonotonic
<1>2. /\ t \in Seq(S) /\ Len(s) \in Nat /\ Len(t) = Len(s) + 1 /\ DOMAIN s = 1 .. Len(s)
      /\ \A i \in 1 .. Len(s) : t[i] = s[i]
      /\ t[Len(s) + 1] = e
  BY <1>1, AppendProperties, LenProperties
<1>3. t \in [1 .. Len(s) + 1 -> S] /\ DOMAIN t = 1 .. Len(s) + 1
  BY <1>2, LenProperties
<1>4. t \in [1 .. Len(s) + 1 -> Range(t)]
  BY <1>3 DEF Range
<1>5. t \in Seq(Range(t))
  <2>1. Len(t) \in Nat /\ t \in [1 .. Len(t) -> Range(t)]
    BY <1>2, <1>4
  <2>2. QED
    BY <2>1, InSeq
<1>6. Range(t) = Range(s) \cup {e}
  <2>1. \A i \in DOMAIN t : i \in DOMAIN s \/ i = Len(s) + 1
    BY <1>2, <1>3
  <2>2. DOMAIN s \subseteq DOMAIN t /\ Len(s) + 1 \in DOMAIN t
    BY <1>2, <1>3
  <2>3. QED
    BY <1>2, <2>1, <2>2 DEF Range
<1>7. QED
  BY <1>2, <1>3, <1>5, <1>6

\* The greatest of some numbers up to a bound is one of them.
LEMMA MaxIs ==
  ASSUME NEW n \in Nat, NEW s \in SUBSET (1 .. n), s # {}
  PROVE  Max(s) \in s /\ \A i \in s : i <= Max(s)
<1>1. SUFFICES \E m \in s : \A i \in s : i <= m
  BY DEF Max
<1>2. SUFFICES ASSUME \A m \in s : \E i \in s : ~(i <= m) PROVE FALSE
  OBVIOUS
<1> DEFINE H == {k \in Nat : \E m \in s : m >= k}
<1>3. 0 \in H
  <2>1. PICK m \in s : TRUE
    OBVIOUS
  <2>2. m \in 1 .. n
    OBVIOUS
  <2>3. m >= 0
    BY <2>2
  <2>4. QED
    BY <2>3
<1>4. ASSUME NEW k \in Nat, k \in H PROVE k + 1 \in H
  BY <1>2, <1>4
<1>5. Nat \subseteq H
  <2> HIDE DEF H
  <2>1. QED
    BY <1>3, <1>4, SetInduction
<1>6. n + 1 \in H
  BY <1>5
<1>7. QED
  BY <1>6

LEMMA MaxUpTo ==
  ASSUME NEW i \in Nat, i # 0
  PROVE  /\ 1 .. i # {} /\ Max(1 .. i) = i
         /\ (1 .. i) \ {i} = 1 .. i - 1
<1>1. 1 .. i \in SUBSET (1 .. i) /\ i \in 1 .. i
  OBVIOUS
<1>2. Max(1 .. i) \in 1 .. i /\ i <= Max(1 .. i)
  BY <1>1, MaxIs
<1>3. QED
  BY <1>2

\* What holds at first, and after each step if it did before, holds all along.
LEMMA Upward ==
  ASSUME NEW n \in Nat, NEW G, 0 \in G, \A i \in 1 .. n : i - 1 \in G => i \in G
  PROVE  0 .. n \subseteq G
<1> DEFINE H == {k \in Nat : k <= n => k \in G}
<1>1. 0 \in H
  OBVIOUS
<1>2. ASSUME NEW k \in Nat, k \in H PROVE k + 1 \in H
  <2>1. k + 1 <= n => k + 1 \in 1 .. n /\ (k + 1) - 1 = k /\ k <= n
    OBVIOUS
  <2>2. k + 1 <= n => k + 1 \in G
    BY <1>2, <2>1
  <2>3. QED
    BY <2>2
<1> HIDE DEF H
<1>3. Nat \subseteq H
  BY <1>1, <1>2, SetInduction
<1>4. QED
  BY <1>3 DEF H

\* What a fold over a sequence is defined by.
FoldsBy(g, base, step, n) ==
    \A s \in SUBSET (1 .. n) : g[s] = IF s = {} THEN base ELSE step[<<Max(s), g[s \ {Max(s)}]>>]

LEMMA FoldExists ==
  ASSUME NEW X, NEW base \in X, NEW n \in Nat, NEW step \in [(1 .. n) \X X -> X]
  PROVE  \E g \in [SUBSET (1 .. n) -> X] : FoldsBy(g, base, step, n)
<1> DEFINE Folds(g, k) == \A s \in SUBSET (1 .. k) :
                            g[s] = IF s = {} THEN base ELSE step[<<Max(s), g[s \ {Max(s)}]>>]
           Has(k) == \E g \in [SUBSET (1 .. k) -> X] : Folds(g, k)
<1>1. Has(0)
  <2>1. [s \in SUBSET (1 .. 0) |-> base] \in [SUBSET (1 .. 0) -> X]
    OBVIOUS
  <2>2. \A s \in SUBSET (1 .. 0) : s = {}
    OBVIOUS
  <2>3. QED
    BY <2>1, <2>2
<1>2. ASSUME NEW k \in Nat, k + 1 <= n, Has(k) PROVE Has(k + 1)
  <2>2. PICK g \in [SUBSET (1 .. k) -> X] : Folds(g, k)
    BY <1>2
  <2> DEFINE h == [s \in SUBSET (1 .. k + 1) |->
                     IF k + 1 \in s THEN step[<<k + 1, g[s \ {k + 1}]>>] ELSE g[s]]
  <2>3. \A s \in SUBSET (1 .. k + 1) : s \ {k + 1} \in SUBSET (1 .. k)
    OBVIOUS
  <2>4. \A s \in SUBSET (1 .. k + 1) : k + 1 \notin s => s \in SUBSET (1 .. k)
    OBVIOUS
  <2>5. h \in [SUBSET (1 .. k + 1) -> X]
    BY <1>2, <2>2, <2>3, <2>4
  <2>6. ASSUME NEW s \in SUBSET (1 .. k + 1), k + 1 \in s
        PROVE  h[s] = IF s = {} THEN base ELSE step[<<Max(s), h[s \ {Max(s)}]>>]
    <3>1. Max(s) = k + 1
      <4>1. k + 1 \in Nat /\ s # {}
        BY <2>6
      <4>2. Max(s) \in s /\ \A i \in s : i <= Max(s)
        BY <4>1, MaxIs
      <4>3. Max(s) \in 1 .. k + 1 /\ k + 1 <= Max(s)
        BY <2>6, <4>2
      <4>4. QED
        BY <4>3
    <3>2. h[s \ {k + 1}] = g[s \ {k + 1}]
      BY <2>3
    <3>3. QED
      BY <2>6, <3>1, <3>2
  <2>7. ASSUME NEW s \in SUBSET (1 .. k + 1), k + 1 \notin s
        PROVE  h[s] = IF s = {} THEN base ELSE step[<<Max(s), h[s \ {Max(s)}]>>]
    <3>1. s \in SUBSET (1 .. k) /\ s \ {Max(s)} \in SUBSET (1 .. k)
      BY <2>4, <2>7
    <3>2. h[s] = g[s] /\ h[s \ {Max(s)}] = g[s \ {Max(s)}]
      BY <2>7, <3>1
    <3>3. g[s] = IF s = {} THEN base ELSE step[<<Max(s), g[s \ {Max(s)}]>>]
      BY <2>2, <3>1
    <3>4. QED
      BY <3>2, <3>3
  <2>8. Folds(h, k + 1)
    BY <2>6, <2>7
  <2>9. QED
    BY <2>5, <2>8
<1>3. Has(n)
  <2> HIDE DEF Has
  <2> DEFINE G == {k \in 0 .. n : Has(k)}
  <2>1. 0 \in G
    BY <1>1
  <2>2. ASSUME NEW k \in 1 .. n, k - 1 \in G PROVE k \in G
    <3>1. k - 1 \in Nat /\ (k - 1) + 1 = k /\ k <= n
      OBVIOUS
    <3>2. Has(k)
      BY <1>2, <2>2, <3>1
    <3>3. QED
      BY <3>2
  <2> HIDE DEF G
  <2>3. n \in G
    BY <2>1, <2>2, Upward
  <2>4. QED
    BY <2>3 DEF G
<1>4. QED
  BY <1>3 DEF FoldsBy

StepsBy(h, X, base, step, n) ==
    \A s \in SUBSET (1 .. n) :
        /\ s = {} => h[s] = base
        /\ s # {} /\ h[s \ {Max(s)}] \in X => h[s] = step[<<Max(s), h[s \ {Max(s)}]>>]

RunsBy(f, base, step, n) ==
    f[0] = base /\ \A i \in 1 .. n : f[i] = step[<<i, f[i - 1]>>]

\* What satisfies such a definition is reached step by step.
LEMMA FoldSteps ==
  ASSUME NEW X, NEW base \in X, NEW n \in Nat, NEW step \in [(1 .. n) \X X -> X],
         NEW h, StepsBy(h, X, base, step, n)
  PROVE  \E f \in [0 .. n -> X] :
            f[n] = h[1 .. n] /\ RunsBy(f, base, step, n)
<1> DEFINE f == [i \in 0 .. n |-> h[1 .. i]]
<1>1. f[0] = base /\ f[n] = h[1 .. n]
  <2>1. 1 .. 0 = {} /\ 1 .. 0 \in SUBSET (1 .. n) /\ n \in 0 .. n /\ 0 \in 0 .. n
    OBVIOUS
  <2>2. h[1 .. 0] = base
    BY <2>1 DEF StepsBy
  <2>3. QED
    BY <2>1, <2>2
<1>2. ASSUME NEW i \in 1 .. n, f[i - 1] \in X PROVE f[i] = step[<<i, f[i - 1]>>]
  <2>1. 1 .. i \in SUBSET (1 .. n) /\ i - 1 \in 0 .. n /\ i \in 0 .. n /\ i \in Nat /\ i # 0
    OBVIOUS
  <2>2. 1 .. i # {} /\ Max(1 .. i) = i /\ (1 .. i) \ {i} = 1 .. i - 1
    BY <2>1, MaxUpTo
  <2>3. f[i] = h[1 .. i] /\ f[i - 1] = h[1 .. i - 1]
    BY <2>1
  <2> HIDE DEF f
  <2>4. h[(1 .. i) \ {Max(1 .. i)}] \in X
    BY <1>2, <2>2, <2>3
  <2>5. h[1 .. i] = step[<<Max(1 .. i), h[(1 .. i) \ {Max(1 .. i)}]>>]
    BY <2>1, <2>2, <2>4 DEF StepsBy
  <2>6. QED
    BY <2>2, <2>3, <2>5
<1>3. \A i \in 0 .. n : f[i] \in X
  <2> DEFINE G == {i \in 0 .. n : f[i] \in X}
  <2>1. 0 \in G
    BY <1>1
  <2>2. ASSUME NEW i \in 1 .. n, i - 1 \in G PROVE i \in G
    <3>1. f[i - 1] \in X /\ f[i] = step[<<i, f[i - 1]>>]
      BY <1>2, <2>2
    <3> HIDE DEF f
    <3>2. QED
      BY <3>1
  <2> HIDE DEF G
  <2>3. 0 .. n \subseteq G
    BY <2>1, <2>2, Upward
  <2>4. QED
    BY <2>3 DEF G
<1>4. f \in [0 .. n -> X]
  BY <1>3
<1>5. \A i \in 1 .. n : f[i] = step[<<i, f[i - 1]>>]
  <2> SUFFICES ASSUME NEW i \in 1 .. n PROVE f[i] = step[<<i, f[i - 1]>>]
    OBVIOUS
  <2>1. i - 1 \in 0 .. n
    OBVIOUS
  <2>2. f[i - 1] \in X
    BY <1>3, <2>1
  <2>3. QED
    BY <1>2, <2>2
<1>6. RunsBy(f, base, step, n)
  <2> HIDE DEF f
  <2>1. QED
    BY <1>1, <1>5 DEF RunsBy
<1>7. QED
  BY <1>1, <1>4, <1>6

\* The least of some numbers is one of them.
LEMMA MinIs ==
  ASSUME NEW S, S \subseteq Nat, S # {}
  PROVE  Min(S) \in S /\ \A i \in S : Min(S) <= i
<1>1. SUFFICES \E m \in S : \A i \in S : m <= i
  BY DEF Min
<1>2. SUFFICES ASSUME \A m \in S : \E i \in S : ~(m <= i) PROVE FALSE
  OBVIOUS
<1> DEFINE H == {k \in Nat : \A m \in S : m >= k}
<1>3. 0 \in H
  OBVIOUS
<1>4. ASSUME NEW k \in Nat, k \in H PROVE k + 1 \in H
  BY <1>2, <1>4
<1>5. Nat \subseteq H
  <2> HIDE DEF H
  <2>1. QED
    BY <1>3, <1>4, SetInduction
<1>6. PICK m \in S : TRUE
  OBVIOUS
<1>7. m \in Nat /\ m + 1 \in H
  BY <1>5
<1>8. m >= m + 1
  BY <1>7
<1>9. QED
  BY <1>7, <1>8

\* What an injective function has at the members of a finite set is as many.
LEMMA ImageCount ==
  ASSUME NEW s, IsInjective(s), NEW K, K \subseteq DOMAIN s, IsFiniteSet(K)
  PROVE  LET image == {s[k] : k \in K}
         IN  IsFiniteSet(image) /\ Cardinality(image) = Cardinality(K)
<1> DEFINE image == {s[k] : k \in K}
           f == [k \in K |-> s[k]]
<1>1. f \in Bijection(K, image)
  BY DEF Bijection, Injection, Surjection, IsInjective
<1> HIDE DEF f, image
<1>2. QED
  BY <1>1, FS_Bijection DEF image, ExistsBijection

\* What is at some places of a sequence that repeats nothing, in their order: it
\* repeats nothing either, and has what is there.
LEMMA AmongKeeps ==
  ASSUME NEW S, NEW s \in Seq(S), IsInjective(s), NEW I, I \subseteq DOMAIN s
  PROVE  /\ Among(s, I) \in Seq(S) /\ IsInjective(Among(s, I))
         /\ Len(Among(s, I)) = Cardinality(I) /\ Cardinality(I) \in Nat /\ IsFiniteSet(I)
         /\ Range(Among(s, I)) = {s[i] : i \in I}
<1> DEFINE n == Cardinality(I)
           nth == [k \in 1 .. n |-> Nth(I, k)]
<1>1. /\ DOMAIN s = 1 .. Len(s) /\ Len(s) \in Nat /\ \A i \in DOMAIN s : s[i] \in S
  BY LenProperties
<1>2. IsFiniteSet(I) /\ I \subseteq Nat
  <2>1. IsFiniteSet(1 .. Len(s)) /\ I \in SUBSET (1 .. Len(s))
    BY <1>1, FS_Interval
  <2>2. QED
    BY <1>1, <2>1, FS_Subset
<1>3. n \in Nat /\ \A k \in 1 .. n : Nth(I, k) \in I /\ Cardinality({j \in I : j <= Nth(I, k)}) = k
  BY <1>2, NthIs
<1>4. Among(s, I) = [k \in 1 .. n |-> s[Nth(I, k)]]
  BY DEF Among
<1>5. nth \in Injection(1 .. n, I)
  <2>1. nth \in [1 .. n -> I]
    BY <1>3
  <2>2. \A k, m \in 1 .. n : Nth(I, k) = Nth(I, m) => k = m
    BY <1>3
  <2>3. QED
    BY <2>1, <2>2 DEF Injection, IsInjective
<1>6. nth \in Surjection(1 .. n, I)
  <2>1. IsFiniteSet(1 .. n) /\ Cardinality(1 .. n) = n
    BY <1>3, FS_Interval
  <2> HIDE DEF nth
  <2>2. QED
    BY <1>2, <1>5, <2>1, FS_Injection
<1>7. \A i \in I : \E k \in 1 .. n : Nth(I, k) = i
  BY <1>6 DEF Surjection
<1>8. Among(s, I) \in [1 .. n -> S]
  BY <1>1, <1>3, <1>4
<1>9. Among(s, I) \in Seq(S) /\ Len(Among(s, I)) = n
  BY <1>3, <1>8, InSeq
<1>10. IsInjective(Among(s, I))
  <2> SUFFICES ASSUME NEW k \in 1 .. n, NEW m \in 1 .. n, s[Nth(I, k)] = s[Nth(I, m)]
               PROVE  k = m
    BY <1>4 DEF IsInjective
  <2>1. Nth(I, k) \in DOMAIN s /\ Nth(I, m) \in DOMAIN s
    BY <1>3
  <2>2. Nth(I, k) = Nth(I, m)
    BY <2>1 DEF IsInjective
  <2>3. QED
    BY <1>3, <2>2
<1>11. Range(Among(s, I)) = {s[i] : i \in I}
  <2>1. \A e \in Range(Among(s, I)) : e \in {s[i] : i \in I}
    BY <1>3, <1>4 DEF Range
  <2>2. \A i \in I : s[i] \in Range(Among(s, I))
    BY <1>4, <1>7 DEF Range
  <2>3. QED
    BY <2>1, <2>2
<1>12. QED
  BY <1>2, <1>3, <1>9, <1>10, <1>11

-----------------------------------------------------------------------------
(* The listing *)

Row == [state : {"absent", "live", "gone"}, from : Time, until : Time \cup {Open},
        created : Time, closed : Time \cup {Open}]

ListCall == [phase : {"idle", "open", "done", "too_large", "refused"},
             asOf : Nat, sys : Nat, begun : Time, limit : Nat \ {0}, counting : BOOLEAN,
             pages : Nat, cursor : Seq(RowId), items : Seq(RowId),
             standing : SUBSET RowId, ever : SUBSET RowId, first : SUBSET RowId]

TableFits == rows \in [RowId -> Row] /\ clock \in Time

\* The pages so far descend, and name only rows that were there and that the
\* lens showed; under a system lens of the past it only ever shows fewer.
PagesFit(l) ==
    /\ \A i, j \in DOMAIN l.items : i < j => Before(rows, l.items[i], l.items[j])
    /\ \A i \in DOMAIN l.items : l.items[i] \in l.ever
    /\ \A r \in l.ever : rows[r].state # "absent"
    /\ l.standing \subseteq l.ever
    /\ l.sys \in 1 .. (l.begun - 1) => l.ever \subseteq l.first
    /\ l.begun <= clock

\* A row the lens showed all the time has been named, or comes after the cursor,
\* which is the last row that was named.
CursorFits(l) ==
    /\ l.standing \subseteq Shown(rows, l.asOf, l.sys)
    /\ Shown(rows, l.asOf, l.sys) \subseteq l.ever
    /\ \/ l.items = <<>> /\ l.cursor = <<>>
       \/ l.items # <<>> /\ l.cursor = <<l.items[Len(l.items)]>>
    /\ \A r \in l.standing : r \in ToSet(l.items) \/ After(rows, l.cursor, r)

CallFits ==
    /\ listing \in ListCall
    /\ PagesFit(listing)
    /\ listing.phase = "idle" => listing.items = <<>> /\ listing.ever = {}
    /\ listing.phase = "open" => CursorFits(listing)
    /\ listing.phase = "done" => listing.standing \subseteq ToSet(listing.items)

ListingInv == TableFits /\ CallFits

-----------------------------------------------------------------------------

LEMMA Bounds ==
  /\ MaxRows \in Nat /\ MaxTime \in Nat \ {0} /\ RowId \subseteq Nat /\ Time \subseteq Nat \ {0}
  /\ Open \in Nat /\ Open \notin Time /\ \A t \in Time : t < Open
  /\ Unset = 0 /\ 1 \in Time
BY ListingAssumption DEF RowId, Time, Open, Unset

\* ORDER BY valid_from DESC, id DESC is a strict order in which any two rows are
\* comparable.
LEMMA Ordered ==
  ASSUME TableFits, NEW r \in RowId, NEW s \in RowId
  PROVE  /\ ~Before(rows, r, r)
         /\ r # s => Before(rows, r, s) \/ Before(rows, s, r)
         /\ Before(rows, r, s) => ~Before(rows, s, r)
         /\ \A t \in RowId : Before(rows, r, s) /\ Before(rows, s, t) => Before(rows, r, t)
<1>1. \A t \in RowId : rows[t].from \in Nat /\ t \in Nat
  BY Bounds DEF TableFits, Row
<1>2. QED
  BY <1>1 DEF Before

\* The number of those before it gives every row of a set a place of its own.
Earlier(S, r) == {s \in S : Before(rows, s, r)}

LEMMA Places ==
  ASSUME TableFits, NEW S \in SUBSET RowId
  PROVE  /\ IsFiniteSet(S) /\ Cardinality(S) \in Nat
         /\ \A r, s \in S : Before(rows, r, s) =>
              Cardinality(Earlier(S, r)) < Cardinality(Earlier(S, s))
         /\ \A r \in S : Cardinality(Earlier(S, r)) \in 0 .. Cardinality(S) - 1
         /\ \A i \in 1 .. Cardinality(S) : \E r \in S : Cardinality(Earlier(S, r)) = i - 1
<1>1. IsFiniteSet(S) /\ Cardinality(S) \in Nat
  <2>1. IsFiniteSet(RowId)
    BY Bounds, FS_Interval DEF RowId
  <2>2. QED
    BY <2>1, FS_Subset, FS_CardinalityType
<1>2. ASSUME NEW r \in S
      PROVE  IsFiniteSet(Earlier(S, r)) /\ Cardinality(Earlier(S, r)) \in 0 .. Cardinality(S) - 1
  <2>1. Earlier(S, r) \in SUBSET (S \ {r})
    BY Ordered DEF Earlier
  <2>2. IsFiniteSet(S \ {r}) /\ Cardinality(S \ {r}) = Cardinality(S) - 1
    BY <1>1, FS_RemoveElement
  <2>3. IsFiniteSet(Earlier(S, r)) /\ Cardinality(Earlier(S, r)) <= Cardinality(S) - 1
    BY <2>1, <2>2, FS_Subset
  <2>4. Cardinality(Earlier(S, r)) \in Nat
    BY <2>3, FS_CardinalityType
  <2>5. QED
    BY <1>1, <2>3, <2>4
<1>3. ASSUME NEW r \in S, NEW s \in S, Before(rows, r, s)
      PROVE  Cardinality(Earlier(S, r)) < Cardinality(Earlier(S, s))
  <2>1. Earlier(S, r) \in SUBSET Earlier(S, s)
    BY <1>3, Ordered DEF Earlier
  <2>2. r \in Earlier(S, s) /\ r \notin Earlier(S, r)
    BY <1>3, Ordered DEF Earlier
  <2>3. /\ Cardinality(Earlier(S, r)) <= Cardinality(Earlier(S, s))
        /\ Cardinality(Earlier(S, s)) # Cardinality(Earlier(S, r))
    BY <1>2, <2>1, <2>2, FS_Subset
  <2>4. QED
    BY <1>1, <1>2, <2>3
<1>4. ASSUME NEW i \in 1 .. Cardinality(S)
      PROVE  \E r \in S : Cardinality(Earlier(S, r)) = i - 1
  <2> DEFINE n == Cardinality(S)
             place == [r \in S |-> Cardinality(Earlier(S, r)) + 1]
  <2>1. place \in [S -> 1 .. n]
    BY <1>1, <1>2
  <2>2. \A r, s \in S : place[r] = place[s] => r = s
    <3>1. ASSUME NEW r \in S, NEW s \in S, r # s PROVE place[r] # place[s]
      <4>1. Before(rows, r, s) \/ Before(rows, s, r)
        BY <3>1, Ordered
      <4>2. /\ Cardinality(Earlier(S, r)) \in Nat /\ Cardinality(Earlier(S, s)) \in Nat
            /\ Cardinality(Earlier(S, r)) # Cardinality(Earlier(S, s))
        BY <1>1, <1>2, <1>3, <4>1
      <4>3. QED
        BY <4>2
    <3>2. QED
      BY <3>1
  <2>3. IsFiniteSet(1 .. n) /\ Cardinality(1 .. n) = n
    BY <1>1, FS_Interval
  <2>4. place \in Injection(S, 1 .. n)
    BY <2>1, <2>2 DEF Injection, IsInjective
  <2>5. place \in Surjection(S, 1 .. n)
    BY <2>3, <2>4, FS_Injection
  <2>6. PICK r \in S : place[r] = i
    BY <2>5 DEF Surjection
  <2>7. Cardinality(Earlier(S, r)) \in Nat /\ Cardinality(Earlier(S, r)) + 1 = i
    BY <1>1, <1>2, <2>6
  <2>8. QED
    BY <2>7
<1>5. QED
  BY <1>1, <1>2, <1>3, <1>4

\* What a query brings: every row that is left, once, in the order of the listing.
LEMMA MatchingFits ==
  ASSUME TableFits, NEW l
  PROVE  /\ Matching(l) \in Seq(RowId) /\ Len(Matching(l)) = Cardinality(Left(l))
         /\ \A i \in DOMAIN Matching(l) : Matching(l)[i] \in Left(l)
         /\ \A i, j \in DOMAIN Matching(l) :
              i < j => Before(rows, Matching(l)[i], Matching(l)[j])
         /\ \A r \in Left(l) : \E i \in DOMAIN Matching(l) : Matching(l)[i] = r
<1> DEFINE S == Left(l)
           n == Cardinality(S)
           found == Matching(l)
<1>1. S \in SUBSET RowId
  BY DEF Left, Shown
<1>2. found = [i \in 1 .. n |-> CHOOSE r \in S : Cardinality(Earlier(S, r)) = i - 1]
  BY DEF Matching, Earlier
<1> HIDE DEF S, found
<1>3. /\ n \in Nat
      /\ \A r, s \in S : Before(rows, r, s) =>
           Cardinality(Earlier(S, r)) < Cardinality(Earlier(S, s))
      /\ \A r \in S : Cardinality(Earlier(S, r)) \in 0 .. n - 1
      /\ \A i \in 1 .. n : \E r \in S : Cardinality(Earlier(S, r)) = i - 1
  BY <1>1, Places
<1> HIDE DEF n
<1>4. \A i \in 1 .. n : found[i] \in S /\ Cardinality(Earlier(S, found[i])) = i - 1
  <2>1. SUFFICES ASSUME NEW i \in 1 .. n
                 PROVE  found[i] \in S /\ Cardinality(Earlier(S, found[i])) = i - 1
    OBVIOUS
  <2>2. found[i] = CHOOSE r \in S : Cardinality(Earlier(S, r)) = i - 1
    BY <1>2
  <2>3. QED
    BY <1>3, <2>2
<1>5. found \in [1 .. n -> RowId]
  BY <1>1, <1>2, <1>4
<1>6. found \in Seq(RowId) /\ Len(found) = n /\ DOMAIN found = 1 .. n
  BY <1>3, <1>5, SeqDef, LenProperties
<1>7. ASSUME NEW i \in 1 .. n, NEW j \in 1 .. n, i < j
      PROVE  Before(rows, found[i], found[j])
  <2>1. found[i] \in RowId /\ found[j] \in RowId
    BY <1>5
  <2>2. ~Before(rows, found[j], found[i]) /\ found[i] # found[j]
    BY <1>3, <1>4, <1>7
  <2>3. QED
    BY <2>1, <2>2, Ordered
<1>8. ASSUME NEW r \in S PROVE \E i \in 1 .. n : found[i] = r
  <2>1. PICK i \in 1 .. n : i - 1 = Cardinality(Earlier(S, r))
    <3>1. Cardinality(Earlier(S, r)) + 1 \in 1 .. n
      BY <1>3
    <3>2. Cardinality(Earlier(S, r)) \in Nat
      BY <1>3
    <3>3. QED
      BY <3>1, <3>2
  <2>2. found[i] \in S /\ Cardinality(Earlier(S, found[i])) = Cardinality(Earlier(S, r))
    BY <1>4, <2>1
  <2>3. Cardinality(Earlier(S, r)) \in Nat
    BY <1>3
  <2>4. found[i] = r
    <3>1. SUFFICES ASSUME found[i] # r PROVE FALSE
      OBVIOUS
    <3>2. Before(rows, found[i], r) \/ Before(rows, r, found[i])
      BY <1>1, <2>2, <3>1, Ordered
    <3>3. QED
      BY <1>3, <2>2, <2>3, <3>2
  <2>5. QED
    BY <2>4
<1>9. QED
  BY <1>4, <1>6, <1>7, <1>8 DEF S, found, n

\* A page: the next rows, as many as it takes, and the place it leaves off at.
LEMMA PageOf ==
  ASSUME NEW found \in Seq(RowId), NEW limit \in Nat \ {0}
  PROVE  LET more == Len(found) > limit
             page == IF more THEN SubSeq(found, 1, limit) ELSE found
         IN  /\ page \in Seq(RowId) /\ DOMAIN page = 1 .. Len(page)
             /\ Len(page) <= Len(found) /\ DOMAIN found = 1 .. Len(found)
             /\ \A i \in 1 .. Len(page) : page[i] = found[i]
             /\ more => Len(page) = limit
             /\ ~more => page = found
<1> DEFINE more == Len(found) > limit
           page == IF more THEN SubSeq(found, 1, limit) ELSE found
<1>1. Len(found) \in Nat /\ DOMAIN found = 1 .. Len(found)
  BY LenProperties
<1>2. more => page = SubSeq(found, 1, limit)
  OBVIOUS
<1>3. ~more => page = found
  OBVIOUS
<1>4. more <=> Len(found) > limit
  OBVIOUS
<1> HIDE DEF page, more
<1> DEFINE Fits == /\ page \in Seq(RowId) /\ DOMAIN page = 1 .. Len(page)
                   /\ Len(page) <= Len(found) /\ DOMAIN found = 1 .. Len(found)
                   /\ \A i \in 1 .. Len(page) : page[i] = found[i]
                   /\ more => Len(page) = limit
                   /\ ~more => page = found
<1>5. ASSUME more PROVE Fits
  <2>1. page = SubSeq(found, 1, limit) /\ 1 \in 1 .. Len(found) + 1 /\ limit \in 0 .. Len(found)
    BY <1>1, <1>2, <1>4, <1>5
  <2>2. /\ page \in Seq(RowId) /\ Len(page) = limit
        /\ \A i \in 1 .. limit : page[i] = found[i]
    BY <1>1, <2>1, SubSeqProperties
  <2>3. DOMAIN page = 1 .. Len(page) /\ Len(page) <= Len(found)
    BY <1>1, <1>4, <1>5, <2>2, LenProperties
  <2>4. QED
    BY <1>1, <1>5, <2>2, <2>3
<1>6. ASSUME ~more PROVE Fits
  <2>1. page = found
    BY <1>3, <1>6
  <2>2. Len(page) <= Len(found)
    BY <1>1, <2>1
  <2>3. /\ page \in Seq(RowId) /\ DOMAIN page = 1 .. Len(page)
        /\ \A i \in 1 .. Len(page) : page[i] = found[i]
    BY <1>1, <2>1
  <2>4. QED
    BY <1>1, <1>6, <2>1, <2>2, <2>3
<1>7. QED
  BY <1>5, <1>6 DEF page, more

LEMMA Joined ==
  ASSUME NEW s \in Seq(RowId), NEW t \in Seq(RowId)
  PROVE  /\ s \o t \in Seq(RowId) /\ Len(s \o t) = Len(s) + Len(t)
         /\ Len(s) \in Nat /\ Len(t) \in Nat /\ DOMAIN s = 1 .. Len(s)
         /\ DOMAIN t = 1 .. Len(t) /\ DOMAIN (s \o t) = 1 .. Len(s) + Len(t)
         /\ \A i \in 1 .. Len(s) : (s \o t)[i] = s[i]
         /\ \A i \in 1 .. Len(t) : (s \o t)[Len(s) + i] = t[i]
         /\ \A i \in DOMAIN (s \o t) :
              \/ i \in 1 .. Len(s) /\ (s \o t)[i] = s[i]
              \/ \E k \in 1 .. Len(t) : i = Len(s) + k /\ (s \o t)[i] = t[k]
<1>1. /\ Len(s) \in Nat /\ Len(t) \in Nat /\ DOMAIN s = 1 .. Len(s) /\ DOMAIN t = 1 .. Len(t)
  BY LenProperties
<1>2. /\ s \o t \in Seq(RowId) /\ Len(s \o t) = Len(s) + Len(t)
      /\ DOMAIN (s \o t) = 1 .. Len(s) + Len(t)
      /\ \A i \in 1 .. Len(s) + Len(t) :
           (s \o t)[i] = IF i <= Len(s) THEN s[i] ELSE t[i - Len(s)]
  BY <1>1, ConcatProperties, LenProperties
<1>3. \A i \in 1 .. Len(s) : (s \o t)[i] = s[i]
  BY <1>1, <1>2
<1>4. \A i \in 1 .. Len(t) : (s \o t)[Len(s) + i] = t[i]
  <2>1. SUFFICES ASSUME NEW i \in 1 .. Len(t) PROVE (s \o t)[Len(s) + i] = t[i]
    OBVIOUS
  <2>2. /\ Len(s) + i \in 1 .. Len(s) + Len(t) /\ ~(Len(s) + i <= Len(s))
        /\ (Len(s) + i) - Len(s) = i
    BY <1>1
  <2>3. QED
    BY <1>2, <2>2
<1>5. ASSUME NEW i \in 1 .. Len(s) + Len(t), i \notin 1 .. Len(s)
      PROVE  \E k \in 1 .. Len(t) : i = Len(s) + k /\ (s \o t)[i] = t[k]
  <2>1. i - Len(s) \in 1 .. Len(t) /\ i = Len(s) + (i - Len(s))
    BY <1>1, <1>5
  <2>2. QED
    BY <1>4, <2>1
<1>6. QED
  BY <1>1, <1>2, <1>3, <1>4, <1>5

\* A page keeps the invariant: what it leaves out comes after its last row.
LEMMA PageFits ==
  ASSUME TableFits, NEW l \in ListCall, PagesFit(l), CursorFits(l),
         listing' = WithPage(l), UNCHANGED <<rows, clock>>
  PROVE  ListingInv'
<1> DEFINE found == Matching(l)
           more == Len(found) > l.limit
           page == IF more THEN SubSeq(found, 1, l.limit) ELSE found
           n == Len(l.items)
           named == l.items \o page
<1>1. /\ l.items \in Seq(RowId) /\ l.limit \in Nat \ {0} /\ l.pages \in Nat
      /\ l.ever \in SUBSET RowId /\ l.standing \in SUBSET RowId
  BY DEF ListCall
<1>2. /\ found \in Seq(RowId)
      /\ \A i \in DOMAIN found : found[i] \in Left(l)
      /\ \A i, j \in DOMAIN found : i < j => Before(rows, found[i], found[j])
      /\ \A r \in Left(l) : \E i \in DOMAIN found : found[i] = r
  BY MatchingFits
<1>3. listing' = [l EXCEPT !.items = named, !.pages = @ + 1,
                  !.cursor = IF more THEN <<Last(page)>> ELSE <<>>,
                  !.phase = IF ~more THEN "done"
                            ELSE IF l.counting /\ l.pages + 1 >= PageCap THEN "too_large"
                            ELSE "open"]
  BY DEF WithPage
<1> HIDE DEF found
<1>4. /\ page \in Seq(RowId) /\ DOMAIN page = 1 .. Len(page)
      /\ Len(page) <= Len(found) /\ DOMAIN found = 1 .. Len(found)
      /\ \A i \in 1 .. Len(page) : page[i] = found[i]
      /\ more => Len(page) = l.limit
      /\ ~more => page = found
  BY <1>1, <1>2, PageOf
<1>5. more \in BOOLEAN /\ Len(found) \in Nat /\ Len(page) \in Nat
  BY <1>2, <1>4, LenProperties
<1>6. more => Len(page) \in 1 .. Len(page) /\ Last(page) = page[Len(page)] /\ Last(page) \in RowId
  <2>1. more => Len(page) \in 1 .. Len(page)
    BY <1>1, <1>4, <1>5
  <2>2. QED
    BY <1>4, <2>1, ElementOfSeq DEF Last
<1> HIDE DEF page, more
<1>7. /\ named \in Seq(RowId) /\ Len(named) = n + Len(page) /\ n \in Nat
      /\ DOMAIN l.items = 1 .. n /\ DOMAIN named = 1 .. n + Len(page)
      /\ \A i \in 1 .. n : named[i] = l.items[i]
      /\ \A i \in 1 .. Len(page) : named[n + i] = page[i]
      /\ \A i \in DOMAIN named :
           \/ i \in 1 .. n /\ named[i] = l.items[i]
           \/ \E k \in 1 .. Len(page) : i = n + k /\ named[i] = page[k]
  BY <1>1, <1>4, Joined
<1> HIDE DEF named
<1>8. /\ listing' \in ListCall /\ listing'.items = named
      /\ listing'.asOf = l.asOf /\ listing'.sys = l.sys /\ listing'.begun = l.begun
      /\ listing'.standing = l.standing /\ listing'.ever = l.ever /\ listing'.first = l.first
      /\ more => listing'.cursor = <<Last(page)>> /\ listing'.phase \in {"open", "too_large"}
      /\ ~more => listing'.phase = "done"
  <2> DEFINE where == IF more THEN <<Last(page)>> ELSE <<>>
             phase == IF ~more THEN "done"
                      ELSE IF l.counting /\ l.pages + 1 >= PageCap THEN "too_large" ELSE "open"
  <2>1. where \in Seq(RowId)
    BY <1>6
  <2>2. phase \in {"done", "too_large", "open"} /\ (more => phase \in {"open", "too_large"})
        /\ (~more => phase = "done")
    OBVIOUS
  <2>3. l.pages + 1 \in Nat
    BY <1>1
  <2>4. /\ more => where = <<Last(page)>>
        /\ listing' = [l EXCEPT !.items = named, !.pages = @ + 1, !.cursor = where, !.phase = phase]
    BY <1>3
  <2> HIDE DEF where, phase
  <2>5. /\ listing' \in ListCall /\ listing'.items = named
        /\ listing'.asOf = l.asOf /\ listing'.sys = l.sys /\ listing'.begun = l.begun
        /\ listing'.standing = l.standing /\ listing'.ever = l.ever /\ listing'.first = l.first
        /\ listing'.cursor = where /\ listing'.phase = phase
    BY <1>7, <2>1, <2>2, <2>3, <2>4 DEF ListCall
  <2>6. QED
    BY <2>2, <2>4, <2>5
\* The rows of the page are left, so they come after the cursor.
<1>9. \A k \in 1 .. Len(page) : page[k] \in Left(l) /\ page[k] \in RowId
  <2>1. \A k \in 1 .. Len(page) : k \in DOMAIN found
    BY <1>4, <1>5
  <2>2. QED
    BY <1>2, <1>4, <2>1 DEF Left, Shown
<1>10. ASSUME NEW i \in DOMAIN named, NEW j \in DOMAIN named, i < j
       PROVE  Before(rows, named[i], named[j])
  <2>1. CASE j \in 1 .. n
    <3>1. i \in 1 .. n
      BY <1>7, <1>10, <2>1
    <3>2. QED
      BY <1>7, <1>10, <2>1, <3>1 DEF PagesFit
  <2>2. CASE i \in 1 .. n /\ j \notin 1 .. n
    <3>1. PICK k \in 1 .. Len(page) : named[j] = page[k]
      BY <1>7, <2>2
    <3>2. l.items # <<>> /\ l.cursor = <<l.items[n]>> /\ n \in 1 .. n
      BY <1>1, <1>7, <2>2, EmptySeq DEF CursorFits
    <3>3. l.items[i] \in RowId /\ l.items[n] \in RowId /\ page[k] \in RowId
      BY <1>1, <1>7, <1>9, <2>2, <3>2, ElementOfSeq
    <3>4. Before(rows, l.items[n], page[k])
      BY <1>9, <3>2 DEF Left, After
    <3>5. i = n \/ Before(rows, l.items[i], l.items[n])
      <4>1. i \in DOMAIN l.items /\ n \in DOMAIN l.items /\ (i = n \/ i < n)
        BY <1>7, <2>2, <3>2
      <4>2. QED
        BY <4>1 DEF PagesFit
    <3>6. Before(rows, l.items[i], page[k])
      BY <3>3, <3>4, <3>5, Ordered
    <3>7. QED
      BY <1>7, <2>2, <3>1, <3>6
  <2>3. CASE i \notin 1 .. n /\ j \notin 1 .. n
    <3>1. PICK k \in 1 .. Len(page) : i = n + k /\ named[i] = page[k]
      BY <1>7, <2>3
    <3>2. PICK m \in 1 .. Len(page) : j = n + m /\ named[j] = page[m]
      BY <1>7, <2>3
    <3>3. k < m /\ k \in DOMAIN found /\ m \in DOMAIN found
      BY <1>4, <1>5, <1>7, <1>10, <3>1, <3>2
    <3>4. QED
      BY <1>2, <1>4, <3>1, <3>2, <3>3
  <2>4. QED
    BY <1>7, <1>10, <2>1, <2>2, <2>3
<1>11. \A i \in DOMAIN named : named[i] \in l.ever
  <2>1. \A k \in 1 .. Len(page) : page[k] \in l.ever
    BY <1>9 DEF Left, CursorFits
  <2>2. QED
    BY <1>7, <2>1 DEF PagesFit
<1>12. PagesFit(listing)'
  BY <1>8, <1>10, <1>11 DEF PagesFit, Before
\* A row of the lens is named by now, or left and past the end of the page.
<1>13. ASSUME NEW r \in l.standing
       PROVE  \/ \E i \in DOMAIN named : named[i] = r
              \/ more /\ Before(rows, page[Len(page)], r)
  <2>1. CASE \E i \in DOMAIN l.items : l.items[i] = r
    <3>1. PICK i \in 1 .. n : l.items[i] = r
      BY <1>7, <2>1
    <3>2. i \in DOMAIN named /\ named[i] = r
      BY <1>5, <1>7, <3>1
    <3>3. QED
      BY <3>2
  <2>2. CASE r \in Left(l)
    <3>1. PICK k \in 1 .. Len(found) : found[k] = r
      BY <1>2, <1>4, <2>2
    <3>2. CASE k \in 1 .. Len(page)
      <4>1. n + k \in DOMAIN named /\ named[n + k] = r
        BY <1>4, <1>5, <1>7, <3>1, <3>2
      <4>2. QED
        BY <4>1
    <3>3. CASE k \notin 1 .. Len(page)
      <4>1. more /\ Len(page) < k
        BY <1>4, <1>5, <3>3
      <4>2. Len(page) \in DOMAIN found /\ k \in DOMAIN found /\ page[Len(page)] = found[Len(page)]
        BY <1>4, <1>5, <1>6, <4>1
      <4>3. QED
        BY <1>2, <3>1, <4>1, <4>2
    <3>4. QED
      BY <3>2, <3>3
  <2>3. r \in ToSet(l.items) \/ r \in Left(l)
    BY DEF CursorFits, Left
  <2>4. QED
    BY <2>1, <2>2, <2>3 DEF ToSet
<1>14. listing'.phase = "done" => listing'.standing \subseteq ToSet(listing'.items)
  BY <1>8, <1>13 DEF ToSet
<1>15. listing'.phase = "open" => CursorFits(listing)'
  <2>1. SUFFICES ASSUME more PROVE CursorFits(listing)'
    BY <1>8
  <2>2. named # <<>> /\ Len(named) = n + Len(page) /\ named[n + Len(page)] = page[Len(page)]
    BY <1>5, <1>6, <1>7, <2>1, EmptySeq
  <2>3. listing'.items # <<>> /\ listing'.cursor = <<listing'.items[Len(listing'.items)]>>
    BY <1>6, <1>8, <2>1, <2>2
  <2>4. \A r \in l.standing : r \in ToSet(named) \/ After(rows, <<page[Len(page)]>>, r)
    BY <1>13 DEF ToSet, After
  <2>5. QED
    BY <1>6, <1>8, <2>1, <2>3, <2>4 DEF CursorFits, Shown, Shows, After, Before
<1>16. listing'.phase # "idle"
  BY <1>8
<1>17. QED
  BY <1>8, <1>12, <1>14, <1>15, <1>16 DEF ListingInv, CallFits, TableFits

LEMMA FirstPageFits ==
  ASSUME ListingInv, NEW asOf \in {Unset} \cup Time, NEW sys \in {Unset} \cup Time,
         NEW limit \in Nat \ {0}, NEW counting \in BOOLEAN,
         FirstPage(asOf, sys, limit, counting)
  PROVE  ListingInv'
<1> DEFINE pinned == IF asOf = Unset THEN clock ELSE asOf
           shown == Shown(rows, pinned, sys)
<1>1. PICK l : l = [NoListing EXCEPT
                !.asOf = pinned, !.sys = sys, !.begun = clock, !.limit = limit,
                !.counting = counting, !.standing = shown, !.ever = shown, !.first = shown]
  OBVIOUS
<1>2. listing' = WithPage(l) /\ UNCHANGED <<rows, clock>>
  BY <1>1 DEF FirstPage
<1>3. pinned \in Nat /\ sys \in Nat /\ clock \in Time /\ clock <= clock
  BY Bounds DEF ListingInv, TableFits
<1>4. shown \in SUBSET RowId /\ \A r \in shown : rows[r].state = "live"
  BY DEF Shown, Shows
<1> HIDE DEF pinned
<1>5. shown = Shown(rows, pinned, sys)
  OBVIOUS
<1> HIDE DEF shown
<1>6. /\ l.phase = "idle" /\ l.asOf = pinned /\ l.sys = sys /\ l.begun = clock
      /\ l.limit = limit /\ l.items = <<>> /\ l.cursor = <<>>
      /\ l.standing = shown /\ l.ever = shown /\ l.first = shown
  BY <1>1 DEF NoListing
<1>7. l \in ListCall
  <2>1. <<>> \in Seq(RowId)
    BY EmptySeq
  <2>2. NoListing.pages = 0 /\ NoListing.phase = "idle"
    BY DEF NoListing
  <2>3. QED
    BY <1>1, <1>3, <1>4, <2>1 DEF ListCall, NoListing
<1>8. PagesFit(l)
  <2>1. DOMAIN l.items = {}
    BY <1>6
  <2>2. QED
    BY <1>3, <1>4, <1>6, <2>1 DEF PagesFit
<1>9. CursorFits(l)
  BY <1>5, <1>6 DEF CursorFits, After
<1>10. QED
  BY <1>2, <1>7, <1>8, <1>9, PageFits DEF ListingInv

LEMMA NextPageFits ==
  ASSUME ListingInv, NEW asOf, NEW sys, NextPage(asOf, sys)
  PROVE  ListingInv'
<1>1. /\ listing.phase = "open" /\ UNCHANGED <<rows, clock>>
      /\ listing \in ListCall /\ PagesFit(listing) /\ CursorFits(listing) /\ TableFits
  BY DEF NextPage, ListingInv, CallFits
<1>2. CASE asOf \in {Unset, listing.asOf} /\ sys = listing.sys
  <2>1. listing' = WithPage(listing)
    BY <1>2 DEF NextPage
  <2>2. QED
    BY <1>1, <2>1, PageFits
<1>3. CASE ~(asOf \in {Unset, listing.asOf} /\ sys = listing.sys)
  <2>1. listing' = [listing EXCEPT !.phase = "refused"]
    BY <1>3 DEF NextPage
  <2>2. /\ listing' \in ListCall /\ listing'.phase = "refused"
        /\ listing'.items = listing.items /\ listing'.ever = listing.ever
        /\ listing'.standing = listing.standing /\ listing'.sys = listing.sys
        /\ listing'.begun = listing.begun /\ listing'.first = listing.first
    BY <1>1, <2>1 DEF ListCall
  <2>3. PagesFit(listing)'
    BY <1>1, <2>2 DEF PagesFit, Before
  <2>4. QED
    BY <1>1, <2>2, <2>3 DEF ListingInv, CallFits, TableFits
<1>4. QED
  BY <1>2, <1>3

-----------------------------------------------------------------------------

\* What every write to the table keeps: rows stay and keep the time they are
\* valid from, and what was not so in the past does not become so.
Rewrites(table) ==
    /\ table \in [RowId -> Row]
    /\ \A r \in RowId : rows[r].state # "absent" =>
          table[r].state # "absent" /\ table[r].from = rows[r].from
    /\ \A r \in RowId, asOf \in Nat, sys \in 1 .. (clock - 1) :
          Shows(table, r, asOf, sys) => Shows(rows, r, asOf, sys)

LEMMA StoreFits ==
  ASSUME ListingInv, NEW table, Rewrites(table), Store(table), UNCHANGED clock,
         listing.phase \in {"idle", "open"}
  PROVE  ListingInv'
<1>1. /\ rows' = table /\ TableFits' /\ listing \in ListCall /\ PagesFit(listing)
      /\ clock \in Time /\ clock' = clock
  BY DEF Store, Rewrites, ListingInv, TableFits, CallFits
<1>2. CASE listing.phase = "idle"
  <2>1. listing' = listing
    BY <1>2 DEF Store
  <2>2. listing.items = <<>> /\ listing.ever = {} /\ DOMAIN listing.items = {}
    BY <1>2 DEF ListingInv, CallFits
  <2>3. PagesFit(listing)'
    BY <1>1, <2>1, <2>2 DEF PagesFit
  <2>4. QED
    BY <1>1, <1>2, <2>1, <2>2, <2>3 DEF ListingInv, CallFits
<1>3. CASE listing.phase = "open"
  <2> DEFINE shown == Shown(table, listing.asOf, listing.sys)
  <2>1. /\ listing' = [listing EXCEPT !.standing = @ \cap shown, !.ever = @ \cup shown]
        /\ CursorFits(listing)
    BY <1>3 DEF Store, ListingInv, CallFits
  <2>2. shown \in SUBSET RowId /\ \A r \in shown : table[r].state = "live"
    BY DEF Shown, Shows
  <2>3. /\ listing.ever \in SUBSET RowId /\ listing.standing \in SUBSET RowId
        /\ listing.first \in SUBSET RowId
        /\ listing.asOf \in Nat /\ listing.sys \in Nat /\ listing.items \in Seq(RowId)
        /\ listing.begun \in Nat /\ clock \in Nat
    BY <1>1, Bounds DEF ListCall
  <2>4. shown = Shown(table, listing.asOf, listing.sys)
    OBVIOUS
  <2>5. listing.sys \in 1 .. (listing.begun - 1) => shown \subseteq listing.first
    <3>1. SUFFICES ASSUME listing.sys \in 1 .. (listing.begun - 1), NEW r \in shown
                   PROVE  r \in listing.first
      OBVIOUS
    <3>2. listing.sys \in 1 .. (clock - 1)
      BY <1>1, <2>3, <3>1 DEF PagesFit
    <3>3. r \in RowId /\ Shows(rows, r, listing.asOf, listing.sys)
      BY <2>3, <2>4, <3>1, <3>2 DEF Shown, Rewrites
    <3>4. r \in listing.ever
      BY <2>1, <3>3 DEF CursorFits, Shown
    <3>5. QED
      BY <1>1, <3>1, <3>4 DEF PagesFit
  <2> HIDE DEF shown
  <2>6. /\ listing' \in ListCall /\ listing'.phase = "open"
        /\ listing'.standing = listing.standing \cap shown
        /\ listing'.ever = listing.ever \cup shown
        /\ listing'.items = listing.items /\ listing'.cursor = listing.cursor
        /\ listing'.asOf = listing.asOf /\ listing'.sys = listing.sys
        /\ listing'.begun = listing.begun /\ listing'.first = listing.first
    BY <1>1, <1>3, <2>1, <2>2 DEF ListCall
  \* The rows the call has met keep their places.
  <2>7. \A r, s \in listing.ever : Before(rows, r, s) <=> Before(table, r, s)
    <3>1. \A r \in listing.ever : table[r].from = rows[r].from
      BY <1>1, <2>3 DEF PagesFit, Rewrites
    <3>2. QED
      BY <3>1 DEF Before
  <2>8. PagesFit(listing)'
    <3>1. \A i, j \in DOMAIN listing.items :
             i < j => Before(table, listing.items[i], listing.items[j])
      BY <1>1, <2>7 DEF PagesFit
    <3>2. \A r \in listing'.ever : table[r].state # "absent"
      BY <1>1, <2>2, <2>3, <2>6 DEF PagesFit, Rewrites
    <3>3. QED
      BY <1>1, <2>5, <2>6, <3>1, <3>2 DEF PagesFit
  <2>9. CursorFits(listing)'
    <3>1. \A r \in listing.standing : r \in ToSet(listing.items) \/ After(table, listing.cursor, r)
      <4>1. SUFFICES ASSUME NEW r \in listing.standing, r \notin ToSet(listing.items)
                     PROVE  After(table, listing.cursor, r)
        OBVIOUS
      <4>2. After(rows, listing.cursor, r) /\ r \in listing.ever
        BY <1>1, <2>1, <4>1 DEF CursorFits, PagesFit
      <4>3. CASE listing.cursor = <<>>
        BY <4>3 DEF After
      <4>4. CASE listing.cursor # <<>>
        <5>1. /\ listing.items # <<>> /\ listing.cursor = <<listing.items[Len(listing.items)]>>
          BY <2>1, <4>4 DEF CursorFits
        <5>2. Len(listing.items) \in DOMAIN listing.items
          BY <2>3, <5>1, EmptySeq, LenProperties
        <5>3. listing.cursor[1] \in listing.ever
          BY <1>1, <5>1, <5>2 DEF PagesFit
        <5>4. QED
          BY <2>7, <4>2, <4>4, <5>3 DEF After
      <4>5. QED
        BY <4>3, <4>4
    <3>2. /\ \/ listing'.items = <<>> /\ listing'.cursor = <<>>
             \/ listing'.items # <<>> /\ listing'.cursor = <<listing'.items[Len(listing'.items)]>>
      BY <2>1, <2>6 DEF CursorFits
    <3>3. \A r \in listing'.standing : r \in ToSet(listing'.items) \/ After(rows', listing'.cursor, r)
      BY <1>1, <2>6, <3>1
    <3>4. Shown(rows', listing'.asOf, listing'.sys) = shown
      BY <1>1, <2>4, <2>6
    <3>5. QED
      BY <2>6, <3>2, <3>3, <3>4 DEF CursorFits
  <2>10. QED
    BY <1>1, <2>6, <2>8, <2>9 DEF ListingInv, CallFits
<1>4. QED
  BY <1>2, <1>3

\* A row born now was not there in the past, one closed now stood then with no end.
LEMMA BirthRewrites ==
  ASSUME TableFits, NEW table, Rewrites(table), NEW r \in RowId,
         rows[r].state = "absent", NEW from \in Time, NEW until \in Time \cup {Open}
  PROVE  Rewrites([table EXCEPT ![r] = Born(from, until)])
<1> DEFINE born == [table EXCEPT ![r] = Born(from, until)]
<1>1. /\ clock \in Time /\ Born(from, until) \in Row /\ Born(from, until).created = clock
      /\ Born(from, until).state = "live"
  BY Bounds DEF TableFits, Born, Row
<1>2. /\ table \in [RowId -> Row] /\ born \in [RowId -> Row] /\ born[r] = Born(from, until)
      /\ \A s \in RowId : s # r => born[s] = table[s]
  BY <1>1 DEF Rewrites
<1> HIDE DEF born
<1>3. ASSUME NEW s \in RowId, NEW asOf \in Nat, NEW sys \in 1 .. (clock - 1),
             Shows(born, s, asOf, sys)
      PROVE  Shows(rows, s, asOf, sys)
  <2>1. clock \in Nat /\ sys # Unset /\ ~(clock <= sys)
    BY <1>1, Bounds
  <2>2. s # r
    BY <1>1, <1>2, <1>3, <2>1 DEF Shows
  <2>3. Shows(table, s, asOf, sys)
    BY <1>2, <1>3, <2>2 DEF Shows
  <2>4. QED
    BY <2>3 DEF Rewrites
<1>4. Rewrites(born)
  BY <1>1, <1>2, <1>3 DEF Rewrites
<1>5. QED
  BY <1>4 DEF born

LEMMA ClosingRewrites ==
  ASSUME TableFits, NEW r \in RowId, NEW at \in Time, MayClose(r, at)
  PROVE  Rewrites(Closed(r, at))
<1> DEFINE closed == Closed(r, at)
<1>1. /\ rows \in [RowId -> Row] /\ clock \in Time /\ clock \in Nat /\ at \in Nat
      /\ clock < Open /\ at < Open /\ Open \in Nat
  BY Bounds DEF TableFits
<1>2. /\ closed \in [RowId -> Row]
      /\ closed[r].state = rows[r].state /\ closed[r].from = rows[r].from
      /\ closed[r].created = rows[r].created
      /\ closed[r].until = at /\ closed[r].closed = clock
      /\ \A s \in RowId : s # r => closed[s] = rows[s]
  BY <1>1 DEF Closed, Row
<1> HIDE DEF closed
<1>3. rows[r].until = Open /\ rows[r].closed = Open
  BY DEF MayClose
<1>4. ASSUME NEW s \in RowId, NEW asOf \in Nat, NEW sys \in 1 .. (clock - 1),
             Shows(closed, s, asOf, sys)
      PROVE  Shows(rows, s, asOf, sys)
  <2>1. CASE s # r
    BY <1>2, <1>4, <2>1 DEF Shows
  <2>2. CASE s = r
    <3>1. /\ rows[r].state = "live" /\ rows[r].from <= asOf /\ at > asOf
          /\ sys # Unset => rows[r].created <= sys /\ clock > sys
      BY <1>2, <1>4, <2>2 DEF Shows
    <3>2. Open > asOf /\ Open > sys
      BY <1>1, <3>1
    <3>3. QED
      BY <1>3, <2>2, <3>1, <3>2 DEF Shows
  <2>3. QED
    BY <2>1, <2>2
<1>5. \A s \in RowId : closed[s].state = rows[s].state /\ closed[s].from = rows[s].from
  BY <1>2
<1>6. Rewrites(closed)
  BY <1>2, <1>4, <1>5 DEF Rewrites
<1>7. QED
  BY <1>6 DEF closed

LEMMA ErasureRewrites ==
  ASSUME TableFits, NEW r \in RowId
  PROVE  Rewrites([rows EXCEPT ![r] = [NoRow EXCEPT !.state = "gone", !.from = rows[r].from]])
<1> DEFINE gone == [NoRow EXCEPT !.state = "gone", !.from = rows[r].from]
           erased == [rows EXCEPT ![r] = gone]
<1>1. NoRow \in Row /\ rows \in [RowId -> Row] /\ rows[r].from \in Time
  BY Bounds DEF NoRow, TableFits, Row
<1>2. gone \in Row /\ gone.state = "gone" /\ gone.from = rows[r].from
  BY <1>1 DEF Row
<1> HIDE DEF gone
<1>3. /\ erased \in [RowId -> Row]
      /\ erased[r].state = "gone" /\ erased[r].from = rows[r].from
      /\ \A s \in RowId : s # r => erased[s] = rows[s]
  BY <1>1, <1>2
<1> HIDE DEF erased
<1>4. ASSUME NEW s \in RowId, NEW asOf, NEW sys, Shows(erased, s, asOf, sys)
      PROVE  Shows(rows, s, asOf, sys)
  BY <1>3, <1>4 DEF Shows
<1>5. \A s \in RowId : rows[s].state # "absent" =>
         erased[s].state # "absent" /\ erased[s].from = rows[s].from
  BY <1>3
<1>6. Rewrites(erased)
  BY <1>3, <1>4, <1>5 DEF Rewrites
<1>7. QED
  BY <1>6 DEF erased, gone

LEMMA WriteFits ==
  ASSUME ListingInv, listing.phase \in {"idle", "open"}
  PROVE  /\ \A from \in Time, until \in Time \cup {Open} : PutRow(from, until) => ListingInv'
         /\ \A r \in RowId, at \in Time :
              (SupersedeRow(r, at) => ListingInv') /\ (ForgetRow(r, at) => ListingInv')
         /\ \A r \in RowId : EraseRow(r) => ListingInv'
<1>1. TableFits /\ Rewrites(rows)
  BY DEF ListingInv, TableFits, Rewrites
<1>2. ASSUME NEW from \in Time, NEW until \in Time \cup {Open}, PutRow(from, until)
      PROVE  ListingInv'
  <2>1. PICK r \in RowId : Fresh(r) /\ Store([rows EXCEPT ![r] = Born(from, until)])
    BY <1>2 DEF PutRow
  <2>2. Rewrites([rows EXCEPT ![r] = Born(from, until)])
    BY <1>1, <2>1, BirthRewrites DEF Fresh
  <2>3. UNCHANGED clock
    BY <1>2 DEF PutRow
  <2>4. QED
    BY <2>1, <2>2, <2>3, StoreFits
<1>3. ASSUME NEW r \in RowId, NEW at \in Time, SupersedeRow(r, at)
      PROVE  ListingInv'
  <2>1. PICK s \in RowId : Fresh(s) /\ Store([Closed(r, at) EXCEPT ![s] = Born(at, Open)])
    BY <1>3 DEF SupersedeRow
  <2>2. MayClose(r, at) /\ UNCHANGED clock
    BY <1>3 DEF SupersedeRow
  <2>3. Rewrites(Closed(r, at))
    BY <1>1, <2>2, ClosingRewrites
  <2>4. Rewrites([Closed(r, at) EXCEPT ![s] = Born(at, Open)])
    BY <1>1, <2>1, <2>3, BirthRewrites DEF Fresh
  <2>5. QED
    BY <2>1, <2>2, <2>4, StoreFits
<1>4. ASSUME NEW r \in RowId, NEW at \in Time, ForgetRow(r, at)
      PROVE  ListingInv'
  <2>1. MayClose(r, at) /\ Store(Closed(r, at)) /\ UNCHANGED clock
    BY <1>4 DEF ForgetRow
  <2>2. QED
    BY <1>1, <2>1, ClosingRewrites, StoreFits
<1>5. ASSUME NEW r \in RowId, EraseRow(r)
      PROVE  ListingInv'
  <2>1. /\ Store([rows EXCEPT ![r] = [NoRow EXCEPT !.state = "gone", !.from = rows[r].from]])
        /\ UNCHANGED clock
    BY <1>5 DEF EraseRow
  <2>2. QED
    BY <1>1, <2>1, ErasureRewrites, StoreFits
<1>6. QED
  BY <1>2, <1>3, <1>4, <1>5

LEMMA TickFits ==
  ASSUME ListingInv, Tick
  PROVE  ListingInv'
<1>1. /\ clock \in Time /\ clock' \in Time /\ clock <= clock' /\ clock \in Nat /\ clock' \in Nat
  BY ListingAssumption DEF Tick, ListingInv, TableFits, Time
<1>2. rows' = rows /\ listing' = listing /\ listing.begun \in Nat /\ PagesFit(listing)
  BY Bounds DEF Tick, ListingInv, CallFits, ListCall
<1>3. listing.begun <= clock'
  BY <1>1, <1>2 DEF PagesFit
<1>4. PagesFit(listing)'
  BY <1>2, <1>3 DEF PagesFit, Before
<1>5. CursorFits(listing) => CursorFits(listing)'
  BY <1>2 DEF CursorFits, Shown, Shows, After, Before
<1>6. QED
  BY <1>1, <1>2, <1>4, <1>5 DEF ListingInv, TableFits, CallFits

-----------------------------------------------------------------------------

LEMMA ListingInitially == Init => ListingInv
<1> SUFFICES ASSUME Init PROVE ListingInv
  OBVIOUS
<1>1. /\ rows = [r \in RowId |-> NoRow] /\ clock = 1 /\ listing = NoListing
  BY DEF Init, ListingInit
<1>2. TableFits
  BY <1>1, Bounds DEF TableFits, NoRow, Row
<1>3. <<>> \in Seq(RowId) /\ DOMAIN <<>> = {}
  BY EmptySeq
<1>4. /\ listing.phase = "idle" /\ listing.items = <<>> /\ listing.ever = {}
      /\ listing.standing = {} /\ listing.begun = 1 /\ listing.begun <= clock
  BY <1>1 DEF NoListing
<1>5. listing \in ListCall
  BY <1>1, <1>3, Bounds DEF NoListing, ListCall
<1>6. QED
  BY <1>2, <1>3, <1>4, <1>5 DEF ListingInv, CallFits, PagesFit

LEMMA ListingStays == ListingInv /\ UNCHANGED listVars => ListingInv'
<1> SUFFICES ASSUME ListingInv, UNCHANGED listVars PROVE ListingInv'
  OBVIOUS
<1>1. rows' = rows /\ clock' = clock /\ listing' = listing
  BY DEF listVars
<1>2. QED
  BY <1>1 DEF ListingInv, TableFits, CallFits, PagesFit, CursorFits, Shown, Shows, After, Before

LEMMA ListingFits == ListingInv /\ [Next]_vars => ListingInv'
<1> SUFFICES ASSUME ListingInv, [Next]_vars PROVE ListingInv'
  OBVIOUS
<1>1. CASE ListingNext
  <2>1. CASE listing.phase \in {"idle", "open"}
               /\ \/ \E from \in Time, until \in Time \cup {Open} : PutRow(from, until)
                  \/ \E r \in RowId, at \in Time : SupersedeRow(r, at) \/ ForgetRow(r, at)
                  \/ \E r \in RowId : EraseRow(r)
                  \/ Tick
    BY <2>1, WriteFits, TickFits
  <2>2. CASE \E a \in {Unset} \cup Time, s \in {Unset} \cup Time, k \in Limits :
                FirstPage(a, s, k, FALSE)
    BY <2>2, FirstPageFits, ListingAssumption
  <2>3. CASE \E a \in {Unset} \cup Time, s \in {Unset} \cup Time :
                FirstPage(a, s, CountLimit, TRUE)
    BY <2>3, FirstPageFits, ListingAssumption
  <2>4. CASE (\E a, s \in {Unset} \cup Time : NextPage(a, s)) \/ CountOn
    BY <2>4, NextPageFits DEF CountOn
  <2>5. QED
    BY <1>1, <2>1, <2>2, <2>3, <2>4 DEF ListingNext
<1>2. CASE UNCHANGED listVars
  BY <1>2, ListingStays
<1>3. QED
  BY <1>1, <1>2 DEF Next, vars

\* An enumeration that is done is what it should be: the rows are as many as
\* the places in it, since in a strict order no row can have two.
LEMMA DoneIsComplete == ListingInv => EnumerationIsComplete
<1> SUFFICES ASSUME ListingInv, listing.phase = "done"
             PROVE  LET named == ToSet(listing.items)
                    IN  /\ listing.standing \subseteq named
                        /\ named \subseteq listing.ever
                        /\ Cardinality(named) = Len(listing.items)
                        /\ \A i, j \in DOMAIN listing.items :
                              i < j => Before(rows, listing.items[i], listing.items[j])
                        /\ listing.sys \in 1 .. (listing.begun - 1) => named \subseteq listing.first
  BY DEF EnumerationIsComplete
<1> DEFINE items == listing.items
           n == Len(items)
           named == ToSet(items)
<1>1. /\ items \in Seq(RowId) /\ n \in Nat /\ DOMAIN items = 1 .. n /\ TableFits
      /\ items \in [1 .. n -> RowId]
  BY LenProperties DEF ListingInv, CallFits, ListCall
<1>2. /\ \A i, j \in DOMAIN items : i < j => Before(rows, items[i], items[j])
      /\ \A i \in DOMAIN items : items[i] \in listing.ever
      /\ listing.sys \in 1 .. (listing.begun - 1) => listing.ever \subseteq listing.first
      /\ listing.standing \subseteq named
  BY DEF ListingInv, CallFits, PagesFit
<1> HIDE DEF n
<1>3. named \subseteq listing.ever
  BY <1>2 DEF ToSet
<1>4. Cardinality(named) = n
  <2>1. \A i, j \in 1 .. n : items[i] = items[j] => i = j
    <3>1. ASSUME NEW i \in 1 .. n, NEW j \in 1 .. n, i < j PROVE items[i] # items[j]
      <4>1. items[i] \in RowId /\ items[j] \in RowId /\ Before(rows, items[i], items[j])
        BY <1>1, <1>2, <3>1
      <4>2. QED
        BY <1>1, <4>1, Ordered
    <3>2. QED
      BY <3>1
  <2>2. items \in Surjection(1 .. n, named) /\ items \in Injection(1 .. n, named)
    BY <1>1, <2>1 DEF ToSet, Surjection, Injection, IsInjective
  <2>3. items \in Bijection(1 .. n, named)
    BY <2>2 DEF Bijection
  <2>4. IsFiniteSet(1 .. n) /\ Cardinality(1 .. n) = n
    BY <1>1, FS_Interval
  <2>5. QED
    BY <2>3, <2>4, FS_Bijection DEF ExistsBijection
<1>5. QED
  BY <1>2, <1>3, <1>4 DEF n

\* A listing that has come to its end names each row its lens showed all the
\* time once, and no other than the lens showed at some time, however many pages
\* it took and whatever was put, closed or erased between two of them.
THEOREM ListingsAreComplete == Spec => []EnumerationIsComplete
<1>1. Spec => []ListingInv
  BY ListingInitially, ListingFits, PTL DEF Spec
<1>2. QED
  BY <1>1, DoneIsComplete, PTL

(* Acknowledgments *)

\* What a host knows of an insertion, of the events that its call found.
AckFits(a) ==
    LET first(i, kind) == i \in 1 .. a.began /\ IsFirst(i, kind, a.proposal)
    IN  /\ a.phase \in {"append", "answered"} =>
              /\ a.began \in 0 .. Len(trace)
              /\ \E i \in 1 .. a.began :
                    first(i, "pack") /\ Range(a.inserted) \subseteq Range(trace[i].blocks)
        /\ a.phase = "append" => \A i \in 1 .. a.began : ~first(i, "inject")
        /\ a.phase = "answered" =>
              \A i \in 1 .. a.began : first(i, "inject") => a.inserted = trace[i].blocks

AcksInv ==
    /\ trace \in Seq(Range(trace))
    /\ DOMAIN acks = Host
    /\ \A h \in Host : AckFits(acks[h])

-----------------------------------------------------------------------------

\* An event that is appended leaves those before it where they are.
LEMMA TraceGrows ==
  ASSUME trace \in Seq(Range(trace)), NEW e, trace' = Append(trace, e)
  PROVE  /\ trace' \in Seq(Range(trace'))
         /\ Len(trace') = Len(trace) + 1 /\ Len(trace) \in Nat
         /\ \A i \in 1 .. Len(trace) : trace'[i] = trace[i]
<1> DEFINE S == Range(trace) \cup {e}
<1>1. trace \in Seq(S) /\ e \in S
  <2>1. Len(trace) \in Nat /\ trace \in [1 .. Len(trace) -> Range(trace)]
    BY LenProperties
  <2>2. trace \in [1 .. Len(trace) -> S]
    BY <2>1
  <2>3. QED
    BY <2>1, <2>2, InSeq
<1>2. /\ trace' \in Seq(S) /\ Len(trace') = Len(trace) + 1 /\ Len(trace) \in Nat
      /\ \A i \in 1 .. Len(trace) : trace'[i] = trace[i]
  BY <1>1, AppendProperties, LenProperties
<1>3. trace' \in Seq(Range(trace'))
  <2>1. Len(trace') \in Nat /\ trace' \in [1 .. Len(trace') -> S]
    BY <1>2, LenProperties
  <2>2. trace' \in [1 .. Len(trace') -> Range(trace')]
    BY <2>1 DEF Range
  <2>3. QED
    BY <2>1, <2>2, InSeq
<1>4. QED
  BY <1>2, <1>3

LEMMA AckStays ==
  ASSUME trace \in Seq(Range(trace)), NEW a, AckFits(a),
         \/ trace' = trace
         \/ \E e : trace' = Append(trace, e)
  PROVE  AckFits(a)' /\ trace' \in Seq(Range(trace'))
<1>1. /\ trace' \in Seq(Range(trace')) /\ Len(trace) \in Nat /\ Len(trace') \in Nat
      /\ Len(trace) <= Len(trace')
      /\ \A i \in 1 .. Len(trace) : trace'[i] = trace[i]
  <2>1. Len(trace) \in Nat
    BY LenProperties
  <2>2. CASE trace' = trace
    BY <2>1, <2>2
  <2>3. CASE \E e : trace' = Append(trace, e)
    BY <2>1, <2>3, TraceGrows
  <2>4. QED
    BY <2>2, <2>3
<1>2. CASE a.phase \in {"append", "answered"}
  <2>1. a.began \in 0 .. Len(trace)
    BY <1>2 DEF AckFits
  <2>2. /\ a.began \in 0 .. Len(trace')
        /\ \A i \in 1 .. a.began : trace'[i] = trace[i]
        /\ \A i \in 1 .. a.began : \A j \in 1 .. i - 1 : trace'[j] = trace[j]
    BY <1>1, <2>1
  <2>3. \A i \in 1 .. a.began, kind \in {"pack", "inject"} :
           IsFirst(i, kind, a.proposal) <=> IsFirst(i, kind, a.proposal)'
    BY <2>2 DEF IsFirst, Recorded
  <2>4. QED
    BY <1>1, <1>2, <2>2, <2>3 DEF AckFits
<1>3. CASE a.phase \notin {"append", "answered"}
  BY <1>1, <1>3 DEF AckFits
<1>4. QED
  BY <1>2, <1>3

\* There is one first event of a kind.
LEMMA FirstIsOne ==
  ASSUME NEW i \in Nat \ {0}, NEW j \in Nat \ {0}, NEW kind, NEW p,
         IsFirst(i, kind, p), IsFirst(j, kind, p)
  PROVE  i = j
<1>1. ~(i < j) /\ ~(j < i)
  BY DEF IsFirst
<1>2. QED
  BY <1>1

LEMMA RecordFits ==
  ASSUME AcksInv, NEW h \in Host, NEW p, NEW blocks, RecordInsertion(h, p, blocks)
  PROVE  AcksInv'
<1> DEFINE ack == [phase |-> "append", proposal |-> p, inserted |-> blocks, began |-> Len(trace)]
           known == \E pack \in FirstOf("pack", p) : Range(blocks) \subseteq Range(pack.blocks)
           prior == FirstOf("inject", p)
<1>1. Len(trace) \in Nat /\ DOMAIN trace = 1 .. Len(trace) /\ trace' = trace
  BY LenProperties DEF AcksInv, RecordInsertion
<1>2. acks' = [acks EXCEPT ![h] =
             CASE known /\ prior = {} -> ack
               [] known /\ (\E v \in prior : v.blocks = blocks) -> [ack EXCEPT !.phase = "answered"]
               [] OTHER -> NoAck]
  BY DEF RecordInsertion
<1>3. known => \E i \in 1 .. Len(trace) :
                 IsFirst(i, "pack", p) /\ Range(blocks) \subseteq Range(trace[i].blocks)
  BY <1>1 DEF FirstOf
<1>4. prior = {} => \A i \in 1 .. Len(trace) : ~IsFirst(i, "inject", p)
  BY <1>1 DEF FirstOf
<1>5. (\E v \in prior : v.blocks = blocks) =>
          \A i \in 1 .. Len(trace) : IsFirst(i, "inject", p) => blocks = trace[i].blocks
  <2>1. SUFFICES ASSUME NEW v \in prior, v.blocks = blocks,
                        NEW i \in 1 .. Len(trace), IsFirst(i, "inject", p)
                 PROVE  blocks = trace[i].blocks
    OBVIOUS
  <2>2. PICK j \in 1 .. Len(trace) : IsFirst(j, "inject", p) /\ v = trace[j]
    BY <1>1, <2>1 DEF FirstOf
  <2>3. i = j
    BY <1>1, <2>1, <2>2, FirstIsOne
  <2>4. QED
    BY <2>1, <2>2, <2>3
<1> HIDE DEF known, prior
<1>6. /\ ack.phase = "append" /\ ack.proposal = p /\ ack.inserted = blocks
      /\ ack.began = Len(trace) /\ Len(trace) \in 0 .. Len(trace)
  BY <1>1
<1>7. known /\ prior = {} => AckFits(ack)
  BY <1>3, <1>4, <1>6 DEF AckFits
<1>8. ASSUME known, \E v \in prior : v.blocks = blocks
      PROVE  AckFits([ack EXCEPT !.phase = "answered"])
  <2>1. PICK a : a = [ack EXCEPT !.phase = "answered"]
    OBVIOUS
  <2>2. /\ a.phase = "answered" /\ a.proposal = p /\ a.inserted = blocks
        /\ a.began = Len(trace)
    BY <2>1
  <2>3. AckFits(a)
    BY <1>3, <1>5, <1>6, <1>8, <2>2 DEF AckFits
  <2>4. QED
    BY <2>1, <2>3
<1>9. AckFits(NoAck)
  BY DEF AckFits, NoAck
<1> HIDE DEF ack
<1>10. PICK a : AckFits(a) /\ acks' = [acks EXCEPT ![h] = a]
  <2>1. CASE known /\ prior = {}
    BY <1>2, <1>7, <2>1
  <2>2. CASE prior # {} /\ known /\ (\E v \in prior : v.blocks = blocks)
    BY <1>2, <1>8, <2>2
  <2>3. CASE ~(known /\ prior = {}) /\ ~(known /\ (\E v \in prior : v.blocks = blocks))
    BY <1>2, <1>9, <2>3
  <2>4. QED
    BY <2>1, <2>2, <2>3
<1>11. \A g \in Host : AckFits(acks'[g])
  BY <1>10 DEF AcksInv
<1>12. ASSUME NEW g \in Host PROVE AckFits(acks[g])'
  <2>1. PICK b : b = acks'[g]
    OBVIOUS
  <2>2. AckFits(b)'
    BY <1>1, <1>11, <2>1, AckStays DEF AcksInv
  <2>3. QED
    BY <2>1, <2>2 DEF AckFits, IsFirst, Recorded
<1>13. QED
  BY <1>1, <1>10, <1>12 DEF AcksInv

LEMMA AppendFits ==
  ASSUME AcksInv, NEW h \in Host, AppendInsertion(h)
  PROVE  AcksInv'
<1>1. PICK e : trace' = Append(trace, e)
  BY DEF AppendInsertion
<1>2. PICK a \in {NoAck, [acks[h] EXCEPT !.phase = "answered"]} : acks' = [acks EXCEPT ![h] = a]
  BY DEF AppendInsertion
<1>3. acks[h].phase = "append" /\ trace \in Seq(Range(trace)) /\ DOMAIN acks = Host
  BY DEF AppendInsertion, AcksInv
<1>4. \A g \in Host : AckFits(acks[g])
  BY DEF AcksInv
<1>5. AckFits(a)
  <2>1. CASE a = NoAck
    BY <2>1 DEF AckFits, NoAck
  <2>2. CASE a = [acks[h] EXCEPT !.phase = "answered"]
    <3>1. /\ a.proposal = acks[h].proposal /\ a.began = acks[h].began
          /\ a.inserted = acks[h].inserted
      BY <2>2
    <3>2. AckFits(acks[h])
      BY <1>4
    <3>3. QED
      BY <1>3, <3>1, <3>2 DEF AckFits
  <2>3. QED
    BY <1>2, <2>1, <2>2
<1>6. \A g \in Host : AckFits(acks'[g])
  BY <1>2, <1>3, <1>4, <1>5
<1>7. ASSUME NEW g \in Host PROVE AckFits(acks[g])'
  <2>1. PICK b : b = acks'[g]
    OBVIOUS
  <2>2. AckFits(b)'
    BY <1>1, <1>3, <1>6, <2>1, AckStays
  <2>3. QED
    BY <2>1, <2>2 DEF AckFits, IsFirst, Recorded
<1>8. QED
  BY <1>1, <1>2, <1>3, <1>7, TraceGrows DEF AcksInv

LEMMA FailureFits ==
  ASSUME AcksInv, NEW h \in Host, AppendFails(h)
  PROVE  AcksInv'
<1>1. acks' = [acks EXCEPT ![h] = NoAck] /\ trace' = trace /\ DOMAIN acks = Host
  BY DEF AppendFails, AcksInv
<1>2. ASSUME NEW g \in Host PROVE AckFits(acks[g])'
  <2>1. PICK b : b = acks'[g]
    OBVIOUS
  <2>2. AckFits(b)
    BY <1>1, <2>1 DEF AcksInv, AckFits, NoAck
  <2>3. AckFits(b)'
    BY <1>1, <2>2, AckStays DEF AcksInv
  <2>4. QED
    BY <2>1, <2>3 DEF AckFits, IsFirst, Recorded
<1>3. QED
  BY <1>1, <1>2 DEF AcksInv

\* A proposal and its event change no call.
LEMMA ProposalFits ==
  ASSUME AcksInv, acks' = acks, trace' = trace \/ \E e : trace' = Append(trace, e)
  PROVE  AcksInv'
<1>1. ASSUME NEW g \in Host PROVE AckFits(acks[g])'
  <2>1. PICK b : b = acks'[g]
    OBVIOUS
  <2>2. AckFits(b)'
    BY <2>1, AckStays DEF AcksInv
  <2>3. QED
    BY <2>1, <2>2 DEF AckFits, IsFirst, Recorded
<1>2. trace' \in Seq(Range(trace'))
  BY TraceGrows DEF AcksInv
<1>3. QED
  BY <1>1, <1>2 DEF AcksInv

LEMMA AcksInitially == Init => AcksInv
<1> SUFFICES ASSUME Init PROVE AcksInv
  OBVIOUS
<1>1. trace = <<>> /\ acks = [h \in Host |-> NoAck]
  BY DEF Init, ContextInit
<1>2. trace \in Seq(Range(trace))
  BY <1>1, EmptySeq
<1>3. AckFits(NoAck)
  BY DEF AckFits, NoAck
<1>4. QED
  BY <1>1, <1>2, <1>3 DEF AcksInv

LEMMA AcksFit == AcksInv /\ [Next]_vars => AcksInv'
<1> SUFFICES ASSUME AcksInv, [Next]_vars PROVE AcksInv'
  OBVIOUS
<1>1. CASE ContextNext
  <2>1. ASSUME NEW request, NEW r, NEW failed, NEW late, NEW barred,
               PrepareContext(request, failed, r, barred, late)
        PROVE  AcksInv'
    BY <2>1, ProposalFits DEF PrepareContext
  <2>2. CASE EmitPack
    BY <2>2, ProposalFits DEF EmitPack
  <2>3. CASE EmitNothing
    BY <2>3, ProposalFits DEF EmitNothing
  <2>4. ASSUME NEW h \in Host, NEW p, NEW b, RecordInsertion(h, p, b)
        PROVE  AcksInv'
    BY <2>4, RecordFits
  <2>5. ASSUME NEW h \in Host, AppendInsertion(h) \/ AppendFails(h)
        PROVE  AcksInv'
    BY <2>5, AppendFits, FailureFits
  <2>6. QED
    BY <1>1, <2>1, <2>2, <2>3, <2>4, <2>5 DEF ContextNext
<1>2. CASE UNCHANGED contextVars
  BY <1>2, ProposalFits DEF contextVars
<1>3. QED
  BY <1>1, <1>2 DEF Next, vars

\* An answered acknowledgment names blocks of the pack that was first recorded
\* for its proposal, and agrees with the first insertion that had been recorded
\* when its call read the trace, whatever other hosts append meanwhile.
THEOREM AnswersFollowTheFirst == Spec => []AcksSettleOnTheFirst
<1>1. AcksInv => AcksSettleOnTheFirst
  BY DEF AcksInv, AckFits, AcksSettleOnTheFirst
<1>2. Spec => []AcksInv
  BY AcksInitially, AcksFit, PTL DEF Spec
<1>3. QED
  BY <1>1, <1>2, PTL

(* Batches and sleep *)

ScanRow == [memory : Memory, version : Nat \ {0}]

\* What a pass proposes: rows as it scanned them, and duplicates apart.
Proposes(proposals, scanned, threshold) ==
  /\ proposals \in Seq(Range(proposals))
  /\ \A p \in Range(proposals) : p.kind = "age_out" =>
       /\ CategoryOf[p.memory] = "episodic" /\ (threshold => p.memory \in Old)
       /\ [memory |-> p.memory, version |-> p.version] \in Range(scanned)
  /\ \A p, q \in {r \in Range(proposals) : r.kind = "near_duplicate"} :
       p.memory # q.keep /\ (p.memory = q.memory => p = q)

BatchFields == {"phase", "kind", "ops", "policy", "outcomes", "summary", "checkpoint", "age",
                "dry", "listed", "scanned", "proposals"}
BatchPhase == {"idle", "apply", "scan", "checkpoint", "done", "refused", "dead"}

\* Successes, one failure, and nothing attempted after it; while the batch is at
\* work, successes only.
OutcomesFit ==
  LET answer == batch.outcomes IN
  /\ DOMAIN batch = BatchFields /\ batch.phase \in BatchPhase
  /\ batch.ops \in Seq(Range(batch.ops)) /\ answer \in Seq({"ok", "err", "not_attempted"})
  /\ Len(answer) <= Len(batch.ops)
  /\ \A i, j \in DOMAIN answer : i < j /\ answer[j] \in {"ok", "err"} => answer[i] = "ok"
  /\ batch.phase \in {"idle", "scan", "refused"} => answer = <<>>
  /\ batch.phase \in {"apply", "checkpoint"} => \A i \in DOMAIN answer : answer[i] = "ok"
  /\ batch.phase = "apply" => Len(answer) < Len(batch.ops)
  /\ batch.phase \in {"checkpoint", "done"} => Len(answer) = Len(batch.ops)
  /\ batch.phase = "apply" => \A i \in DOMAIN batch.ops :
                                batch.ops[i].kind # "noop" => batch.ops[i].scope = "active"
  /\ batch.phase = "checkpoint" => batch.kind = "compaction"
  /\ batch.phase = "scan" => batch.kind = "sleep"
  /\ batch.checkpoint \in {"none", "skipped", "stored", "error"}
  /\ batch.checkpoint # "none" =>
       batch.phase = "done" /\ \A i \in DOMAIN answer : answer[i] = "ok"

\* What the store committed for an operation that was attempted, or for the
\* checkpoint after them all.
EffectFits(e) ==
  /\ e.scope = "active" /\ (e.hard => batch.policy.hard)
  /\ \/ e.index \in DOMAIN batch.outcomes /\ batch.outcomes[e.index] \in {"ok", "err"}
     \/ e.index = Len(batch.ops) + 1 /\ batch.checkpoint \in {"stored", "error"}

EffectsFit ==
  /\ effects \in Seq(Range(effects))
  /\ batch.phase \in {"idle", "scan", "refused"} => effects = <<>>
  /\ \A i, j \in DOMAIN effects : i < j => effects[i].index < effects[j].index
  /\ \A i \in DOMAIN effects : EffectFits(effects[i])
  /\ \A j \in DOMAIN batch.outcomes :
       batch.outcomes[j] = "ok" /\ batch.ops[j].kind # "noop" =>
         \E i \in DOMAIN effects : effects[i].index = j

\* A soft forget, asked for, of an old row as it was scanned.
Forgets(f) ==
  /\ ~batch.dry /\ batch.age.apply /\ batch.age.threshold
  /\ f.kind = "forget" /\ ~f.hard
  /\ CategoryOf[f.memory] = "episodic" /\ f.memory \in Old
  /\ [memory |-> f.memory, version |-> f.version] \in Range(batch.scanned)

SleepFits ==
  batch.kind = "sleep" =>
    /\ batch.scanned \in Seq(ScanRow) /\ batch.listed \subseteq Memory
    /\ batch.phase = "scan" => batch.proposals = <<>> /\ batch.ops = <<>>
    /\ Proposes(batch.proposals, batch.scanned, batch.age.threshold)
    /\ \A o \in Range(batch.ops) : Forgets(o)
    /\ \A e \in Range(effects) : Forgets(e)

TargetsFit == targets \in [Memory -> [state : {"open", "closed", "erased"}, version : Nat \ {0}]]

BatchInv == TargetsFit /\ OutcomesFit /\ EffectsFit /\ SleepFits

-----------------------------------------------------------------------------

\* What is taken in order is what nothing that was taken bars.
LEMMA GreedyTakes ==
  ASSUME NEW top \in Nat, NEW I, I \subseteq 1 .. top, NEW bars
  PROVE  /\ Greedy(I, bars) \subseteq I
         /\ \A n \in I : n \in Greedy(I, bars) <=>
              \A m \in Greedy(I, bars) : m < n => <<m, n>> \notin bars
<1> DEFINE Takes(P, k) ==
             \A n \in I : n <= k => (n \in P <=> \A m \in P : m < n => <<m, n>> \notin bars)
           G == {k \in Nat : \E P \in SUBSET I : Takes(P, k)}
<1>1. 0 \in G
  OBVIOUS
<1>2. ASSUME NEW k \in Nat, k \in G
      PROVE  k + 1 \in G
  <2>1. PICK P \in SUBSET I : Takes(P, k)
    BY <1>2
  <2> DEFINE old == {n \in P : n <= k}
             new == {n \in I : n = k + 1 /\ \A m \in old : <<m, n>> \notin bars}
             Q == old \cup new
  <2>2. Q \in SUBSET I
    OBVIOUS
  <2>3. ASSUME NEW n \in I, n <= k + 1
        PROVE  n \in Q <=> \A m \in Q : m < n => <<m, n>> \notin bars
    <3>1. CASE n <= k
      <4>1. \A m \in I : m < n => (m \in Q <=> m \in P)
        BY <3>1
      <4>2. n \in Q <=> n \in P
        BY <3>1
      <4>3. n \in P <=> \A m \in P : m < n => <<m, n>> \notin bars
        BY <2>1, <3>1
      <4>4. QED
        BY <4>1, <4>2, <4>3, <2>2
    <3>2. CASE n = k + 1
      <4>1. \A m \in Q : m < n <=> m \in old
        BY <3>2
      <4>2. n \in Q <=> n \in new
        BY <3>2
      <4>3. QED
        BY <3>2, <4>1, <4>2
    <3>3. QED
      BY <2>3, <3>1, <3>2
  <2>4. Takes(Q, k + 1)
    BY <2>3
  <2> HIDE DEF Q, Takes
  <2>5. QED
    BY <2>2, <2>4
<1>3. top \in G
  <2> HIDE DEF G
  <2>1. QED
    BY <1>1, <1>2, SetInduction
<1>4. PICK P \in SUBSET I : Takes(P, top)
  BY <1>3
<1>5. \A n \in I : n \in P <=> \A m \in P : m < n => <<m, n>> \notin bars
  BY <1>4
<1>6. QED
  BY <1>5 DEF Greedy

\* No two duplicates are in each other's way.
LEMMA DuplicatesApart ==
  ASSUME NEW scanned \in Seq(ScanRow)
  PROVE  /\ NearDuplicates(scanned) \in Seq(Range(NearDuplicates(scanned)))
         /\ \A p, q \in Range(NearDuplicates(scanned)) :
              p.kind = "near_duplicate" /\ p.memory # q.keep /\ (p.memory = q.memory => p = q)
<1> DEFINE len == Len(scanned)
           x(n) == scanned[Outer(n, len)].memory
           y(n) == scanned[Inner(n, len)].memory
           alike == {n \in 1 .. len * len : Outer(n, len) < Inner(n, len) /\ Comparable(x(n), y(n))}
           pair == [n \in alike |-> Pair(x(n), y(n))]
           bars == {r \in alike \X alike : Bars(pair[r[1]], pair[r[2]])}
           taken == Greedy(alike, bars)
           top == len * len
           near == Among(pair, taken)
<1>1. NearDuplicates(scanned) = near
  BY DEF NearDuplicates
<1>2. len * len \in Nat /\ alike \subseteq 1 .. len * len
  <2>1. len \in Nat
    BY LenProperties
  <2>2. QED
    BY <2>1
<1>3. /\ taken \subseteq alike
      /\ \A m, n \in taken : m < n => <<m, n>> \notin bars
  <2> HIDE DEF alike, bars
  <2>1. QED
    BY <1>2, GreedyTakes
<1>4. \A n \in alike : /\ pair[n].kind = "near_duplicate" /\ pair[n].memory # pair[n].keep
  BY DEF Pair, KeeperOf, Comparable
<1>5. \A m, n \in taken : m < n => ~Bars(pair[m], pair[n])
  <2> HIDE DEF alike, pair
  <2>1. QED
    BY <1>3
<1> HIDE DEF alike, pair, taken
<1>6. taken \subseteq Nat /\ IsFiniteSet(taken)
  <2>1. taken \subseteq 1 .. top /\ top \in Nat
    BY <1>2, <1>3
  <2> HIDE DEF top
  <2>2. IsFiniteSet(1 .. top) /\ taken \in SUBSET (1 .. top)
    BY <2>1, FS_Interval
  <2>3. IsFiniteSet(taken)
    BY <2>2, FS_Subset
  <2>4. QED
    BY <2>1, <2>3
<1>7. /\ near \in Seq(Range(near))
      /\ \A p \in Range(near) : \E n \in taken : p = pair[n]
  <2>1. /\ near \in Seq(Range(near))
        /\ \A k \in DOMAIN near : Nth(taken, k) \in taken /\ near[k] = pair[Nth(taken, k)]
    BY <1>6, AmongIs
  <2> HIDE DEF near
  <2>2. QED
    BY <2>1 DEF Range
<1>8. ASSUME NEW m \in taken, NEW n \in taken
      PROVE  /\ pair[m].kind = "near_duplicate" /\ pair[m].memory # pair[n].keep
             /\ pair[m].memory = pair[n].memory => pair[m] = pair[n]
  <2>1. m < n \/ n < m \/ m = n
    BY <1>6
  <2>2. QED
    BY <2>1, <1>3, <1>4, <1>5 DEF Bars
<1> HIDE DEF near
<1>9. QED
  BY <1>1, <1>7, <1>8

\* A proposal to forget what is old is of a row as it was scanned.
LEMMA AgeOutsAreScanned ==
  ASSUME NEW scanned \in Seq(ScanRow), NEW threshold
  PROVE  /\ AgeOuts(scanned, threshold) \in Seq(Range(AgeOuts(scanned, threshold)))
         /\ \A p \in Range(AgeOuts(scanned, threshold)) :
              /\ p.kind = "age_out" /\ CategoryOf[p.memory] = "episodic"
              /\ threshold => p.memory \in Old
              /\ [memory |-> p.memory, version |-> p.version] \in Range(scanned)
<1> DEFINE I == {i \in DOMAIN scanned : /\ CategoryOf[scanned[i].memory] = "episodic"
                                        /\ threshold => scanned[i].memory \in Old}
           aged == Among(scanned, I)
           outs == [i \in DOMAIN aged |-> [kind |-> "age_out", memory |-> aged[i].memory,
                                           keep |-> 0, version |-> aged[i].version]]
<1>1. AgeOuts(scanned, threshold) = outs
  BY DEF AgeOuts
<1>2. /\ DOMAIN scanned = 1 .. Len(scanned) /\ Len(scanned) \in Nat
      /\ \A i \in DOMAIN scanned : scanned[i] \in ScanRow
  BY LenProperties
<1>3. I \subseteq Nat /\ IsFiniteSet(I)
  <2>1. I \in SUBSET (1 .. Len(scanned)) /\ IsFiniteSet(1 .. Len(scanned))
    BY <1>2, FS_Interval
  <2>2. QED
    BY <2>1, <1>2, FS_Subset
<1>4. \A i \in I : /\ i \in DOMAIN scanned /\ CategoryOf[scanned[i].memory] = "episodic"
                   /\ threshold => scanned[i].memory \in Old
  OBVIOUS
<1> HIDE DEF I
<1>5. /\ DOMAIN aged = 1 .. Cardinality(I) /\ Cardinality(I) \in Nat
      /\ \A k \in DOMAIN aged : Nth(I, k) \in I /\ aged[k] = scanned[Nth(I, k)]
  BY <1>3, AmongIs
<1> HIDE DEF aged
<1>6. outs \in [1 .. Cardinality(I) -> Range(outs)]
  BY <1>5 DEF Range
<1>7. \A p \in Range(outs) : \E i \in I :
         p = [kind |-> "age_out", memory |-> scanned[i].memory, keep |-> 0, version |-> scanned[i].version]
  BY <1>5 DEF Range
<1>8. ASSUME NEW i \in I
      PROVE  [memory |-> scanned[i].memory, version |-> scanned[i].version] \in Range(scanned)
  <2>1. scanned[i] = [memory |-> scanned[i].memory, version |-> scanned[i].version]
    BY <1>2, <1>4 DEF ScanRow
  <2>2. QED
    BY <2>1, <1>4 DEF Range
<1> HIDE DEF outs
<1>9. outs \in Seq(Range(outs))
  BY <1>5, <1>6, InSeq
<1>10. ASSUME NEW p \in Range(outs)
       PROVE  /\ p.kind = "age_out" /\ CategoryOf[p.memory] = "episodic"
              /\ threshold => p.memory \in Old
              /\ [memory |-> p.memory, version |-> p.version] \in Range(scanned)
  BY <1>4, <1>7, <1>8
<1>11. QED
  BY <1>1, <1>9, <1>10

LEMMA ProposalsFit ==
  ASSUME NEW b, NEW scanned, NEW threshold, b.scanned = scanned, b.age.threshold = threshold,
         scanned \in Seq(ScanRow)
  PROVE  Proposes(Proposals(b), scanned, threshold)
<1> DEFINE near == NearDuplicates(scanned)
           aged == AgeOuts(scanned, threshold)
           all == near \o aged
           n == IF Len(all) < MaxProposals THEN Len(all) ELSE MaxProposals
           some == SubSeq(all, 1, n)
           S == Range(near) \cup Range(aged)
<1>1. Proposals(b) = some
  BY DEF Proposals
<1>2. near \in Seq(S) /\ aged \in Seq(S)
  <2>1. near \in Seq(Range(near)) /\ aged \in Seq(Range(aged))
    BY DuplicatesApart, AgeOutsAreScanned
  <2> HIDE DEF near, aged
  <2>2. QED
    BY <2>1, SeqMonotonic
<1> HIDE DEF near, aged, S
<1>3. all \in Seq(S) /\ Len(all) \in Nat /\ \A i \in 1 .. Len(all) : all[i] \in S
  <2>1. all \in Seq(S)
    BY <1>2, ConcatProperties
  <2> HIDE DEF all
  <2>2. QED
    BY <2>1, LenProperties, ElementOfSeq
<1> HIDE DEF all
<1>4. n \in Nat /\ n <= Len(all)
  BY <1>3, WriterAssumption
<1>5. some \in Seq(S)
  <2>1. \A i \in 1 .. n : all[i] \in S
    BY <1>3, <1>4
  <2>2. n \in Int /\ 1 \in Int
    BY <1>4
  <2> HIDE DEF n
  <2>3. QED
    BY <2>1, <2>2, SubSeqProperties
<1>6. some \in Seq(Range(some)) /\ Range(some) \subseteq S
  <2> HIDE DEF some
  <2>1. Len(some) \in Nat /\ DOMAIN some = 1 .. Len(some) /\ some \in [1 .. Len(some) -> S]
    BY <1>5, LenProperties
  <2>2. some \in [1 .. Len(some) -> Range(some)] /\ Range(some) \subseteq S
    BY <2>1 DEF Range
  <2>3. QED
    BY <2>1, <2>2, InSeq
<1>7. \A p \in S : p.kind = "age_out" =>
        /\ CategoryOf[p.memory] = "episodic" /\ (threshold => p.memory \in Old)
        /\ [memory |-> p.memory, version |-> p.version] \in Range(scanned)
  BY DuplicatesApart, AgeOutsAreScanned DEF near, aged, S
<1>8. \A p, q \in S : p.kind = "near_duplicate" /\ q.kind = "near_duplicate" =>
        p.memory # q.keep /\ (p.memory = q.memory => p = q)
  <2>1. \A p, q \in Range(near) : p.memory # q.keep /\ (p.memory = q.memory => p = q)
    BY DuplicatesApart DEF near
  <2>2. \A p \in Range(aged) : p.kind = "age_out"
    BY AgeOutsAreScanned DEF aged
  <2>3. QED
    BY <2>1, <2>2 DEF S
<1> HIDE DEF some
<1>9. QED
  BY <1>1, <1>6, <1>7, <1>8 DEF Proposes

Others == BatchFields \ {"phase", "outcomes"}

LEMMA AnsweredIs ==
  ASSUME OutcomesFit, batch.phase = "apply", batch' = Answered
  PROVE  /\ DOMAIN batch' = BatchFields /\ \A f \in Others : batch'[f] = batch[f]
         /\ batch'.outcomes = Append(batch.outcomes, "ok")
         /\ \/ batch'.phase = "apply" /\ Len(batch.outcomes) + 1 < Len(batch.ops)
            \/ batch'.phase = "done" /\ Len(batch.outcomes) + 1 = Len(batch.ops)
            \/ /\ batch'.phase = "checkpoint" /\ Len(batch.outcomes) + 1 = Len(batch.ops)
               /\ batch.kind = "compaction"
<1> DEFINE b == [batch EXCEPT !.outcomes = Append(@, "ok")]
<1>1. /\ DOMAIN b = BatchFields /\ \A f \in BatchFields \ {"outcomes"} : b[f] = batch[f]
      /\ b.outcomes = Append(batch.outcomes, "ok")
      /\ b.phase = batch.phase /\ b.ops = batch.ops /\ b.kind = batch.kind
  BY DEF OutcomesFit, BatchFields
<1>2. /\ Len(b.outcomes) = Len(batch.outcomes) + 1 /\ Len(batch.outcomes) \in Nat
      /\ Len(batch.ops) \in Nat /\ Len(batch.outcomes) < Len(batch.ops)
  BY <1>1, AppendProperties, LenProperties DEF OutcomesFit
<1>3. batch' = Settle(b)
  BY DEF Answered
<1> HIDE DEF b
<1>4. CASE Len(b.outcomes) < Len(b.ops)
  <2>1. batch' = b
    BY <1>3, <1>4 DEF Settle
  <2>2. QED
    BY <1>1, <1>2, <1>4, <2>1 DEF Others, BatchFields
<1>5. CASE ~(Len(b.outcomes) < Len(b.ops))
  <2> DEFINE p == IF b.kind = "compaction" /\ b.summary /\ AllOk(b) THEN "checkpoint" ELSE "done"
  <2>1. batch' = [b EXCEPT !.phase = p]
    BY <1>3, <1>5 DEF Settle
  <2>2. p = "done" \/ (p = "checkpoint" /\ b.kind = "compaction")
    BY Zenon
  <2> HIDE DEF p
  <2>3. DOMAIN batch' = BatchFields /\ batch'.phase = p
        /\ \A f \in BatchFields \ {"phase"} : batch'[f] = b[f]
    BY <1>1, <2>1 DEF BatchFields
  <2>4. b.ops = batch.ops /\ b.kind = batch.kind /\ batch'.outcomes = b.outcomes
    BY <1>1, <2>3 DEF BatchFields
  <2>5. QED
    BY <1>1, <1>2, <1>5, <2>2, <2>3, <2>4 DEF Others
<1>6. QED
  BY <1>4, <1>5

LEMMA FailedIs ==
  ASSUME OutcomesFit, batch.phase = "apply", batch' = Failed
  PROVE  /\ DOMAIN batch' = BatchFields /\ \A f \in Others : batch'[f] = batch[f]
         /\ batch'.outcomes \in Seq({"ok", "err", "not_attempted"})
         /\ Len(batch'.outcomes) = Len(batch.ops) /\ batch'.phase = "done"
         /\ \A i \in 1 .. Len(batch.ops) :
              batch'.outcomes[i] = IF i <= Len(batch.outcomes) THEN batch.outcomes[i]
                                   ELSE IF i = Len(batch.outcomes) + 1 THEN "err" ELSE "not_attempted"
<1> DEFINE S == {"ok", "err", "not_attempted"}
           one == Append(batch.outcomes, "err")
           rest == [i \in 1 .. Len(batch.ops) - Len(batch.outcomes) - 1 |-> "not_attempted"]
           b == [batch EXCEPT !.outcomes = one \o rest]
           n == Len(batch.outcomes)
           k == Len(batch.ops)
<1>1. n \in Nat /\ k \in Nat /\ n < k /\ batch.outcomes \in Seq(S)
  BY LenProperties DEF OutcomesFit
<1>2. /\ one \in Seq(S) /\ Len(one) = n + 1
      /\ \A i \in 1 .. n + 1 : one[i] = IF i <= n THEN batch.outcomes[i] ELSE "err"
  BY <1>1, AppendProperties
<1>3. rest \in Seq(S) /\ Len(rest) = k - n - 1
  <2>1. k - n - 1 \in Nat /\ rest \in [1 .. k - n - 1 -> S]
    BY <1>1
  <2> HIDE DEF rest
  <2>2. QED
    BY <2>1, InSeq
<1>4. /\ one \o rest \in Seq(S) /\ Len(one \o rest) = k
      /\ \A i \in 1 .. k : (one \o rest)[i] = IF i <= n + 1 THEN one[i] ELSE "not_attempted"
  <2>1. \A i \in 1 .. k - n - 1 : rest[i] = "not_attempted"
    OBVIOUS
  <2> HIDE DEF one, rest, S
  <2>2. /\ one \o rest \in Seq(S) /\ Len(one \o rest) = Len(one) + Len(rest)
        /\ \A i \in 1 .. Len(one) + Len(rest) :
             (one \o rest)[i] = IF i <= Len(one) THEN one[i] ELSE rest[i - Len(one)]
    BY <1>2, <1>3, ConcatProperties
  <2> HIDE DEF n, k
  <2>3. Len(one) + Len(rest) = k
    BY <1>1, <1>2, <1>3
  <2>4. ASSUME NEW i \in 1 .. k
        PROVE  (one \o rest)[i] = IF i <= n + 1 THEN one[i] ELSE "not_attempted"
    <3>1. CASE i <= n + 1
      BY <1>1, <1>2, <2>2, <2>3, <3>1
    <3>2. CASE ~(i <= n + 1)
      <4>1. i - (n + 1) \in 1 .. k - n - 1
        BY <1>1, <3>2
      <4>2. QED
        BY <1>1, <1>2, <2>1, <2>2, <2>3, <3>2, <4>1
    <3>3. QED
      BY <3>1, <3>2
  <2>5. QED
    BY <2>2, <2>3, <2>4
<1>5. /\ DOMAIN b = BatchFields /\ \A f \in BatchFields \ {"outcomes"} : b[f] = batch[f]
      /\ b.outcomes = one \o rest /\ b.ops = batch.ops
  BY DEF OutcomesFit, BatchFields
<1>6. batch' = Settle(b)
  BY DEF Failed
<1> DEFINE all == one \o rest
<1>7. /\ all \in Seq(S) /\ Len(all) = k /\ DOMAIN all = 1 .. k
      /\ \A i \in 1 .. k : all[i] = IF i <= n THEN batch.outcomes[i]
                                    ELSE IF i = n + 1 THEN "err" ELSE "not_attempted"
  <2>1. \A i \in 1 .. k : all[i] = IF i <= n THEN batch.outcomes[i]
                                    ELSE IF i = n + 1 THEN "err" ELSE "not_attempted"
    <3> HIDE DEF one, rest, n, k
    <3>1. QED
      BY <1>1, <1>2, <1>4
  <2>2. DOMAIN all = 1 .. k
    <3> HIDE DEF all
    <3>1. QED
      BY <1>4, LenProperties DEF all
  <2>3. QED
    BY <1>4, <2>1, <2>2
<1>8. b.outcomes = all
  BY <1>5
<1> HIDE DEF b, all
<1>9. ~AllOk(b)
  BY <1>1, <1>7, <1>8 DEF AllOk
<1>10. ~(Len(b.outcomes) < Len(b.ops))
  <2>1. Len(b.outcomes) = k /\ Len(b.ops) = k
    BY <1>5, <1>7, <1>8
  <2> HIDE DEF k, n
  <2>2. QED
    BY <1>1, <2>1
<1>11. batch' = [b EXCEPT !.phase = "done"]
  BY <1>6, <1>9, <1>10 DEF Settle
<1>12. /\ DOMAIN batch' = BatchFields /\ batch'.phase = "done"
       /\ \A f \in BatchFields \ {"phase"} : batch'[f] = b[f]
  BY <1>5, <1>11 DEF BatchFields
<1>13. batch'.outcomes = all
  BY <1>8, <1>12 DEF BatchFields
<1>14. QED
  BY <1>5, <1>7, <1>12, <1>13 DEF Others

LEMMA OutcomesAnswered ==
  ASSUME OutcomesFit, batch.phase = "apply", batch' = Answered
  PROVE  OutcomesFit'
<1> DEFINE n == Len(batch.outcomes)
           o == batch'.outcomes
<1>1. /\ n \in Nat /\ n < Len(batch.ops) /\ Len(batch.ops) \in Nat
      /\ o \in Seq({"ok", "err", "not_attempted"}) /\ Len(o) = n + 1
      /\ DOMAIN o = 1 .. n + 1 /\ DOMAIN batch.outcomes = 1 .. n
      /\ \A i \in 1 .. n + 1 : o[i] = "ok"
  <2>1. /\ batch.outcomes \in Seq({"ok", "err", "not_attempted"}) /\ n < Len(batch.ops)
        /\ \A i \in DOMAIN batch.outcomes : batch.outcomes[i] = "ok"
        /\ o = Append(batch.outcomes, "ok") /\ Len(batch.ops) \in Nat
    BY AnsweredIs, LenProperties DEF OutcomesFit
  <2>2. /\ n \in Nat /\ DOMAIN batch.outcomes = 1 .. n
        /\ o \in Seq({"ok", "err", "not_attempted"}) /\ Len(o) = n + 1
        /\ \A i \in 1 .. n : o[i] = batch.outcomes[i]
        /\ o[n + 1] = "ok"
    BY <2>1, AppendProperties, LenProperties
  <2> HIDE DEF o
  <2>3. DOMAIN o = 1 .. n + 1
    BY <2>2, LenProperties
  <2>4. QED
    BY <2>1, <2>2, <2>3
<1>2. /\ batch'.ops = batch.ops /\ batch'.kind = batch.kind /\ batch'.checkpoint = batch.checkpoint
      /\ DOMAIN batch' = BatchFields
      /\ batch.checkpoint = "none"
  BY AnsweredIs DEF Others, BatchFields, OutcomesFit
<1>3. \/ batch'.phase = "apply" /\ n + 1 < Len(batch.ops)
      \/ batch'.phase = "done" /\ n + 1 = Len(batch.ops)
      \/ batch'.phase = "checkpoint" /\ n + 1 = Len(batch.ops) /\ batch.kind = "compaction"
  BY AnsweredIs
<1>4. /\ batch.ops \in Seq(Range(batch.ops))
      /\ \A i \in DOMAIN batch.ops : batch.ops[i].kind # "noop" => batch.ops[i].scope = "active"
  BY DEF OutcomesFit
<1> HIDE DEF n
<1>5. QED
  BY <1>1, <1>2, <1>3, <1>4 DEF OutcomesFit, BatchPhase

LEMMA OutcomesFailed ==
  ASSUME OutcomesFit, batch.phase = "apply", batch' = Failed
  PROVE  OutcomesFit'
<1> DEFINE n == Len(batch.outcomes)
           k == Len(batch.ops)
           o == batch'.outcomes
<1>1. /\ n \in Nat /\ n < k /\ k \in Nat /\ DOMAIN batch.outcomes = 1 .. n
      /\ \A i \in 1 .. n : batch.outcomes[i] = "ok"
  BY LenProperties DEF OutcomesFit
<1>2. /\ batch'.ops = batch.ops /\ batch'.kind = batch.kind /\ batch'.checkpoint = batch.checkpoint
      /\ DOMAIN batch' = BatchFields
      /\ batch.checkpoint = "none" /\ batch'.phase = "done"
      /\ o \in Seq({"ok", "err", "not_attempted"}) /\ Len(o) = k
      /\ \A i \in 1 .. k : o[i] = IF i <= n THEN batch.outcomes[i]
                                  ELSE IF i = n + 1 THEN "err" ELSE "not_attempted"
  BY FailedIs DEF Others, BatchFields, OutcomesFit
<1>3. DOMAIN o = 1 .. k
  <2> HIDE DEF o
  <2>1. QED
    BY <1>2, LenProperties
<1>4. batch.ops \in Seq(Range(batch.ops))
  BY DEF OutcomesFit
<1>5. \A i, j \in DOMAIN o : i < j /\ o[j] \in {"ok", "err"} => o[i] = "ok"
  <2> HIDE DEF o, n, k
  <2>1. QED
    BY <1>1, <1>2, <1>3
<1> HIDE DEF n
<1>6. QED
  BY <1>2, <1>3, <1>4, <1>5 DEF OutcomesFit, BatchPhase

\* A batch that was checked is applied from its first operation.
LEMMA BeginFits ==
  ASSUME NEW b, DOMAIN b = BatchFields, b.outcomes = <<>>, b.checkpoint = "none",
         NEW ops, ops \in Seq(Range(ops)), batch' = Begin(b, ops),
         effects' = <<>>
  PROVE  /\ OutcomesFit' /\ EffectsFit'
         /\ batch'.ops = ops /\ \A f \in BatchFields \ {"ops", "phase"} : batch'[f] = b[f]
         /\ batch'.phase \in {"done", "apply", "refused"}
<1>1. Len(ops) \in Nat /\ (ops # <<>> => Len(ops) > 0) /\ (ops = <<>> => Len(ops) = 0)
  <2>1. Len(ops) \in Nat /\ (ops # <<>> => Len(ops) \in Nat \ {0})
    BY LenProperties, EmptySeq
  <2>2. QED
    BY <2>1
<1>2. PICK p \in {"done", "apply", "refused"} :
        /\ batch' = [b EXCEPT !.ops = ops, !.phase = p]
        /\ p = "done" => ops = <<>>
        /\ p = "apply" => ops # <<>> /\ Preflight(ops, b.policy)
  BY DEF Begin
<1>3. /\ DOMAIN batch' = BatchFields /\ batch'.phase = p /\ batch'.ops = ops
      /\ \A f \in BatchFields \ {"ops", "phase"} : batch'[f] = b[f]
  BY <1>2 DEF BatchFields
<1>4. batch'.outcomes = <<>> /\ batch'.checkpoint = "none"
  BY <1>3 DEF BatchFields
<1>5. /\ <<>> \in Seq({"ok", "err", "not_attempted"}) /\ Len(<<>>) = 0 /\ DOMAIN <<>> = {}
      /\ <<>> \in Seq(Range(<<>>))
  BY EmptySeq
<1>6. p = "apply" => \A i \in DOMAIN ops : ops[i].kind # "noop" => ops[i].scope = "active"
  BY <1>2 DEF Preflight
<1>7. OutcomesFit'
  <2>1. /\ batch'.ops \in Seq(Range(batch'.ops)) /\ Len(batch'.ops) \in Nat
        /\ batch'.outcomes \in Seq({"ok", "err", "not_attempted"})
        /\ Len(batch'.outcomes) = 0 /\ DOMAIN batch'.outcomes = {}
        /\ batch'.phase \in {"done", "apply", "refused"}
    BY <1>1, <1>2, <1>3, <1>4, <1>5
  <2>2. /\ batch'.phase = "apply" => 0 < Len(batch'.ops)
        /\ batch'.phase = "done" => 0 = Len(batch'.ops)
    BY <1>1, <1>2, <1>3
  <2>3. batch'.phase = "apply" => \A i \in DOMAIN batch'.ops :
                                batch'.ops[i].kind # "noop" => batch'.ops[i].scope = "active"
    BY <1>3, <1>6
  <2>4. QED
    BY <1>3, <1>4, <2>1, <2>2, <2>3 DEF OutcomesFit, BatchPhase
<1>8. EffectsFit'
  BY <1>4, <1>5 DEF EffectsFit
<1>9. QED
  BY <1>2, <1>3, <1>7, <1>8

\* One more operation was attempted.
LEMMA AttemptedIs ==
  ASSUME OutcomesFit, batch.phase = "apply", batch' \in {Answered, Failed}
  PROVE  LET n == Len(batch.outcomes)
             o == batch'.outcomes
         IN  /\ OutcomesFit'
             /\ n \in Nat /\ n + 1 \in DOMAIN batch.ops /\ DOMAIN batch.outcomes = 1 .. n
             /\ n + 1 \in DOMAIN o /\ 1 .. n \subseteq DOMAIN o
             /\ \A i \in 1 .. n : o[i] = batch.outcomes[i] /\ o[i] = "ok"
             /\ \A j \in DOMAIN o : o[j] = "ok" => j \in 1 .. n \/ j = n + 1
             /\ o[n + 1] \in {"ok", "err"} /\ (batch' = Failed => o[n + 1] = "err")
             /\ \A f \in Others : batch'[f] = batch[f]
             /\ batch'.phase \notin {"idle", "scan", "refused"} /\ batch.checkpoint = "none"
<1> DEFINE n == Len(batch.outcomes)
           o == batch'.outcomes
<1>1. /\ n \in Nat /\ n < Len(batch.ops) /\ Len(batch.ops) \in Nat /\ DOMAIN batch.outcomes = 1 .. n
      /\ DOMAIN batch.ops = 1 .. Len(batch.ops)
      /\ \A i \in 1 .. n : batch.outcomes[i] = "ok"
      /\ batch.outcomes \in Seq({"ok", "err", "not_attempted"}) /\ batch.checkpoint = "none"
  BY LenProperties DEF OutcomesFit
<1>2. CASE batch' = Failed
  <2>1. /\ OutcomesFit' /\ batch'.phase = "done" /\ \A f \in Others : batch'[f] = batch[f]
        /\ Len(o) = Len(batch.ops)
        /\ \A i \in 1 .. Len(batch.ops) : o[i] = IF i <= n THEN batch.outcomes[i]
                                           ELSE IF i = n + 1 THEN "err" ELSE "not_attempted"
    BY <1>2, OutcomesFailed, FailedIs
  <2>2. DOMAIN o = 1 .. Len(batch.ops)
    <3>1. o \in Seq({"ok", "err", "not_attempted"})
      BY <2>1 DEF OutcomesFit
    <3> HIDE DEF o
    <3>2. QED
      BY <2>1, <3>1, LenProperties
  <2>3. o[n + 1] = "err" /\ n + 1 \in DOMAIN o /\ 1 .. n \subseteq DOMAIN o
    BY <1>1, <2>1, <2>2
  <2>4. \A j \in DOMAIN o : o[j] = "ok" => j \in 1 .. n \/ j = n + 1
    BY <1>1, <2>1, <2>2
  <2>5. \A i \in 1 .. n : o[i] = batch.outcomes[i]
    BY <1>1, <2>1
  <2> HIDE DEF o, n
  <2>6. QED
    BY <1>1, <2>1, <2>3, <2>4, <2>5 DEF n, o
<1>3. CASE batch' = Answered /\ batch' # Failed
  <2>1. /\ OutcomesFit' /\ batch'.phase \notin {"idle", "scan", "refused"}
        /\ \A f \in Others : batch'[f] = batch[f]
    BY <1>3, OutcomesAnswered, AnsweredIs
  <2>2. o = Append(batch.outcomes, "ok")
    BY <1>3, AnsweredIs
  <2>3. Len(o) = n + 1 /\ (\A i \in 1 .. n : o[i] = batch.outcomes[i]) /\ o[n + 1] = "ok"
    BY <1>1, <2>2, AppendProperties
  <2>4. DOMAIN o = 1 .. n + 1
    <3>1. o \in Seq({"ok", "err", "not_attempted"})
      BY <2>1 DEF OutcomesFit
    <3> HIDE DEF o
    <3>2. QED
      BY <2>3, <3>1, LenProperties
  <2> HIDE DEF o, n
  <2>5. QED
    BY <1>1, <1>3, <2>1, <2>3, <2>4 DEF n, o
<1>4. QED
  BY <1>2, <1>3

\* What was committed before is still accounted for when another was attempted.
LEMMA EffectStands ==
  ASSUME OutcomesFit, batch.phase = "apply", batch' \in {Answered, Failed}, NEW e, EffectFits(e)
  PROVE  EffectFits(e)' /\ e.index \in 1 .. Len(batch.outcomes)
<1>1. /\ e.scope = "active" /\ (e.hard => batch.policy.hard)
      /\ e.index \in 1 .. Len(batch.outcomes)
  BY AttemptedIs DEF EffectFits
<1>2. batch'.policy = batch.policy
  BY AttemptedIs DEF Others, BatchFields
<1>3. e.index \in DOMAIN batch'.outcomes /\ batch'.outcomes[e.index] = "ok"
  BY <1>1, AttemptedIs
<1>4. QED
  BY <1>1, <1>2, <1>3 DEF EffectFits

LEMMA EffectsAttempted ==
  ASSUME OutcomesFit, EffectsFit, batch.phase = "apply", batch' \in {Answered, Failed},
         \/ effects' = effects /\ (batch' = Failed \/ Current.kind = "noop")
         \/ effects' = Append(effects, Effect(Current)) /\ Current.kind # "noop"
  PROVE  EffectsFit'
<1> DEFINE n == Len(batch.outcomes)
           o == batch'.outcomes
<1>1. /\ n \in Nat /\ n + 1 \in DOMAIN batch.ops /\ DOMAIN batch.outcomes = 1 .. n
      /\ n + 1 \in DOMAIN o
      /\ \A i \in 1 .. n : o[i] = batch.outcomes[i] /\ o[i] = "ok"
      /\ \A j \in DOMAIN o : o[j] = "ok" => j \in 1 .. n \/ j = n + 1
      /\ o[n + 1] \in {"ok", "err"} /\ (batch' = Failed => o[n + 1] = "err")
      /\ batch'.ops = batch.ops /\ batch'.policy = batch.policy
      /\ batch'.phase \notin {"idle", "scan", "refused"}
  BY AttemptedIs DEF Others, BatchFields
<1>2. Current = batch.ops[n + 1]
  BY DEF Current
<1>3. ASSUME NEW i \in DOMAIN effects, NEW e, e = effects[i]
      PROVE  EffectFits(e)' /\ e.index \in 1 .. n
  <2>1. EffectFits(e)
    BY <1>3 DEF EffectsFit
  <2>2. QED
    BY <2>1, EffectStands
<1>4. /\ effects \in Seq(Range(effects))
      /\ \A i, j \in DOMAIN effects : i < j => effects[i].index < effects[j].index
      /\ \A j \in 1 .. n : batch.ops[j].kind # "noop" => \E i \in DOMAIN effects : effects[i].index = j
  BY <1>1 DEF EffectsFit
<1> HIDE DEF o, n
<1>5. CASE effects' = effects /\ (batch' = Failed \/ Current.kind = "noop")
  <2>1. \A j \in DOMAIN o : o[j] = "ok" /\ batch.ops[j].kind # "noop" => j \in 1 .. n
    BY <1>1, <1>2, <1>5
  <2>2. ASSUME NEW i \in DOMAIN effects'
        PROVE  EffectFits(effects[i])'
    <3>1. PICK e : e = effects[i]
      OBVIOUS
    <3>2. i \in DOMAIN effects /\ effects'[i] = e
      BY <1>5, <3>1
    <3>3. EffectFits(e)'
      BY <1>3, <3>1, <3>2
    <3>4. QED
      BY <3>2, <3>3 DEF EffectFits
  <2>3. QED
    BY <1>1, <1>4, <1>5, <2>1, <2>2 DEF EffectsFit, o
<1>6. CASE effects' = Append(effects, Effect(Current)) /\ Current.kind # "noop"
  <2>1. PICK e : e = Effect(Current)
    OBVIOUS
  <2>2. e.index = n + 1 /\ e.scope = Current.scope /\ (e.hard => batch.policy.hard)
    BY <2>1 DEF Effect, Erases, n
  <2>3. Current.scope = "active"
    BY <1>1, <1>2, <1>6 DEF OutcomesFit
  <2>4. EffectFits(e)'
    BY <1>1, <2>2, <2>3 DEF EffectFits, o
  <2>5. /\ effects' \in Seq(Range(effects')) /\ Len(effects) \in Nat
        /\ DOMAIN effects = 1 .. Len(effects) /\ DOMAIN effects' = 1 .. Len(effects) + 1
        /\ \A i \in 1 .. Len(effects) : effects'[i] = effects[i]
        /\ effects'[Len(effects) + 1] = e
    <3>1. PICK s, t : s = effects /\ t = effects'
      OBVIOUS
    <3>2. s \in Seq(Range(s)) /\ t = Append(s, e)
      BY <1>4, <1>6, <2>1, <3>1
    <3>3. t \in Seq(Range(t)) /\ Len(s) \in Nat
      BY <3>2, Appends
    <3>4. DOMAIN s = 1 .. Len(s) /\ DOMAIN t = 1 .. Len(s) + 1
      BY <3>2, Appends
    <3>5. (\A i \in 1 .. Len(s) : t[i] = s[i]) /\ t[Len(s) + 1] = e
      BY <3>2, Appends
    <3>6. QED
      BY <3>1, <3>3, <3>4, <3>5
  <2>6. ASSUME NEW i \in DOMAIN effects'
        PROVE  EffectFits(effects[i])'
    <3>1. PICK d : d = effects'[i]
      OBVIOUS
    <3>2. d = e \/ (i \in DOMAIN effects /\ d = effects[i])
      BY <2>5, <3>1
    <3>3. EffectFits(d)'
      BY <1>3, <2>4, <3>2
    <3>4. QED
      BY <3>1, <3>3 DEF EffectFits
  <2>7. \A i, j \in DOMAIN effects' : i < j => effects'[i].index < effects'[j].index
    <3>1. \A i \in DOMAIN effects : effects[i].index \in 1 .. n
      <4> SUFFICES ASSUME NEW i \in DOMAIN effects PROVE effects[i].index \in 1 .. n
        OBVIOUS
      <4>1. PICK d : d = effects[i]
        OBVIOUS
      <4>2. QED
        BY <1>3, <4>1
    <3>2. QED
      BY <1>1, <1>4, <2>2, <2>5, <3>1
  <2>8. ASSUME NEW j \in DOMAIN o, o[j] = "ok", batch.ops[j].kind # "noop"
        PROVE  \E i \in DOMAIN effects' : effects'[i].index = j
    <3>1. CASE j \in 1 .. n
      BY <1>4, <2>5, <2>8, <3>1
    <3>2. CASE j = n + 1
      BY <2>2, <2>5, <3>2
    <3>3. QED
      BY <1>1, <2>8, <3>1, <3>2
  <2>9. QED
    BY <1>1, <2>5, <2>6, <2>7, <2>8 DEF EffectsFit, o
<1>7. QED
  BY <1>5, <1>6

\* What follows a compaction's operations, if every one took place.
LEMMA CheckpointsFit ==
  ASSUME OutcomesFit, EffectsFit, CheckpointSkips \/ CheckpointStores \/ CheckpointFails
  PROVE  OutcomesFit' /\ EffectsFit' /\ batch'.kind # "sleep"
<1>1. PICK c \in {"skipped", "stored", "error"} :
        /\ batch.phase = "checkpoint" /\ batch' = [batch EXCEPT !.phase = "done", !.checkpoint = c]
        /\ \/ effects' = effects
           \/ /\ c # "skipped"
              /\ effects' = Append(effects, [kind |-> "checkpoint", scope |-> "active",
                                             index |-> Len(batch.ops) + 1,
                                             memory |-> 0, version |-> 0, hard |-> FALSE])
  BY DEF CheckpointSkips, CheckpointStores, CheckpointFails
<1>2. /\ DOMAIN batch' = BatchFields /\ batch'.phase = "done" /\ batch'.checkpoint = c
      /\ batch'.ops = batch.ops /\ batch'.outcomes = batch.outcomes
      /\ batch'.kind = batch.kind /\ batch'.policy = batch.policy
  BY <1>1 DEF OutcomesFit, BatchFields
<1>3. /\ Len(batch.outcomes) = Len(batch.ops) /\ Len(batch.ops) \in Nat
      /\ DOMAIN batch.outcomes = 1 .. Len(batch.ops)
      /\ \A i \in DOMAIN batch.outcomes : batch.outcomes[i] = "ok"
      /\ batch.kind = "compaction" /\ batch.checkpoint = "none"
  BY <1>1, LenProperties DEF OutcomesFit
<1>4. OutcomesFit'
  BY <1>1, <1>2, <1>3 DEF OutcomesFit, BatchPhase
<1>5. ASSUME NEW e, EffectFits(e)
      PROVE  EffectFits(e)' /\ e.index \in 1 .. Len(batch.ops)
  BY <1>2, <1>3, <1>5 DEF EffectFits
<1>6. ASSUME NEW i \in DOMAIN effects, NEW e, e = effects[i]
      PROVE  EffectFits(e)' /\ e.index \in 1 .. Len(batch.ops)
  BY <1>5, <1>6 DEF EffectsFit
<1>7. /\ effects \in Seq(Range(effects))
      /\ \A i, j \in DOMAIN effects : i < j => effects[i].index < effects[j].index
      /\ \A j \in DOMAIN batch.outcomes : batch.outcomes[j] = "ok" /\ batch.ops[j].kind # "noop" =>
           \E i \in DOMAIN effects : effects[i].index = j
  BY DEF EffectsFit
<1>8. CASE effects' = effects
  <2>1. ASSUME NEW i \in DOMAIN effects'
        PROVE  EffectFits(effects[i])'
    <3>1. PICK e : e = effects[i]
      OBVIOUS
    <3>2. i \in DOMAIN effects /\ effects'[i] = e
      BY <1>8, <3>1
    <3>3. EffectFits(e)'
      BY <1>6, <3>1, <3>2
    <3>4. QED
      BY <3>2, <3>3 DEF EffectFits
  <2>2. QED
    BY <1>2, <1>3, <1>4, <1>7, <1>8, <2>1 DEF EffectsFit
<1>9. CASE effects' # effects
  <2>1. PICK e : /\ e.kind = "checkpoint" /\ e.scope = "active" /\ e.index = Len(batch.ops) + 1
                 /\ ~e.hard /\ effects' = Append(effects, e) /\ c # "skipped"
    BY <1>1, <1>9
  <2>2. EffectFits(e)'
    BY <1>1, <1>2, <2>1 DEF EffectFits
  <2>3. /\ effects' \in Seq(Range(effects')) /\ Len(effects) \in Nat
        /\ DOMAIN effects = 1 .. Len(effects) /\ DOMAIN effects' = 1 .. Len(effects) + 1
        /\ \A i \in 1 .. Len(effects) : effects'[i] = effects[i]
        /\ effects'[Len(effects) + 1] = e
    <3>1. PICK s, t : s = effects /\ t = effects'
      OBVIOUS
    <3>2. s \in Seq(Range(s)) /\ t = Append(s, e)
      BY <1>7, <2>1, <3>1
    <3>3. t \in Seq(Range(t)) /\ Len(s) \in Nat
      BY <3>2, Appends
    <3>4. DOMAIN s = 1 .. Len(s) /\ DOMAIN t = 1 .. Len(s) + 1
      BY <3>2, Appends
    <3>5. (\A i \in 1 .. Len(s) : t[i] = s[i]) /\ t[Len(s) + 1] = e
      BY <3>2, Appends
    <3>6. QED
      BY <3>1, <3>3, <3>4, <3>5
  <2>4. ASSUME NEW i \in DOMAIN effects'
        PROVE  EffectFits(effects[i])'
    <3>1. PICK d : d = effects'[i]
      OBVIOUS
    <3>2. d = e \/ (i \in DOMAIN effects /\ d = effects[i])
      BY <2>3, <3>1
    <3>3. EffectFits(d)'
      BY <1>6, <2>2, <3>2
    <3>4. QED
      BY <3>1, <3>3 DEF EffectFits
  <2>5. \A i, j \in DOMAIN effects' : i < j => effects'[i].index < effects'[j].index
    <3>1. \A i \in DOMAIN effects : effects[i].index \in 1 .. Len(batch.ops)
      <4> SUFFICES ASSUME NEW i \in DOMAIN effects PROVE effects[i].index \in 1 .. Len(batch.ops)
        OBVIOUS
      <4>1. PICK d : d = effects[i]
        OBVIOUS
      <4>2. QED
        BY <1>6, <4>1
    <3>2. QED
      BY <1>3, <1>7, <2>1, <2>3, <3>1
  <2>6. \A j \in DOMAIN batch'.outcomes : batch'.outcomes[j] = "ok" /\ batch'.ops[j].kind # "noop" =>
           \E i \in DOMAIN effects' : effects'[i].index = j
    BY <1>2, <1>7, <2>3
  <2>7. effects' \in Seq(Range(effects')) /\ batch'.phase \notin {"idle", "scan", "refused"}
    BY <1>2, <2>3
  <2>8. EffectsFit'
    BY <2>4, <2>5, <2>6, <2>7 DEF EffectsFit
  <2>9. QED
    BY <1>2, <1>3, <1>4, <2>8
<1>10. QED
  BY <1>2, <1>3, <1>4, <1>8, <1>9

\* A batch that ends early leaves what it did.
LEMMA EndsFit ==
  ASSUME OutcomesFit, EffectsFit, UNCHANGED effects,
         NEW p, batch' = [batch EXCEPT !.phase = p],
         \/ p = "dead" /\ batch.phase \in {"scan", "apply", "checkpoint"}
         \/ p = "refused" /\ batch.phase = "scan"
  PROVE  /\ OutcomesFit' /\ EffectsFit' /\ batch'.phase # "scan"
         /\ \A f \in Others : batch'[f] = batch[f]
<1>1. /\ DOMAIN batch' = BatchFields /\ batch'.phase = p /\ p \in BatchPhase \ {"scan"}
      /\ batch'.outcomes = batch.outcomes /\ \A f \in Others : batch'[f] = batch[f]
  BY DEF OutcomesFit, BatchFields, BatchPhase, Others
<1>2. /\ batch'.ops = batch.ops /\ batch'.kind = batch.kind /\ batch'.policy = batch.policy
      /\ batch'.checkpoint = batch.checkpoint /\ batch.checkpoint = "none"
  BY <1>1 DEF Others, BatchFields, OutcomesFit
<1>3. OutcomesFit'
  BY <1>1, <1>2 DEF OutcomesFit
<1>4. \A e : EffectFits(e) => EffectFits(e)'
  BY <1>1, <1>2 DEF EffectFits
<1>5. EffectsFit'
  <2>1. /\ effects \in Seq(Range(effects))
        /\ \A i, j \in DOMAIN effects : i < j => effects[i].index < effects[j].index
        /\ \A j \in DOMAIN batch.outcomes : batch.outcomes[j] = "ok" /\ batch.ops[j].kind # "noop" =>
             \E i \in DOMAIN effects : effects[i].index = j
        /\ p = "refused" => effects = <<>>
    BY DEF EffectsFit
  <2>2. ASSUME NEW i \in DOMAIN effects'
        PROVE  EffectFits(effects[i])'
    <3>1. PICK e : e = effects[i]
      OBVIOUS
    <3>2. EffectFits(e)
      BY <3>1 DEF EffectsFit
    <3>3. EffectFits(e)'
      BY <1>4, <3>2
    <3>4. QED
      BY <3>1, <3>3 DEF EffectFits
  <2>3. QED
    BY <1>1, <1>2, <2>1, <2>2 DEF EffectsFit, BatchPhase
<1>6. QED
  BY <1>1, <1>3, <1>5

\* What a pass saw and meant stands while its batch goes on.
LEMMA SleepStands ==
  ASSUME SleepFits, \A f \in Others : batch'[f] = batch[f], batch'.phase # "scan",
         \A e \in Range(effects') : e \in Range(effects) \/ (batch.kind = "sleep" => Forgets(e))
  PROVE  SleepFits'
<1>1. /\ batch'.kind = batch.kind /\ batch'.scanned = batch.scanned /\ batch'.listed = batch.listed
      /\ batch'.proposals = batch.proposals /\ batch'.ops = batch.ops
      /\ batch'.age = batch.age /\ batch'.dry = batch.dry
  BY DEF Others, BatchFields
<1>2. \A f : Forgets(f) => Forgets(f)'
  BY <1>1 DEF Forgets
<1>3. SUFFICES ASSUME batch'.kind = "sleep"
      PROVE  /\ batch'.scanned \in Seq(ScanRow) /\ batch'.listed \subseteq Memory
             /\ Proposes(batch'.proposals, batch'.scanned, batch'.age.threshold)
             /\ \A o \in Range(batch'.ops) : Forgets(o)'
             /\ \A e \in Range(effects') : Forgets(e)'
  BY <1>3 DEF SleepFits
<1>4. batch.kind = "sleep"
  BY <1>1, <1>3
<1>5. /\ batch.scanned \in Seq(ScanRow) /\ batch.listed \subseteq Memory
      /\ Proposes(batch.proposals, batch.scanned, batch.age.threshold)
      /\ \A o \in Range(batch.ops) : Forgets(o)
      /\ \A e \in Range(effects) : Forgets(e)
  BY <1>4 DEF SleepFits
<1>6. QED
  BY <1>1, <1>2, <1>4, <1>5

\* What a pass forgets is of the version it scanned, for the store refuses another.
LEMMA ForgetIsGuarded ==
  ASSUME SleepFits, OutcomesFit, batch.phase = "apply", batch.kind = "sleep",
         NEW op, op \in Range(batch.ops), StoreAccepts(op)
  PROVE  Forgets(Effect(op))
<1>1. Forgets(op) /\ batch.scanned \in Seq(ScanRow)
  BY DEF SleepFits
<1>2. /\ op.kind = "forget" /\ ~op.hard
      /\ [memory |-> op.memory, version |-> op.version] \in Range(batch.scanned)
  BY <1>1 DEF Forgets
<1>3. [memory |-> op.memory, version |-> op.version] \in ScanRow
  <2>1. \A r \in Range(batch.scanned) : r \in ScanRow
    BY <1>1, LenProperties, ElementOfSeq DEF Range
  <2>2. QED
    BY <1>2, <2>1
<1>4. op.version # 0
  BY <1>3 DEF ScanRow
<1>5. op.version = targets[op.memory].version
  BY <1>2, <1>4 DEF StoreAccepts, Guarded
<1>6. /\ Effect(op).kind = "forget" /\ ~Effect(op).hard
      /\ Effect(op).memory = op.memory /\ Effect(op).version = op.version
  BY <1>2, <1>5 DEF Effect, Erases
<1>7. QED
  BY <1>1, <1>6 DEF Forgets

LEMMA OperationsFit ==
  ASSUME OutcomesFit, EffectsFit, SleepFits, SkipNoop \/ OpCommits \/ OpFails
  PROVE  OutcomesFit' /\ EffectsFit' /\ SleepFits'
<1>1. /\ batch.phase = "apply" /\ batch' \in {Answered, Failed}
      /\ \/ effects' = effects /\ (batch' = Failed \/ Current.kind = "noop")
         \/ /\ effects' = Append(effects, Effect(Current)) /\ Current.kind # "noop"
            /\ StoreAccepts(Current)
  BY DEF SkipNoop, OpCommits, OpFails
<1>2. /\ OutcomesFit' /\ batch'.phase # "scan" /\ \A f \in Others : batch'[f] = batch[f]
      /\ Current \in Range(batch.ops)
  BY <1>1, AttemptedIs DEF Current, Range
<1>3. EffectsFit'
  BY <1>1, EffectsAttempted
<1>4. \A e \in Range(effects') : e \in Range(effects) \/ (batch.kind = "sleep" => Forgets(e))
  <2>1. CASE effects' = effects
    BY <2>1
  <2>2. CASE effects' # effects
    <3>1. PICK op, s, t : op = Current /\ s = effects /\ t = effects'
      OBVIOUS
    <3>2. PICK e : e = Effect(op)
      OBVIOUS
    <3>3. t = Append(s, e) /\ StoreAccepts(op) /\ op \in Range(batch.ops)
      BY <1>1, <1>2, <2>2, <3>1, <3>2
    <3>4. s \in Seq(Range(s))
      BY <3>1 DEF EffectsFit
    <3>5. Range(t) = Range(s) \cup {e}
      BY <3>3, <3>4, Appends
    <3>6. batch.kind = "sleep" => Forgets(e)
      BY <1>1, <3>2, <3>3, ForgetIsGuarded
    <3>7. QED
      BY <3>1, <3>5, <3>6
  <2>3. QED
    BY <2>1, <2>2
<1>5. SleepFits'
  BY <1>2, <1>4, SleepStands
<1>6. QED
  BY <1>2, <1>3, <1>5

\* What a pass applies: a guarded forget of each row it proposed to.
LEMMA ForgetOpsFit ==
  ASSUME NEW b, Proposes(b.proposals, b.scanned, b.age.threshold)
  PROVE  /\ ForgetOps(b) \in Seq(Range(ForgetOps(b)))
         /\ \A op \in Range(ForgetOps(b)) :
              /\ ~b.dry /\ b.age.apply /\ b.age.threshold
              /\ op.kind = "forget" /\ ~op.hard
              /\ CategoryOf[op.memory] = "episodic" /\ op.memory \in Old
              /\ [memory |-> op.memory, version |-> op.version] \in Range(b.scanned)
<1> DEFINE p == b.proposals
           I == {i \in DOMAIN p : p[i].kind = "age_out"}
           aged == Among(p, I)
           ops == [i \in DOMAIN aged |-> ForgetOp(aged[i].memory, aged[i].version, FALSE)]
<1>1. CASE b.dry \/ ~b.age.apply \/ ~b.age.threshold
  <2>1. ForgetOps(b) = <<>>
    BY <1>1 DEF ForgetOps
  <2>2. <<>> \in Seq(Range(<<>>)) /\ Range(<<>>) = {}
    BY EmptySeq DEF Range
  <2>3. QED
    BY <2>1, <2>2
<1>2. CASE ~(b.dry \/ ~b.age.apply \/ ~b.age.threshold)
  <2>1. ForgetOps(b) = ops
    BY <1>2 DEF ForgetOps, AgeOutsOf
  <2>2. p \in Seq(Range(p)) /\ DOMAIN p = 1 .. Len(p) /\ Len(p) \in Nat
    BY LenProperties DEF Proposes
  <2>3. I \subseteq Nat /\ IsFiniteSet(I)
    <3>1. I \in SUBSET (1 .. Len(p)) /\ IsFiniteSet(1 .. Len(p))
      BY <2>2, FS_Interval
    <3>2. QED
      BY <3>1, <2>2, FS_Subset
  <2>4. \A i \in I : /\ CategoryOf[p[i].memory] = "episodic" /\ p[i].memory \in Old
                     /\ [memory |-> p[i].memory, version |-> p[i].version] \in Range(b.scanned)
    BY <1>2 DEF Proposes, Range
  <2> HIDE DEF I
  <2>5. /\ DOMAIN aged = 1 .. Cardinality(I) /\ Cardinality(I) \in Nat
        /\ \A k \in DOMAIN aged : Nth(I, k) \in I /\ aged[k] = p[Nth(I, k)]
    BY <2>3, AmongIs
  <2> HIDE DEF aged
  <2>6. ops \in [1 .. Cardinality(I) -> Range(ops)]
    BY <2>5 DEF Range
  <2>7. \A op \in Range(ops) : \E i \in I : op = ForgetOp(p[i].memory, p[i].version, FALSE)
    BY <2>5 DEF Range
  <2> HIDE DEF ops
  <2>8. ops \in Seq(Range(ops))
    BY <2>5, <2>6, InSeq
  <2>9. QED
    BY <1>2, <2>1, <2>4, <2>7, <2>8 DEF ForgetOp
<1>3. QED
  BY <1>1, <1>2

\* A page is of rows of the scope; after the last come the proposals, and what
\* they have the pass forget.
LEMMA ScanPageFits ==
  ASSUME TargetsFit, OutcomesFit, EffectsFit, SleepFits, ScanPage
  PROVE  OutcomesFit' /\ EffectsFit' /\ SleepFits'
<1> DEFINE after == IF batch.scanned = <<>> THEN 0 ELSE Last(batch.scanned).memory
           left == {m \in batch.listed : m > after /\ targets[m].state # "erased"}
           room == ScanCap - Len(batch.scanned)
           size == IF PageSize < room THEN PageSize ELSE room
           I == {m \in left : Cardinality({n \in left : n <= m}) <= size}
           page == InOrder(I)
           fetched == [i \in DOMAIN page |-> [memory |-> page[i], version |-> targets[page[i]].version]]
           read == [batch EXCEPT !.scanned = @ \o fetched]
           done == [read EXCEPT !.proposals = Proposals(read)]
<1>1. /\ batch.phase = "scan" /\ UNCHANGED <<targets, effects>>
      /\ batch' = read \/ batch' = Begin(done, ForgetOps(done))
  BY DEF ScanPage
<1>2. /\ batch.kind = "sleep" /\ DOMAIN batch = BatchFields /\ effects = <<>>
      /\ batch.outcomes = <<>> /\ batch.checkpoint = "none"
      /\ batch.proposals = <<>> /\ batch.ops = <<>>
      /\ batch.scanned \in Seq(ScanRow) /\ batch.listed \subseteq Memory
  <2>1. batch.kind = "sleep" /\ DOMAIN batch = BatchFields
        /\ batch.outcomes = <<>> /\ batch.checkpoint = "none"
    BY <1>1 DEF OutcomesFit
  <2>2. effects = <<>>
    BY <1>1 DEF EffectsFit
  <2>3. /\ batch.proposals = <<>> /\ batch.ops = <<>>
        /\ batch.scanned \in Seq(ScanRow) /\ batch.listed \subseteq Memory
    BY <1>1, <2>1 DEF SleepFits
  <2>4. QED
    BY <2>1, <2>2, <2>3
<1>3. fetched \in Seq(ScanRow)
  <2>1. I \subseteq Memory
    BY <1>2
  <2> HIDE DEF I
  <2>2. I \subseteq Nat /\ IsFiniteSet(I)
    BY <2>1, WriterAssumption, FS_Subset
  <2>3. Cardinality(I) \in Nat /\ \A k \in 1 .. Cardinality(I) : Nth(I, k) \in Memory
    BY <2>1, <2>2, NthIs
  <2>4. DOMAIN page = 1 .. Cardinality(I) /\ \A k \in DOMAIN page : page[k] \in Memory
    BY <2>3 DEF InOrder
  <2> HIDE DEF page
  <2>5. \A m \in Memory : [memory |-> m, version |-> targets[m].version] \in ScanRow
    BY DEF TargetsFit, ScanRow
  <2>6. fetched \in [1 .. Cardinality(I) -> ScanRow]
    BY <2>4, <2>5
  <2> HIDE DEF fetched
  <2>7. QED
    BY <2>3, <2>6, InSeq
<1> HIDE DEF fetched
<1>4. /\ DOMAIN read = BatchFields /\ \A f \in BatchFields \ {"scanned"} : read[f] = batch[f]
      /\ read.scanned = batch.scanned \o fetched
  BY <1>2 DEF BatchFields
<1>5. PICK scanned : scanned = read.scanned /\ scanned \in Seq(ScanRow)
  BY <1>2, <1>3, <1>4, ConcatProperties
<1> HIDE DEF read
<1>6. /\ read.phase = "scan" /\ read.kind = "sleep" /\ read.ops = <<>> /\ read.outcomes = <<>>
      /\ read.checkpoint = "none" /\ read.proposals = <<>> /\ read.listed \subseteq Memory
  BY <1>1, <1>2, <1>4 DEF BatchFields
<1>7. CASE batch' = read
  <2>1. /\ <<>> \in Seq({"ok", "err", "not_attempted"}) /\ Len(<<>>) = 0 /\ DOMAIN <<>> = {}
        /\ <<>> \in Seq(Range(<<>>)) /\ Range(<<>>) = {}
    BY EmptySeq DEF Range
  <2>2. OutcomesFit'
    <3>1. /\ DOMAIN batch' = BatchFields /\ batch'.phase = "scan" /\ batch'.kind = "sleep"
          /\ batch'.ops = <<>> /\ batch'.outcomes = <<>> /\ batch'.checkpoint = "none"
      BY <1>4, <1>6, <1>7
    <3>2. QED
      BY <2>1, <3>1 DEF OutcomesFit, BatchPhase
  <2>3. EffectsFit'
    BY <1>1, <1>2, <1>6, <1>7, <2>1 DEF EffectsFit
  <2>4. SleepFits'
    BY <1>1, <1>2, <1>5, <1>6, <1>7, <2>1 DEF SleepFits, Proposes
  <2>5. QED
    BY <2>2, <2>3, <2>4
<1>8. CASE batch' = Begin(done, ForgetOps(done))
  <2>1. /\ DOMAIN done = BatchFields /\ \A f \in BatchFields \ {"proposals"} : done[f] = read[f]
        /\ done.proposals = Proposals(read)
    BY <1>4 DEF BatchFields
  <2>2. PICK b, ops : b = done /\ ops = ForgetOps(done)
    OBVIOUS
  <2> HIDE DEF done
  <2>3. /\ DOMAIN b = BatchFields /\ b.outcomes = <<>> /\ b.checkpoint = "none"
        /\ b.kind = "sleep" /\ b.scanned = scanned /\ b.age = read.age /\ b.listed \subseteq Memory
    BY <1>5, <1>6, <2>1, <2>2 DEF BatchFields
  <2>4. PICK r, t : r = read /\ t = read.age.threshold
    OBVIOUS
  <2>5. Proposes(Proposals(r), scanned, t)
    BY <1>5, <2>4, ProposalsFit
  <2>6. Proposes(b.proposals, b.scanned, b.age.threshold)
    BY <2>1, <2>2, <2>3, <2>4, <2>5
  <2>7. /\ ops \in Seq(Range(ops))
        /\ \A op \in Range(ops) :
              /\ ~b.dry /\ b.age.apply /\ b.age.threshold
              /\ op.kind = "forget" /\ ~op.hard
              /\ CategoryOf[op.memory] = "episodic" /\ op.memory \in Old
              /\ [memory |-> op.memory, version |-> op.version] \in Range(b.scanned)
    BY <2>2, <2>6, ForgetOpsFit
  <2>8. batch' = Begin(b, ops) /\ effects' = <<>>
    BY <1>1, <1>2, <1>8, <2>2
  <2>9. /\ OutcomesFit' /\ EffectsFit'
        /\ batch'.ops = ops /\ \A f \in BatchFields \ {"ops", "phase"} : batch'[f] = b[f]
        /\ batch'.phase \in {"done", "apply", "refused"}
    BY <2>3, <2>7, <2>8, BeginFits
  <2>10. /\ batch'.kind = "sleep" /\ batch'.scanned = b.scanned /\ batch'.age = b.age
         /\ batch'.dry = b.dry /\ batch'.proposals = b.proposals /\ batch'.listed = b.listed
    BY <2>3, <2>9 DEF BatchFields
  <2>11. \A op \in Range(ops) : Forgets(op)'
    BY <2>7, <2>10 DEF Forgets
  <2>12. Range(effects') = {}
    BY <2>8, EmptySeq DEF Range
  <2>13. SleepFits'
    BY <1>5, <2>3, <2>6, <2>9, <2>10, <2>11, <2>12 DEF SleepFits
  <2>14. QED
    BY <2>9, <2>13
<1>9. QED
  BY <1>1, <1>7, <1>8

\* Whoever changes a row counts the change.
LEMMA RowsFit ==
  ASSUME TargetsFit
  PROVE  /\ \A op : targets' = RowsAfter(op) => TargetsFit'
         /\ \A m \in Memory : SomebodyElse(m) => TargetsFit'
<1> DEFINE TargetRows == [state : {"open", "closed", "erased"}, version : Nat \ {0}]
<1>1. targets \in [Memory -> TargetRows]
  BY DEF TargetsFit
<1>2. ASSUME NEW m \in Memory
      PROVE  /\ [targets[m] EXCEPT !.state = "erased"] \in TargetRows
             /\ \A state \in {"open", "closed"} : [state |-> state, version |-> targets[m].version + 1] \in TargetRows
  <2>1. targets[m] \in TargetRows
    BY <1>1
  <2>2. QED
    BY <2>1
<1> HIDE DEF TargetRows
<1>3. ASSUME NEW op, targets' = RowsAfter(op)
      PROVE  TargetsFit'
  <2>1. CASE op.kind = "supersede"
    <3>1. targets' = [targets EXCEPT ![op.memory] = [state |-> "closed", version |-> @.version + 1]]
      BY <1>3, <2>1 DEF RowsAfter
    <3>2. targets' \in [Memory -> TargetRows]
      BY <1>1, <1>2, <3>1
    <3>3. QED
      BY <3>2 DEF TargetsFit, TargetRows
  <2>2. CASE op.kind = "forget"
    <3>1. targets' = [targets EXCEPT ![op.memory] =
            IF Erases(op) THEN [@ EXCEPT !.state = "erased"]
            ELSE [state |-> "closed", version |-> @.version + 1]]
      BY <1>3, <2>2 DEF RowsAfter
    <3>2. targets' \in [Memory -> TargetRows]
      BY <1>1, <1>2, <3>1
    <3>3. QED
      BY <3>2 DEF TargetsFit, TargetRows
  <2>3. CASE op.kind \notin {"supersede", "forget"}
    <3>1. targets' = targets
      BY <1>3, <2>3 DEF RowsAfter
    <3>2. QED
      BY <3>1 DEF TargetsFit
  <2>4. QED
    BY <2>1, <2>2, <2>3
<1>4. ASSUME NEW m \in Memory, SomebodyElse(m)
      PROVE  TargetsFit'
  <2>1. \/ \E state \in {"open", "closed"} :
              targets' = [targets EXCEPT ![m] = [state |-> state, version |-> @.version + 1]]
        \/ targets' = [targets EXCEPT ![m] = [@ EXCEPT !.state = "erased"]]
    BY <1>4 DEF SomebodyElse
  <2>2. targets' \in [Memory -> TargetRows]
    BY <1>1, <1>2, <2>1
  <2>3. QED
    BY <2>2 DEF TargetsFit, TargetRows
<1>5. QED
  BY <1>3, <1>4

LEMMA BatchInitial == BatchInit => BatchInv
<1> SUFFICES ASSUME BatchInit PROVE BatchInv
  OBVIOUS
<1>1. /\ <<>> \in Seq({"ok", "err", "not_attempted"}) /\ Len(<<>>) = 0 /\ DOMAIN <<>> = {}
      /\ <<>> \in Seq(Range(<<>>))
  BY EmptySeq
<1>2. TargetsFit
  BY DEF BatchInit, TargetsFit
<1>3. batch = NoBatch /\ effects = <<>>
  BY DEF BatchInit
<1>4. OutcomesFit
  BY <1>1, <1>3 DEF NoBatch, OutcomesFit, BatchFields, BatchPhase
<1>5. EffectsFit
  BY <1>1, <1>3 DEF NoBatch, EffectsFit
<1>6. SleepFits
  BY <1>3 DEF NoBatch, SleepFits
<1>7. QED
  BY <1>2, <1>4, <1>5, <1>6 DEF BatchInv

\* A call begins with nothing done.
LEMMA BeginningsFit ==
  ASSUME BatchInv,
         \/ \E ops \in Batches, policy \in Policies :
               ApplyOps(ops, policy) \/ \E summary \in BOOLEAN : IngestCompaction(ops, policy, summary)
         \/ \E dry, apply, threshold \in BOOLEAN, policy \in Policies :
               Sleep(dry, [apply |-> apply, threshold |-> threshold], policy)
  PROVE  BatchInv'
<1>1. batch.phase = "idle" /\ UNCHANGED <<targets, effects>>
  BY DEF ApplyOps, IngestCompaction, Sleep, MayBegin
<1>2. TargetsFit' /\ effects = <<>>
  BY <1>1 DEF BatchInv, TargetsFit, EffectsFit
<1>3. DOMAIN NoBatch = BatchFields /\ NoBatch.outcomes = <<>> /\ NoBatch.checkpoint = "none"
  BY DEF NoBatch, BatchFields
<1>4. CASE \E ops \in Batches, policy \in Policies :
             ApplyOps(ops, policy) \/ \E summary \in BOOLEAN : IngestCompaction(ops, policy, summary)
  <2>1. PICK ops \in Batches :
          \E b : /\ batch' = Begin(b, ops) /\ DOMAIN b = BatchFields /\ b.kind # "sleep"
                /\ b.outcomes = <<>> /\ b.checkpoint = "none"
    <3>1. PICK ops \in Batches, policy \in Policies :
            ApplyOps(ops, policy) \/ \E summary \in BOOLEAN : IngestCompaction(ops, policy, summary)
      BY <1>4
    <3>2. CASE ApplyOps(ops, policy)
      <4>1. PICK b : b = [NoBatch EXCEPT !.kind = "apply", !.policy = policy]
        OBVIOUS
      <4>2. b.kind # "sleep" /\ DOMAIN b = BatchFields /\ b.outcomes = <<>> /\ b.checkpoint = "none"
        BY <4>1, <1>3 DEF BatchFields
      <4>3. batch' = Begin(b, ops)
        BY <3>2, <4>1 DEF ApplyOps
      <4>4. QED
        BY <4>2, <4>3
    <3>3. ASSUME NEW summary \in BOOLEAN, IngestCompaction(ops, policy, summary)
          PROVE  \E b : /\ batch' = Begin(b, ops) /\ DOMAIN b = BatchFields /\ b.kind # "sleep"
                        /\ b.outcomes = <<>> /\ b.checkpoint = "none"
      <4>1. PICK b : b = [NoBatch EXCEPT !.kind = "compaction", !.policy = policy, !.summary = summary]
        OBVIOUS
      <4>2. b.kind # "sleep" /\ DOMAIN b = BatchFields /\ b.outcomes = <<>> /\ b.checkpoint = "none"
        BY <4>1, <1>3 DEF BatchFields
      <4>3. batch' = Begin(b, ops)
        BY <3>3, <4>1 DEF IngestCompaction
      <4>4. QED
        BY <4>2, <4>3
    <3>4. QED
      BY <3>1, <3>2, <3>3
  <2>2. PICK b : /\ batch' = Begin(b, ops) /\ DOMAIN b = BatchFields /\ b.kind # "sleep"
                 /\ b.outcomes = <<>> /\ b.checkpoint = "none"
    BY <2>1
  <2>3. ops \in Seq(Range(ops)) /\ effects' = <<>>
    BY <1>1, <1>2, WriterAssumption
  <2>4. OutcomesFit' /\ EffectsFit' /\ \A f \in BatchFields \ {"ops", "phase"} : batch'[f] = b[f]
    BY <2>2, <2>3, BeginFits
  <2>5. batch'.kind # "sleep"
    BY <2>2, <2>4 DEF BatchFields
  <2>6. QED
    BY <1>2, <2>4, <2>5 DEF BatchInv, SleepFits
<1>5. CASE \E dry, apply, threshold \in BOOLEAN, policy \in Policies :
             Sleep(dry, [apply |-> apply, threshold |-> threshold], policy)
  <2>1. PICK dry, age, policy : Sleep(dry, age, policy)
    BY <1>5
  <2>2. /\ DOMAIN batch' = BatchFields /\ batch'.kind = "sleep" /\ batch'.phase = "scan"
        /\ batch'.ops = <<>> /\ batch'.outcomes = <<>> /\ batch'.checkpoint = "none"
        /\ batch'.scanned = <<>> /\ batch'.proposals = <<>> /\ batch'.listed \subseteq Memory
    BY <2>1, <1>3 DEF Sleep, NoBatch, BatchFields
  <2>3. /\ <<>> \in Seq({"ok", "err", "not_attempted"}) /\ Len(<<>>) = 0 /\ DOMAIN <<>> = {}
        /\ <<>> \in Seq(Range(<<>>)) /\ Range(<<>>) = {} /\ <<>> \in Seq(ScanRow)
    BY EmptySeq DEF Range
  <2>4. OutcomesFit'
    BY <2>2, <2>3 DEF OutcomesFit, BatchPhase
  <2>5. EffectsFit'
    BY <1>1, <1>2, <2>2, <2>3 DEF EffectsFit
  <2>6. SleepFits'
    BY <1>1, <1>2, <2>2, <2>3 DEF SleepFits, Proposes
  <2>7. QED
    BY <1>2, <2>4, <2>5, <2>6 DEF BatchInv
<1>6. QED
  BY <1>4, <1>5

LEMMA BatchSteps == BatchInv /\ BatchNext => BatchInv'
<1> SUFFICES ASSUME BatchInv, BatchNext PROVE BatchInv'
  OBVIOUS
<1>1. TargetsFit /\ OutcomesFit /\ EffectsFit /\ SleepFits
  BY DEF BatchInv
<1>2. CASE \/ \E ops \in Batches, policy \in Policies :
                ApplyOps(ops, policy) \/ \E summary \in BOOLEAN : IngestCompaction(ops, policy, summary)
           \/ \E dry, apply, threshold \in BOOLEAN, policy \in Policies :
                Sleep(dry, [apply |-> apply, threshold |-> threshold], policy)
  BY <1>2, BeginningsFit
<1>3. CASE SkipNoop \/ OpCommits \/ OpFails
  <2>1. TargetsFit'
    <3>1. targets' = targets \/ \E op : targets' = RowsAfter(op)
      BY <1>3 DEF SkipNoop, OpCommits, OpFails
    <3>2. QED
      BY <1>1, <3>1, RowsFit DEF TargetsFit
  <2>2. QED
    BY <1>1, <1>3, <2>1, OperationsFit DEF BatchInv
<1>4. CASE CheckpointSkips \/ CheckpointStores \/ CheckpointFails
  <2>1. UNCHANGED targets
    BY <1>4 DEF CheckpointSkips, CheckpointStores, CheckpointFails
  <2>2. QED
    BY <1>1, <1>4, <2>1, CheckpointsFit DEF BatchInv, TargetsFit, SleepFits
<1>5. CASE ScanPage
  <2>1. UNCHANGED targets
    BY <1>5 DEF ScanPage
  <2>2. QED
    BY <1>1, <1>5, <2>1, ScanPageFits DEF BatchInv, TargetsFit
<1>6. CASE ScanFails \/ ProcessDies
  <2>1. /\ UNCHANGED <<targets, effects>>
        /\ \E p : /\ batch' = [batch EXCEPT !.phase = p]
                  /\ \/ p = "dead" /\ batch.phase \in {"scan", "apply", "checkpoint"}
                     \/ p = "refused" /\ batch.phase = "scan"
    BY <1>6 DEF ScanFails, ProcessDies
  <2>2. /\ OutcomesFit' /\ EffectsFit' /\ batch'.phase # "scan"
        /\ \A f \in Others : batch'[f] = batch[f]
    BY <1>1, <2>1, EndsFit
  <2>3. SleepFits'
    BY <1>1, <2>1, <2>2, SleepStands
  <2>4. QED
    BY <1>1, <2>1, <2>2, <2>3 DEF BatchInv, TargetsFit
<1>7. ASSUME NEW m \in Memory, SomebodyElse(m)
      PROVE  BatchInv'
  <2>1. UNCHANGED <<batch, effects>> /\ TargetsFit'
    BY <1>1, <1>7, RowsFit DEF SomebodyElse
  <2>2. OutcomesFit'
    BY <1>1, <2>1 DEF OutcomesFit
  <2>3. EffectsFit'
    BY <1>1, <2>1 DEF EffectsFit, EffectFits
  <2>4. SleepFits'
    BY <1>1, <2>1 DEF SleepFits, Forgets
  <2>5. QED
    BY <2>1, <2>2, <2>3, <2>4 DEF BatchInv
<1>8. QED
  BY <1>2, <1>3, <1>4, <1>5, <1>6, <1>7 DEF BatchNext

LEMMA BatchStill == BatchInv /\ UNCHANGED batchVars => BatchInv'
<1> SUFFICES ASSUME BatchInv, UNCHANGED batchVars PROVE BatchInv'
  OBVIOUS
<1>1. UNCHANGED <<targets, batch, effects>>
  BY DEF batchVars
<1>2. OutcomesFit'
  BY <1>1 DEF BatchInv, OutcomesFit
<1>3. EffectsFit'
  BY <1>1 DEF BatchInv, EffectsFit, EffectFits
<1>4. SleepFits'
  BY <1>1 DEF BatchInv, SleepFits, Forgets
<1>5. QED
  BY <1>1, <1>2, <1>3, <1>4 DEF BatchInv, TargetsFit

LEMMA BatchInvIsAPrefix == BatchInv => BatchIsAPrefix
<1> SUFFICES ASSUME BatchInv PROVE BatchIsAPrefix
  OBVIOUS
<1> DEFINE answer == batch.outcomes
           oks == {i \in DOMAIN answer : answer[i] = "ok"}
           errs == {i \in DOMAIN answer : answer[i] = "err"}
           took == {effects[i].index : i \in DOMAIN effects}
<1>1. /\ DOMAIN answer = 1 .. Len(answer) /\ Len(answer) \in Nat
      /\ DOMAIN batch.ops = 1 .. Len(batch.ops) /\ Len(batch.ops) \in Nat
      /\ \A i, j \in DOMAIN answer : i < j /\ answer[j] \in {"ok", "err"} => answer[i] = "ok"
      /\ batch.phase = "done" => Len(answer) = Len(batch.ops)
      /\ batch.checkpoint # "none" =>
           batch.phase = "done" /\ \A i \in DOMAIN answer : answer[i] = "ok"
  BY LenProperties DEF BatchInv, OutcomesFit
<1>2. /\ batch.phase = "refused" => effects = <<>>
      /\ \A i, j \in DOMAIN effects : i < j => effects[i].index < effects[j].index
      /\ \A i \in DOMAIN effects : EffectFits(effects[i])
      /\ \A j \in DOMAIN answer : answer[j] = "ok" /\ batch.ops[j].kind # "noop" =>
           \E i \in DOMAIN effects : effects[i].index = j
  BY DEF BatchInv, EffectsFit
<1>3. \A i \in DOMAIN answer : i \in oks => \A j \in 1 .. i : j \in oks
  BY <1>1
<1>4. Cardinality(errs) <= 1
  <2>1. \A i, j \in errs : i = j
    BY <1>1
  <2> HIDE DEF errs
  <2>2. errs = {} \/ \E i : errs = {i}
    BY <2>1
  <2>3. ASSUME NEW i, errs = {i}
        PROVE  Cardinality(errs) = 1
    BY <2>3, FS_Singleton
  <2>4. errs = {} => Cardinality(errs) = 0
    BY FS_EmptySet
  <2>5. QED
    BY <2>2, <2>3, <2>4
<1>5. {i \in oks : batch.ops[i].kind # "noop"} \subseteq took
  BY <1>2
<1>6. took \subseteq oks \cup errs
             \cup (IF batch.checkpoint \in {"stored", "error"} THEN {Len(batch.ops) + 1} ELSE {})
  BY <1>2 DEF EffectFits
<1>7. \A i \in DOMAIN effects : effects[i].scope = "active" /\ (effects[i].hard => batch.policy.hard)
  BY <1>2 DEF EffectFits
<1>8. batch.checkpoint # "none" => oks = DOMAIN batch.ops
  BY <1>1
<1> HIDE DEF oks, errs, took, answer
<1>9. QED
  BY <1>1, <1>2, <1>3, <1>4, <1>5, <1>6, <1>7, <1>8 DEF BatchIsAPrefix, oks, errs, took, answer

LEMMA BatchInvForgetsWhatItSaw == BatchInv => SleepForgetsWhatItSaw
<1> SUFFICES ASSUME BatchInv, batch.kind = "sleep"
    PROVE  /\ \A i \in DOMAIN effects : Forgets(effects[i])
           /\ \A p, q \in {r \in Range(batch.proposals) : r.kind = "near_duplicate"} :
                p.memory # q.keep /\ (p.memory = q.memory => p = q)
  BY DEF SleepForgetsWhatItSaw, Forgets
<1>1. /\ Proposes(batch.proposals, batch.scanned, batch.age.threshold)
      /\ \A e \in Range(effects) : Forgets(e)
  BY DEF BatchInv, SleepFits
<1>2. QED
  BY <1>1 DEF Proposes, Range

LEMMA BatchInitially == Init => BatchInv
BY BatchInitial DEF Init

LEMMA BatchFitsOn == BatchInv /\ [Next]_vars => BatchInv'
<1>1. BatchInv /\ UNCHANGED batchVars => BatchInv'
  BY BatchStill
<1>2. [Next]_vars => BatchNext \/ UNCHANGED batchVars
  BY DEF Next, vars
<1>3. QED
  BY <1>1, <1>2, BatchSteps

\* A batch leaves behind the operations up to some point and, of one that
\* failed, perhaps the effect; nothing when it was refused, nothing outside the
\* active scope, no erasure the policy forbids.
THEOREM BatchesArePrefixes == Spec => []BatchIsAPrefix
<1>1. Spec => []BatchInv
  BY BatchInitially, BatchFitsOn, PTL DEF Spec
<1>2. QED
  BY <1>1, BatchInvIsAPrefix, PTL

\* A sleep pass forgets only what it was told to, softly, and at the version it
\* scanned; no proposal keeps what another would forget.
THEOREM PassesForgetWhatTheySaw == Spec => []SleepForgetsWhatItSaw
<1>1. Spec => []BatchInv
  BY BatchInitially, BatchFitsOn, PTL DEF Spec
<1>2. QED
  BY <1>1, BatchInvForgetsWhatItSaw, PTL

-----------------------------------------------------------------------------
(* Recall *)

\* What packs are made of.
Lines == [card : Card, whole : BOOLEAN]

\* f is the size of a pack, line by line.
SizeRuns(f, pack) ==
    /\ f[0] = HeaderSize /\ PackSize(pack) = f[Len(pack)]
    /\ \A i \in 1 .. Len(pack) : f[i] = f[i - 1] + LineSize(pack[i])

\* The size of a pack is the heading's, and each line's in turn.
LEMMA SizeSteps ==
  ASSUME NEW pack \in Seq(Lines)
  PROVE  \E f \in [0 .. Len(pack) -> Nat] : SizeRuns(f, pack)
<1> DEFINE n == Len(pack)
           Turn(x, i) == x + LineSize(pack[i])
           step == [t \in (1 .. n) \X Nat |-> Turn(t[2], t[1])]
           Body(h, s) == IF s = {} THEN HeaderSize ELSE Turn(h[s \ {Max(s)}], Max(s))
<1>1. n \in Nat /\ DOMAIN pack = 1 .. n
  BY LenProperties
<1>2. /\ HeaderSize \in Nat
      /\ \A x \in Nat, i \in 1 .. n : Turn(x, i) \in Nat
  <2>1. \A i \in 1 .. n : pack[i] \in Lines
    BY <1>1, LenProperties
  <2>2. HeaderSize \in Nat /\ \A line \in Lines : LineSize(line) \in Nat
    BY RecallAssumption DEF LineSize, Lines
  <2>3. QED
    BY <2>1, <2>2
<1> HIDE DEF Turn
<1>3. step \in [(1 .. n) \X Nat -> Nat]
  <2> SUFFICES ASSUME NEW t \in (1 .. n) \X Nat PROVE Turn(t[2], t[1]) \in Nat
    OBVIOUS
  <2>1. t[1] \in 1 .. n /\ t[2] \in Nat
    OBVIOUS
  <2>2. QED
    BY <1>2, <2>1
<1>4. PICK g \in [SUBSET (1 .. n) -> Nat] : FoldsBy(g, HeaderSize, step, n)
  <2>1. n \in Nat /\ HeaderSize \in Nat
    BY <1>1, <1>2
  <2> HIDE DEF step, n
  <2>2. QED
    BY <1>3, <2>1, FoldExists
<1>5. \A s \in SUBSET (1 .. n) : g[s] = Body(g, s)
  <2> SUFFICES ASSUME NEW s \in SUBSET (1 .. n), s # {} PROVE g[s] = Turn(g[s \ {Max(s)}], Max(s))
    BY <1>4 DEF FoldsBy
  <2>1. Max(s) \in 1 .. n /\ s \ {Max(s)} \in SUBSET (1 .. n)
    BY <1>1, MaxIs
  <2>2. g[s \ {Max(s)}] \in Nat
    BY <1>4, <2>1
  <2>3. step[<<Max(s), g[s \ {Max(s)}]>>] = Turn(g[s \ {Max(s)}], Max(s))
    BY <2>1, <2>2
  <2> HIDE DEF step
  <2>4. QED
    BY <1>4, <2>3 DEF FoldsBy
<1>6. g = [s \in SUBSET (1 .. n) |-> Body(g, s)]
  <2> HIDE DEF Body
  <2>1. QED
    BY <1>4, <1>5
<1>7. PackSize(pack) = (CHOOSE h : h = [s \in SUBSET DOMAIN pack |-> Body(h, s)])[DOMAIN pack]
  BY DEF Turn, PackSize, FoldLeft, MapThenFoldSet
<1>8. PICK h : h = [s \in SUBSET (1 .. n) |-> Body(h, s)] /\ PackSize(pack) = h[1 .. n]
  <2> HIDE DEF Body
  <2>1. QED
    BY <1>1, <1>6, <1>7
<1>9. StepsBy(h, Nat, HeaderSize, step, n)
  <2> SUFFICES ASSUME NEW s \in SUBSET (1 .. n)
      PROVE  /\ s = {} => h[s] = HeaderSize
             /\ s # {} /\ h[s \ {Max(s)}] \in Nat => h[s] = step[<<Max(s), h[s \ {Max(s)}]>>]
    <3> HIDE DEF step, n
    <3>1. QED
      BY DEF StepsBy
  <2>1. h[s] = Body(h, s)
    <3> HIDE DEF Body
    <3>1. QED
      BY <1>8
  <2>2. s # {} => Max(s) \in 1 .. n
    BY <1>1, MaxIs
  <2>3. s # {} /\ h[s \ {Max(s)}] \in Nat =>
          step[<<Max(s), h[s \ {Max(s)}]>>] = Turn(h[s \ {Max(s)}], Max(s))
    BY <2>2
  <2> HIDE DEF step
  <2>4. QED
    BY <2>1, <2>3
<1>10. PICK f \in [0 .. n -> Nat] :
          f[n] = h[1 .. n] /\ RunsBy(f, HeaderSize, step, n)
  <2>1. n \in Nat /\ HeaderSize \in Nat
    BY <1>1, <1>2
  <2> HIDE DEF step, n
  <2>2. QED
    BY <1>3, <1>9, <2>1, FoldSteps
<1>11. ASSUME NEW i \in 1 .. n PROVE f[i] = Turn(f[i - 1], i)
  <2>1. i - 1 \in 0 .. n
    BY <1>1
  <2>2. f[i - 1] \in Nat
    BY <1>10, <2>1
  <2>3. step[<<i, f[i - 1]>>] = Turn(f[i - 1], i)
    BY <2>2
  <2> HIDE DEF step
  <2>4. QED
    BY <1>10, <2>3 DEF RunsBy
<1>12. QED
  BY <1>8, <1>10, <1>11 DEF Turn, RunsBy, SizeRuns

\* A card's place in a ranking that names it.
LEMMA RankIs ==
  ASSUME NEW list \in Seq(Card), NEW c \in Range(list)
  PROVE  RankIn(list, c) \in 1 .. Len(list) /\ list[RankIn(list, c)] = c /\ RankIn(list, c) \in Nat
<1>1. \E i \in DOMAIN list : list[i] = c
  BY DEF Range
<1>2. RankIn(list, c) \in DOMAIN list /\ list[RankIn(list, c)] = c
  BY <1>1 DEF RankIn
<1>3. DOMAIN list = 1 .. Len(list) /\ Len(list) \in Nat
  BY LenProperties
<1>4. QED
  BY <1>2, <1>3

\* A quotient, as what it multiplies to.
LEMMA Quotient ==
  ASSUME NEW d \in Nat, NEW x \in Nat, x # 0
  PROVE  d \div x \in Nat /\ x * (d \div x) <= d /\ d < x * (d \div x) + x
<1>1. d \div x \in Int
  OBVIOUS
<1>2. x * (d \div x) <= d
  OBVIOUS
<1>3. d < x * (d \div x) + x
  OBVIOUS
<1>4. d \div x >= 0
  OBVIOUS
<1>5. QED
  BY <1>1, <1>2, <1>3, <1>4

\* A better rank contributes no less.
LEMMA ContributionIs ==
  ASSUME NEW i \in Nat
  PROVE  Contribution(i) \in Nat /\ \A j \in Nat : i < j => Contribution(j) <= Contribution(i)
<1>1. Denominator \in Nat
  BY DEF Denominator
<1>2. Contribution(i) \in Nat
  BY <1>1, Quotient DEF Contribution
<1>3. SUFFICES ASSUME NEW j \in Nat, i < j PROVE Contribution(j) <= Contribution(i)
  BY <1>2
<1> DEFINE d == Denominator
           x == 60 + i
           y == 60 + j
           p == Contribution(i)
           q == Contribution(j)
<1>4. x \in Nat /\ y \in Nat /\ x # 0 /\ y # 0 /\ x < y
  BY <1>3
<1>5. p \in Nat /\ d < x * p + x /\ q \in Nat /\ y * q <= d
  BY <1>1, <1>4, Quotient DEF Contribution
<1> HIDE DEF d, x, y, p, q
<1>6. SUFFICES ASSUME q >= p + 1 PROVE FALSE
  BY <1>5 DEF p, q
<1>7. y * q >= x * q
  BY <1>4, <1>5
<1>8. x * q >= x * (p + 1)
  BY <1>4, <1>5, <1>6
<1>9. x * (p + 1) = x * p + x
  BY <1>4, <1>5
<1>10. x * q \in Nat /\ y * q \in Nat /\ x * p \in Nat
  BY <1>4, <1>5
<1>11. d \in Nat
  BY <1>1 DEF d
<1>12. QED
  BY <1>4, <1>5, <1>7, <1>8, <1>9, <1>10, <1>11

\* f is what a card has of the rankings so far.
ShareRuns(f, c, lists) ==
    /\ f[0] = 0 /\ Share(c, lists) = f[Len(lists)]
    /\ \A i \in 1 .. Len(lists) :
          f[i] = IF c \in Range(lists[i]) THEN f[i - 1] + Contribution(RankIn(lists[i], c))
                 ELSE f[i - 1]

\* A card's share is what each ranking adds to it in turn.
LEMMA ShareSteps ==
  ASSUME NEW c, NEW lists \in Seq(Seq(Card))
  PROVE  \E f \in [0 .. Len(lists) -> Nat] : ShareRuns(f, c, lists)
<1> DEFINE n == Len(lists)
           Turn(x, i) == (IF c \in Range(lists[i]) THEN x + Contribution(RankIn(lists[i], c)) ELSE x)
           step == [t \in (1 .. n) \X Nat |-> Turn(t[2], t[1])]
           Body(h, s) == IF s = {} THEN 0 ELSE Turn(h[s \ {Max(s)}], Max(s))
<1>1. n \in Nat /\ DOMAIN lists = 1 .. n
  BY LenProperties
<1>2. /\ 0 \in Nat
      /\ \A x \in Nat, i \in 1 .. n : Turn(x, i) \in Nat
  <2> SUFFICES ASSUME NEW x \in Nat, NEW i \in 1 .. n, c \in Range(lists[i])
               PROVE  x + Contribution(RankIn(lists[i], c)) \in Nat
    OBVIOUS
  <2>1. lists[i] \in Seq(Card)
    BY <1>1, LenProperties
  <2>2. RankIn(lists[i], c) \in Nat /\ Contribution(RankIn(lists[i], c)) \in Nat
    BY <2>1, RankIs, ContributionIs
  <2>3. QED
    BY <2>2
<1> HIDE DEF Turn
<1>3. step \in [(1 .. n) \X Nat -> Nat]
  <2> SUFFICES ASSUME NEW t \in (1 .. n) \X Nat PROVE Turn(t[2], t[1]) \in Nat
    OBVIOUS
  <2>1. t[1] \in 1 .. n /\ t[2] \in Nat
    OBVIOUS
  <2>2. QED
    BY <1>2, <2>1
<1>4. PICK g \in [SUBSET (1 .. n) -> Nat] : FoldsBy(g, 0, step, n)
  <2>1. n \in Nat /\ 0 \in Nat
    BY <1>1, <1>2
  <2> HIDE DEF step, n
  <2>2. QED
    BY <1>3, <2>1, FoldExists
<1>5. \A s \in SUBSET (1 .. n) : g[s] = Body(g, s)
  <2> SUFFICES ASSUME NEW s \in SUBSET (1 .. n), s # {} PROVE g[s] = Turn(g[s \ {Max(s)}], Max(s))
    BY <1>4 DEF FoldsBy
  <2>1. Max(s) \in 1 .. n /\ s \ {Max(s)} \in SUBSET (1 .. n)
    BY <1>1, MaxIs
  <2>2. g[s \ {Max(s)}] \in Nat
    BY <1>4, <2>1
  <2>3. step[<<Max(s), g[s \ {Max(s)}]>>] = Turn(g[s \ {Max(s)}], Max(s))
    BY <2>1, <2>2
  <2> HIDE DEF step
  <2>4. QED
    BY <1>4, <2>3 DEF FoldsBy
<1>6. g = [s \in SUBSET (1 .. n) |-> Body(g, s)]
  <2> HIDE DEF Body
  <2>1. QED
    BY <1>4, <1>5
<1>7. Share(c, lists) = (CHOOSE h : h = [s \in SUBSET DOMAIN lists |-> Body(h, s)])[DOMAIN lists]
  BY DEF Turn, Share, FoldLeft, MapThenFoldSet
<1>8. PICK h : h = [s \in SUBSET (1 .. n) |-> Body(h, s)] /\ Share(c, lists) = h[1 .. n]
  <2> HIDE DEF Body
  <2>1. QED
    BY <1>1, <1>6, <1>7
<1>9. StepsBy(h, Nat, 0, step, n)
  <2> SUFFICES ASSUME NEW s \in SUBSET (1 .. n)
      PROVE  /\ s = {} => h[s] = 0
             /\ s # {} /\ h[s \ {Max(s)}] \in Nat => h[s] = step[<<Max(s), h[s \ {Max(s)}]>>]
    <3> HIDE DEF step, n
    <3>1. QED
      BY DEF StepsBy
  <2>1. h[s] = Body(h, s)
    <3> HIDE DEF Body
    <3>1. QED
      BY <1>8
  <2>2. s # {} => Max(s) \in 1 .. n
    BY <1>1, MaxIs
  <2>3. s # {} /\ h[s \ {Max(s)}] \in Nat =>
          step[<<Max(s), h[s \ {Max(s)}]>>] = Turn(h[s \ {Max(s)}], Max(s))
    BY <2>2
  <2> HIDE DEF step
  <2>4. QED
    BY <2>1, <2>3
<1>10. PICK f \in [0 .. n -> Nat] :
          f[n] = h[1 .. n] /\ RunsBy(f, 0, step, n)
  <2>1. n \in Nat /\ 0 \in Nat
    BY <1>1, <1>2
  <2> HIDE DEF step, n
  <2>2. QED
    BY <1>3, <1>9, <2>1, FoldSteps
<1>11. ASSUME NEW i \in 1 .. n PROVE f[i] = Turn(f[i - 1], i)
  <2>1. i - 1 \in 0 .. n
    BY <1>1
  <2>2. f[i - 1] \in Nat
    BY <1>10, <2>1
  <2>3. step[<<i, f[i - 1]>>] = Turn(f[i - 1], i)
    BY <2>2
  <2> HIDE DEF step
  <2>4. QED
    BY <1>10, <2>3 DEF RunsBy
<1>12. QED
  BY <1>8, <1>10, <1>11 DEF Turn, RunsBy, ShareRuns

\* The rankings of a recall's passes, the cards they name, and the first that
\* names a card.
PassLists == Seq(Seq(Card))
SeenIn(lists) == UNION {Range(lists[p]) : p \in DOMAIN lists}
FirstOfCard(c, lists) == Min(Naming(c, lists))

\* A share is a number.
LEMMA ShareIs ==
  ASSUME NEW c, NEW lists \in PassLists
  PROVE  Share(c, lists) \in Nat
<1>1. PICK f \in [0 .. Len(lists) -> Nat] : ShareRuns(f, c, lists)
  BY ShareSteps DEF PassLists
<1>2. Len(lists) \in Nat /\ Len(lists) \in 0 .. Len(lists)
  BY LenProperties DEF PassLists
<1>3. QED
  BY <1>1, <1>2 DEF ShareRuns

\* A card that stands above another wherever that one is named.
Dominates(c, d, lists) ==
    \A p \in Naming(d, lists) :
        /\ c \in Range(lists[p])
        /\ RankIn(lists[p], c) < RankIn(lists[p], d)

\* A card that stands above another has no smaller a share.
LEMMA ShareDominates ==
  ASSUME NEW c, NEW d, NEW lists \in PassLists, Dominates(c, d, lists)
  PROVE  Share(d, lists) <= Share(c, lists)
<1> DEFINE n == Len(lists)
           part(e, i) == Contribution(RankIn(lists[i], e))
<1>1. n \in Nat /\ DOMAIN lists = 1 .. n /\ \A i \in 1 .. n : lists[i] \in Seq(Card)
  BY LenProperties DEF PassLists
<1>2. PICK f \in [0 .. Len(lists) -> Nat] : ShareRuns(f, c, lists)
  BY ShareSteps DEF PassLists
<1>3. PICK g \in [0 .. Len(lists) -> Nat] : ShareRuns(g, d, lists)
  BY ShareSteps DEF PassLists
<1> DEFINE G == {i \in 0 .. n : g[i] <= f[i]}
<1>4. 0 \in G
  BY <1>1, <1>2, <1>3 DEF ShareRuns
<1>5. ASSUME NEW i \in 1 .. n, i - 1 \in G PROVE i \in G
  <2>1. i - 1 \in 0 .. n /\ i \in 0 .. n /\ lists[i] \in Seq(Card) /\ i \in DOMAIN lists
    BY <1>1
  <2>2. f[i - 1] \in Nat /\ g[i - 1] \in Nat /\ g[i - 1] <= f[i - 1]
    BY <1>5, <2>1
  <2>3. CASE d \in Range(lists[i])
    <3>1. i \in Naming(d, lists)
      BY <2>1, <2>3 DEF Naming
    <3>2. c \in Range(lists[i]) /\ RankIn(lists[i], c) < RankIn(lists[i], d)
      BY <3>1 DEF Dominates
    <3>3. RankIn(lists[i], c) \in Nat /\ RankIn(lists[i], d) \in Nat
      BY <2>1, <2>3, <3>2, RankIs
    <3>4. part(d, i) \in Nat /\ part(c, i) \in Nat /\ part(d, i) <= part(c, i)
      BY <3>2, <3>3, ContributionIs
    <3>5. g[i] = g[i - 1] + part(d, i) /\ f[i] = f[i - 1] + part(c, i)
      BY <1>2, <1>3, <2>3, <3>2 DEF ShareRuns
    <3> HIDE DEF part
    <3>6. QED
      BY <2>1, <2>2, <3>4, <3>5
  <2>4. CASE d \notin Range(lists[i])
    <3>1. g[i] = g[i - 1]
      BY <1>3, <2>4 DEF ShareRuns
    <3>2. f[i] \in Nat /\ f[i] >= f[i - 1]
      <4>1. CASE c \in Range(lists[i])
        <5>1. part(c, i) \in Nat
          BY <2>1, <4>1, RankIs, ContributionIs
        <5>2. f[i] = f[i - 1] + part(c, i)
          BY <1>2, <4>1 DEF ShareRuns
        <5> HIDE DEF part
        <5>3. QED
          BY <2>2, <5>1, <5>2
      <4>2. CASE c \notin Range(lists[i])
        BY <1>2, <2>2, <4>2 DEF ShareRuns
      <4>3. QED
        BY <4>1, <4>2
    <3>3. QED
      BY <2>1, <2>2, <3>1, <3>2
  <2>5. QED
    BY <2>3, <2>4
<1> HIDE DEF G
<1>6. n \in G
  <2>1. 0 .. n \subseteq G
    BY <1>1, <1>4, <1>5, Upward
  <2>2. QED
    BY <1>1, <2>1
<1>7. QED
  BY <1>2, <1>3, <1>6 DEF G, ShareRuns

\* Where a card is met first.
LEMMA FirstIs ==
  ASSUME NEW lists \in PassLists, NEW c \in SeenIn(lists)
  PROVE  LET p == FirstOfCard(c, lists)
         IN  /\ p \in DOMAIN lists /\ p \in Nat /\ \A q \in Naming(c, lists) : p <= q
             /\ c \in Range(lists[p]) /\ lists[p] \in Seq(Card)
             /\ RankIn(lists[p], c) \in Nat /\ lists[p][RankIn(lists[p], c)] = c
<1> DEFINE p == FirstOfCard(c, lists)
<1>1. DOMAIN lists = 1 .. Len(lists) /\ Len(lists) \in Nat /\ \A i \in DOMAIN lists : lists[i] \in Seq(Card)
  BY LenProperties DEF PassLists
<1>2. Naming(c, lists) \subseteq Nat /\ Naming(c, lists) # {}
  BY <1>1 DEF Naming, SeenIn
<1>3. p \in Naming(c, lists) /\ \A q \in Naming(c, lists) : p <= q
  BY <1>2, MinIs DEF FirstOfCard
<1> HIDE DEF p
<1>4. p \in DOMAIN lists /\ c \in Range(lists[p])
  BY <1>3 DEF Naming
<1>5. lists[p] \in Seq(Card) /\ p \in Nat
  BY <1>1, <1>4
<1>6. RankIn(lists[p], c) \in Nat /\ lists[p][RankIn(lists[p], c)] = c
  BY <1>4, <1>5, RankIs
<1>7. QED
  BY <1>3, <1>4, <1>5, <1>6 DEF p

\* Cards are ordered by share, then by where they are met.
LEMMA AheadOrders ==
  ASSUME NEW lists \in PassLists
  PROVE  /\ \A c \in SeenIn(lists) : ~Ahead(c, c, lists)
         /\ \A c, d, e \in SeenIn(lists) :
               Ahead(c, d, lists) /\ Ahead(d, e, lists) => Ahead(c, e, lists)
         /\ \A c, d \in SeenIn(lists) : c # d => Ahead(c, d, lists) \/ Ahead(d, c, lists)
<1> DEFINE S == SeenIn(lists)
           s(c) == Share(c, lists)
           p(c) == FirstOfCard(c, lists)
           r(c) == RankIn(lists[p(c)], c)
<1>1. \A c \in S : s(c) \in Nat /\ p(c) \in Nat /\ r(c) \in Nat /\ lists[p(c)][r(c)] = c
  BY ShareIs, FirstIs
<1>2. \A c, d \in S : Ahead(c, d, lists) <=>
          \/ s(c) > s(d)
          \/ s(c) = s(d) /\ p(c) < p(d)
          \/ s(c) = s(d) /\ p(c) = p(d) /\ r(c) < r(d)
  BY DEF Ahead, Sooner, FirstOfCard
<1> HIDE DEF s, p, r, S
<1>3. \A c \in S : ~Ahead(c, c, lists)
  BY <1>1, <1>2
<1>4. ASSUME NEW c \in S, NEW d \in S, NEW e \in S, Ahead(c, d, lists), Ahead(d, e, lists)
      PROVE  Ahead(c, e, lists)
  BY <1>1, <1>2, <1>4
<1>5. ASSUME NEW c \in S, NEW d \in S, c # d
      PROVE  Ahead(c, d, lists) \/ Ahead(d, c, lists)
  <2>1. s(c) # s(d) \/ p(c) # p(d) \/ r(c) # r(d)
    BY <1>1, <1>5
  <2>2. QED
    BY <1>1, <1>2, <2>1
<1>6. QED
  BY <1>3, <1>4, <1>5 DEF S

\* Only so many cards are seen.
LEMMA SeenIsFinite ==
  ASSUME NEW lists \in PassLists
  PROVE  IsFiniteSet(SeenIn(lists)) /\ SeenIn(lists) \subseteq Card
<1>1. SeenIn(lists) \subseteq Card
  <2> SUFFICES ASSUME NEW p \in DOMAIN lists, NEW c \in Range(lists[p]) PROVE c \in Card
    BY DEF SeenIn
  <2>1. lists[p] \in Seq(Card)
    BY LenProperties DEF PassLists
  <2>2. QED
    BY <2>1, RankIs, LenProperties
<1>2. QED
  BY <1>1, RecallAssumption, FS_Subset

\* The fused ranking has every card that was seen, once, in that order.
LEMMA FuseIs ==
  ASSUME NEW lists \in PassLists
  PROVE  LET F == RrfFuse(lists)
             S == SeenIn(lists)
             N == Cardinality(S)
         IN  /\ N \in Nat /\ F \in [1 .. N -> S]
             /\ \A c \in S : \E k \in 1 .. N : F[k] = c
             /\ \A i, j \in 1 .. N : i < j => Ahead(F[i], F[j], lists)
<1> DEFINE F == RrfFuse(lists)
           S == SeenIn(lists)
           N == Cardinality(S)
           before(c) == {d \in S : Ahead(d, c, lists)}
           place(c) == 1 + Cardinality(before(c))
           at == [c \in S |-> place(c)]
<1>1. IsFiniteSet(S) /\ N \in Nat
  BY SeenIsFinite, FS_CardinalityType
<1>2. F = [k \in 1 .. N |-> CHOOSE c \in S : place(c) = k]
  BY DEF RrfFuse, SeenIn
<1>3. /\ \A c \in S : ~Ahead(c, c, lists)
      /\ \A c, d, e \in S : Ahead(c, d, lists) /\ Ahead(d, e, lists) => Ahead(c, e, lists)
      /\ \A c, d \in S : c # d => Ahead(c, d, lists) \/ Ahead(d, c, lists)
  BY AheadOrders
<1> HIDE DEF S
<1>4. \A c \in S : IsFiniteSet(before(c)) /\ Cardinality(before(c)) \in Nat /\ place(c) \in 1 .. N
  <2> SUFFICES ASSUME NEW c \in S
               PROVE  IsFiniteSet(before(c)) /\ Cardinality(before(c)) \in Nat /\ place(c) \in 1 .. N
    OBVIOUS
  <2>1. before(c) \in SUBSET S /\ before(c) # S
    BY <1>3
  <2> HIDE DEF before
  <2>2. IsFiniteSet(before(c)) /\ Cardinality(before(c)) <= N /\ Cardinality(before(c)) # N
    BY <1>1, <2>1, FS_Subset
  <2>3. Cardinality(before(c)) \in Nat
    BY <2>2, FS_CardinalityType
  <2>4. QED
    BY <1>1, <2>2, <2>3
<1>5. ASSUME NEW c \in S, NEW d \in S, Ahead(c, d, lists) PROVE place(c) < place(d)
  <2>1. before(c) \in SUBSET before(d) /\ before(c) # before(d)
    <3>1. \A e \in S : Ahead(e, c, lists) => Ahead(e, d, lists)
      BY <1>3, <1>5
    <3>2. c \in before(d) /\ c \notin before(c)
      BY <1>3, <1>5
    <3>3. QED
      BY <3>1, <3>2
  <2>2. IsFiniteSet(before(d)) /\ Cardinality(before(c)) \in Nat /\ Cardinality(before(d)) \in Nat
    BY <1>4
  <2> HIDE DEF before
  <2>3. Cardinality(before(c)) <= Cardinality(before(d)) /\ Cardinality(before(c)) # Cardinality(before(d))
    BY <2>1, <2>2, FS_Subset
  <2>4. QED
    BY <2>2, <2>3
<1> HIDE DEF before, place
<1>6. at \in Injection(S, 1 .. N)
  <2>1. at \in [S -> 1 .. N]
    BY <1>4
  <2>2. \A c, d \in S : at[c] = at[d] => c = d
    <3> SUFFICES ASSUME NEW c \in S, NEW d \in S, place(c) = place(d), c # d PROVE FALSE
      OBVIOUS
    <3>1. place(c) < place(d) \/ place(d) < place(c)
      BY <1>3, <1>5
    <3>2. place(c) \in 1 .. N /\ place(d) \in 1 .. N
      BY <1>4
    <3>3. QED
      BY <1>1, <3>1, <3>2
  <2>3. QED
    BY <2>1, <2>2 DEF Injection, IsInjective
<1>7. IsFiniteSet(1 .. N) /\ Cardinality(1 .. N) = N
  BY <1>1, FS_Interval
<1>8. at \in Surjection(S, 1 .. N)
  <2> HIDE DEF at
  <2>1. QED
    BY <1>6, <1>7, FS_Injection
<1>9. \A k \in 1 .. N : \E c \in S : place(c) = k
  BY <1>8 DEF Surjection
<1>10. \A k \in 1 .. N : F[k] \in S /\ place(F[k]) = k
  <2> HIDE DEF F
  <2>1. QED
    BY <1>2, <1>9
<1>11. F \in [1 .. N -> S]
  BY <1>2, <1>10
<1>12. ASSUME NEW c \in S PROVE \E k \in 1 .. N : F[k] = c
  <2>1. place(c) \in 1 .. N
    BY <1>4
  <2>2. F[place(c)] \in S /\ place(F[place(c)]) = place(c)
    BY <1>10, <2>1
  <2>3. F[place(c)] = c
    BY <1>6, <2>2 DEF Injection, IsInjective
  <2>4. QED
    BY <2>1, <2>3
<1>13. ASSUME NEW i \in 1 .. N, NEW j \in 1 .. N, i < j PROVE Ahead(F[i], F[j], lists)
  <2>1. F[i] \in S /\ F[j] \in S /\ place(F[i]) = i /\ place(F[j]) = j
    BY <1>10
  <2>2. F[i] # F[j] /\ ~(j < i)
    BY <1>1, <1>13, <2>1
  <2>3. ~Ahead(F[j], F[i], lists)
    BY <1>5, <2>1, <2>2
  <2>4. QED
    BY <1>3, <2>1, <2>2, <2>3
<1>14. QED
  BY <1>1, <1>11, <1>12, <1>13 DEF S

\* The hits that are kept of a fused ranking.
Kept(lists) ==
    LET F == RrfFuse(lists)
    IN  SubSeq(F, 1, IF Len(F) < RecallLimit THEN Len(F) ELSE RecallLimit)

\* They repeat no card, and are the first of the ranking.
LEMMA KeptIs ==
  ASSUME NEW lists \in PassLists
  PROVE  LET H == Kept(lists)
             F == RrfFuse(lists)
         IN  /\ H \in Seq(Card) /\ Len(H) \in Nat /\ DOMAIN H = 1 .. Len(H)
             /\ Len(H) <= Cardinality(SeenIn(lists))
             /\ \A i \in 1 .. Len(H) : H[i] = F[i] /\ H[i] \in SeenIn(lists)
             /\ \A i, j \in 1 .. Len(H) : i < j => H[i] # H[j]
<1> DEFINE F == RrfFuse(lists)
           S == SeenIn(lists)
           N == Cardinality(S)
           m == IF Len(F) < RecallLimit THEN Len(F) ELSE RecallLimit
           H == SubSeq(F, 1, m)
<1>1. /\ N \in Nat /\ F \in [1 .. N -> S]
      /\ \A i, j \in 1 .. N : i < j => Ahead(F[i], F[j], lists)
  BY FuseIs
<1>2. S \subseteq Card
  BY SeenIsFinite
<1> HIDE DEF F, S
<1>3. F \in [1 .. N -> Card]
  BY <1>1, <1>2
<1>4. F \in Seq(Card) /\ Len(F) = N
  <2> HIDE DEF N
  <2>1. QED
    BY <1>1, <1>3, InSeq
<1>5. m \in Nat /\ m <= N
  BY <1>1, <1>4, RecallAssumption
<1> HIDE DEF m, N
<1>6. H \in Seq(Card) /\ Len(H) = m /\ \A i \in 1 .. m : H[i] = F[i]
  <2>1. \A i \in 1 .. m : F[i] \in Card
    BY <1>1, <1>3, <1>5
  <2>2. /\ H \in Seq(Card) /\ Len(H) = (IF 1 <= m THEN m - 1 + 1 ELSE 0)
        /\ \A i \in 1 .. m - 1 + 1 : H[i] = F[1 + i - 1]
    BY <1>5, <2>1, SubSeqProperties
  <2>3. m - 1 + 1 = m /\ \A i \in 1 .. m : 1 + i - 1 = i
    BY <1>5
  <2> HIDE DEF H
  <2>4. QED
    BY <1>5, <2>2, <2>3
<1> HIDE DEF H
<1>7. \A i \in 1 .. m : H[i] \in S
  BY <1>1, <1>5, <1>6
<1>8. ASSUME NEW i \in 1 .. m, NEW j \in 1 .. m, i < j PROVE H[i] # H[j]
  <2>1. i \in 1 .. N /\ j \in 1 .. N
    BY <1>1, <1>5
  <2>2. Ahead(F[i], F[j], lists) /\ F[i] \in S
    BY <1>1, <1>8, <2>1
  <2>3. ~Ahead(F[i], F[i], lists)
    BY <2>2, AheadOrders DEF S
  <2>4. QED
    BY <1>6, <2>2, <2>3
<1>9. DOMAIN H = 1 .. m
  BY <1>6, LenProperties
<1>10. Kept(lists) = H
  BY DEF Kept, H, m, F
<1>11. QED
  BY <1>5, <1>6, <1>7, <1>8, <1>9, <1>10 DEF N, S, F

\* A hit's rank is its place.
LEMMA RankOfHit ==
  ASSUME NEW H \in Seq(Card), \A i, j \in 1 .. Len(H) : i < j => H[i] # H[j],
         NEW k \in 1 .. Len(H)
  PROVE  RankIn(H, H[k]) = k
<1>1. Len(H) \in Nat /\ DOMAIN H = 1 .. Len(H)
  BY LenProperties
<1>2. H[k] \in Range(H)
  BY <1>1 DEF Range
<1>3. RankIn(H, H[k]) \in 1 .. Len(H) /\ H[RankIn(H, H[k])] = H[k]
  BY <1>2, RankIs
<1>4. PICK r \in 1 .. Len(H) : r = RankIn(H, H[k])
  BY <1>3
<1>5. ~(r < k) /\ ~(k < r)
  BY <1>3, <1>4
<1>6. QED
  BY <1>1, <1>4, <1>5

\* A card that stands above another in every ranking that names the other is
\* ahead of it when they are fused, and kept if the other is.
LEMMA DominanceIsRespected ==
  ASSUME NEW lists \in PassLists, NEW d \in Range(Kept(lists)), NEW c, c # d, Dominates(c, d, lists)
  PROVE  /\ c \in Range(Kept(lists))
         /\ RankIn(Kept(lists), c) < RankIn(Kept(lists), d)
<1> DEFINE F == RrfFuse(lists)
           S == SeenIn(lists)
           N == Cardinality(S)
           H == Kept(lists)
<1>1. /\ N \in Nat /\ F \in [1 .. N -> S] /\ \A e \in S : \E k \in 1 .. N : F[k] = e
      /\ \A i, j \in 1 .. N : i < j => Ahead(F[i], F[j], lists)
  BY FuseIs
<1>2. /\ H \in Seq(Card) /\ Len(H) \in Nat /\ DOMAIN H = 1 .. Len(H) /\ Len(H) <= N
      /\ \A i \in 1 .. Len(H) : H[i] = F[i] /\ H[i] \in S
      /\ \A i, j \in 1 .. Len(H) : i < j => H[i] # H[j]
  BY KeptIs
<1>3. PICK j \in 1 .. Len(H) : H[j] = d
  BY <1>2 DEF Range
<1>4. d \in S
  BY <1>2, <1>3
<1>5. PICK p : /\ p = FirstOfCard(d, lists) /\ p \in DOMAIN lists /\ p \in Nat
               /\ d \in Range(lists[p]) /\ lists[p] \in Seq(Card)
  BY <1>4, FirstIs
<1>6. c \in Range(lists[p]) /\ RankIn(lists[p], c) < RankIn(lists[p], d)
  BY <1>5 DEF Dominates, Naming
<1>7. c \in S
  BY <1>5, <1>6 DEF SeenIn
<1>8. Ahead(c, d, lists)
  <2>1. Share(c, lists) \in Nat /\ Share(d, lists) \in Nat /\ Share(d, lists) <= Share(c, lists)
    BY ShareIs, ShareDominates
  <2>2. p \in Naming(c, lists)
    BY <1>5, <1>6 DEF Naming
  <2>3. FirstOfCard(c, lists) \in Nat /\ FirstOfCard(c, lists) <= p
    BY <1>7, <2>2, FirstIs
  <2>4. Sooner(c, d, lists)
    BY <1>5, <1>6, <2>3 DEF Sooner, FirstOfCard
  <2>5. QED
    BY <2>1, <2>4 DEF Ahead
<1> HIDE DEF F, S, N, H
<1>9. PICK i \in 1 .. N : F[i] = c
  BY <1>1, <1>7
<1>10. j \in 1 .. N /\ F[j] = d
  BY <1>1, <1>2, <1>3
<1>11. i < j
  <2>1. i # j
    BY <1>9, <1>10
  <2>2. j < i => Ahead(d, c, lists)
    BY <1>1, <1>9, <1>10
  <2>3. ~Ahead(d, c, lists)
    <3>1. Ahead(d, c, lists) => Ahead(c, c, lists)
      BY <1>4, <1>7, <1>8, AheadOrders DEF S
    <3>2. QED
      BY <1>7, <3>1, AheadOrders DEF S
  <2>4. QED
    BY <1>1, <1>9, <1>10, <2>1, <2>2, <2>3
<1>12. i \in 1 .. Len(H) /\ H[i] = c
  BY <1>1, <1>2, <1>3, <1>9, <1>11
<1>13. RankIn(H, H[i]) = i /\ RankIn(H, H[j]) = j
  BY <1>2, <1>3, <1>12, RankOfHit
<1>14. c \in Range(H)
  BY <1>2, <1>12 DEF Range
<1>15. QED
  BY <1>3, <1>11, <1>12, <1>13, <1>14 DEF H

\* f is a pack as a loop over the hits makes it.
FillRuns(f, start, hits, whole, budget, cap) ==
    /\ f[0] = start /\ Fill(start, hits, whole, budget, cap) = f[Len(hits)]
    /\ \A i \in 1 .. Len(hits) : f[i] = Add(f[i - 1], Line(hits[i], whole), budget, cap)

\* A loop over the hits is the lines they add in turn.
LEMMA FillSteps ==
  ASSUME NEW start \in Seq(Lines), NEW hits \in Seq(Card), NEW whole \in BOOLEAN,
         NEW budget, NEW cap
  PROVE  \E f \in [0 .. Len(hits) -> Seq(Lines)] : FillRuns(f, start, hits, whole, budget, cap)
<1> DEFINE n == Len(hits)
           Turn(x, i) == Add(x, Line(hits[i], whole), budget, cap)
           step == [t \in (1 .. n) \X Seq(Lines) |-> Turn(t[2], t[1])]
           Body(h, s) == IF s = {} THEN start ELSE Turn(h[s \ {Max(s)}], Max(s))
<1>1. n \in Nat /\ DOMAIN hits = 1 .. n
  BY LenProperties
<1>2. /\ start \in Seq(Lines)
      /\ \A x \in Seq(Lines), i \in 1 .. n : Turn(x, i) \in Seq(Lines)
  <2> SUFFICES ASSUME NEW x \in Seq(Lines), NEW i \in 1 .. n
               PROVE  Add(x, Line(hits[i], whole), budget, cap) \in Seq(Lines)
    OBVIOUS
  <2>1. hits[i] \in Card
    BY <1>1, LenProperties
  <2>2. Line(hits[i], whole) \in Lines
    BY <2>1 DEF Line, Lines
  <2>3. Append(x, Line(hits[i], whole)) \in Seq(Lines)
    BY <2>2, AppendProperties
  <2>4. QED
    BY <2>3 DEF Add
<1> HIDE DEF Turn
<1>3. step \in [(1 .. n) \X Seq(Lines) -> Seq(Lines)]
  <2> SUFFICES ASSUME NEW t \in (1 .. n) \X Seq(Lines) PROVE Turn(t[2], t[1]) \in Seq(Lines)
    OBVIOUS
  <2>1. t[1] \in 1 .. n /\ t[2] \in Seq(Lines)
    OBVIOUS
  <2>2. QED
    BY <1>2, <2>1
<1>4. PICK g \in [SUBSET (1 .. n) -> Seq(Lines)] : FoldsBy(g, start, step, n)
  <2>1. n \in Nat /\ start \in Seq(Lines)
    BY <1>1, <1>2
  <2> HIDE DEF step, n
  <2>2. QED
    BY <1>3, <2>1, FoldExists
<1>5. \A s \in SUBSET (1 .. n) : g[s] = Body(g, s)
  <2> SUFFICES ASSUME NEW s \in SUBSET (1 .. n), s # {} PROVE g[s] = Turn(g[s \ {Max(s)}], Max(s))
    BY <1>4 DEF FoldsBy
  <2>1. Max(s) \in 1 .. n /\ s \ {Max(s)} \in SUBSET (1 .. n)
    BY <1>1, MaxIs
  <2>2. g[s \ {Max(s)}] \in Seq(Lines)
    BY <1>4, <2>1
  <2>3. step[<<Max(s), g[s \ {Max(s)}]>>] = Turn(g[s \ {Max(s)}], Max(s))
    BY <2>1, <2>2
  <2> HIDE DEF step
  <2>4. QED
    BY <1>4, <2>3 DEF FoldsBy
<1>6. g = [s \in SUBSET (1 .. n) |-> Body(g, s)]
  <2> HIDE DEF Body
  <2>1. QED
    BY <1>4, <1>5
<1>7. Fill(start, hits, whole, budget, cap) = (CHOOSE h : h = [s \in SUBSET DOMAIN hits |-> Body(h, s)])[DOMAIN hits]
  BY DEF Turn, Fill, FoldLeft, MapThenFoldSet
<1>8. PICK h : h = [s \in SUBSET (1 .. n) |-> Body(h, s)] /\ Fill(start, hits, whole, budget, cap) = h[1 .. n]
  <2> HIDE DEF Body
  <2>1. QED
    BY <1>1, <1>6, <1>7
<1>9. StepsBy(h, Seq(Lines), start, step, n)
  <2> SUFFICES ASSUME NEW s \in SUBSET (1 .. n)
      PROVE  /\ s = {} => h[s] = start
             /\ s # {} /\ h[s \ {Max(s)}] \in Seq(Lines) => h[s] = step[<<Max(s), h[s \ {Max(s)}]>>]
    <3> HIDE DEF step, n
    <3>1. QED
      BY DEF StepsBy
  <2>1. h[s] = Body(h, s)
    <3> HIDE DEF Body
    <3>1. QED
      BY <1>8
  <2>2. s # {} => Max(s) \in 1 .. n
    BY <1>1, MaxIs
  <2>3. s # {} /\ h[s \ {Max(s)}] \in Seq(Lines) =>
          step[<<Max(s), h[s \ {Max(s)}]>>] = Turn(h[s \ {Max(s)}], Max(s))
    BY <2>2
  <2> HIDE DEF step
  <2>4. QED
    BY <2>1, <2>3
<1>10. PICK f \in [0 .. n -> Seq(Lines)] :
          f[n] = h[1 .. n] /\ RunsBy(f, start, step, n)
  <2>1. n \in Nat /\ start \in Seq(Lines)
    BY <1>1, <1>2
  <2> HIDE DEF step, n
  <2>2. QED
    BY <1>3, <1>9, <2>1, FoldSteps
<1>11. ASSUME NEW i \in 1 .. n PROVE f[i] = Turn(f[i - 1], i)
  <2>1. i - 1 \in 0 .. n
    BY <1>1
  <2>2. f[i - 1] \in Seq(Lines)
    BY <1>10, <2>1
  <2>3. step[<<i, f[i - 1]>>] = Turn(f[i - 1], i)
    BY <2>2
  <2> HIDE DEF step
  <2>4. QED
    BY <1>10, <2>3 DEF RunsBy
<1>12. QED
  BY <1>8, <1>10, <1>11 DEF Turn, RunsBy, FillRuns

\* An empty pack is its heading.
LEMMA EmptyPack == PackSize(<<>>) = HeaderSize /\ HeaderSize \in Nat
<1>1. <<>> \in Seq(Lines) /\ Len(<<>>) = 0
  BY EmptySeq
<1>2. PICK f \in [0 .. Len(<<>>) -> Nat] : SizeRuns(f, <<>>)
  BY <1>1, SizeSteps
<1>3. QED
  BY <1>1, <1>2, RecallAssumption DEF SizeRuns

\* A line adds its size to the pack's.
LEMMA SizeGrows ==
  ASSUME NEW pack \in Seq(Lines), NEW line \in Lines
  PROVE  /\ PackSize(pack) \in Nat /\ LineSize(line) \in Nat
         /\ PackSize(Append(pack, line)) = PackSize(pack) + LineSize(line)
<1> DEFINE n == Len(pack)
           q == Append(pack, line)
<1>1. /\ n \in Nat /\ q \in Seq(Lines) /\ Len(q) = n + 1 /\ q[n + 1] = line
      /\ \A i \in 1 .. n : q[i] = pack[i] /\ pack[i] \in Lines
  BY AppendProperties, LenProperties
<1>2. \A l \in Lines : LineSize(l) \in Nat
  BY RecallAssumption DEF LineSize, Lines
<1>3. PICK f \in [0 .. Len(pack) -> Nat] : SizeRuns(f, pack)
  BY SizeSteps
<1> HIDE DEF q
<1>4. PICK g \in [0 .. Len(q) -> Nat] : SizeRuns(g, q)
  BY <1>1, SizeSteps
<1> DEFINE G == {i \in 0 .. n : f[i] = g[i]}
<1>5. 0 \in G
  BY <1>1, <1>3, <1>4 DEF SizeRuns
<1>6. ASSUME NEW i \in 1 .. n, i - 1 \in G PROVE i \in G
  <2>1. i \in 1 .. Len(q) /\ i \in 0 .. n
    BY <1>1
  <2>2. f[i] = f[i - 1] + LineSize(pack[i]) /\ g[i] = g[i - 1] + LineSize(q[i])
    BY <1>3, <1>4, <2>1 DEF SizeRuns
  <2>3. QED
    BY <1>1, <1>6, <2>1, <2>2
<1> HIDE DEF G
<1>7. n \in G
  <2>1. 0 .. n \subseteq G
    BY <1>1, <1>5, <1>6, Upward
  <2>2. QED
    BY <1>1, <2>1
<1>8. PackSize(pack) = f[n] /\ f[n] \in Nat /\ g[n] = f[n]
  BY <1>1, <1>3, <1>7 DEF SizeRuns, G
<1>9. PackSize(q) = g[n] + LineSize(line)
  <2>1. n + 1 \in 1 .. Len(q) /\ n + 1 - 1 = n
    BY <1>1
  <2>2. PackSize(q) = g[n + 1] /\ g[n + 1] = g[n + 1 - 1] + LineSize(q[n + 1])
    BY <1>1, <1>4, <2>1 DEF SizeRuns
  <2>3. QED
    BY <1>1, <2>1, <2>2
<1>10. QED
  BY <1>2, <1>8, <1>9 DEF q

\* What a loop over the first i hits has made of a pack: it holds what it held,
\* then lines in the order of the hits, no card twice; it is within its size and
\* number of cards; and a hit that is not in it found no room, nor would it now.
FillFits(P, start, hits, whole, budget, cap, i) ==
  /\ P \in Seq(Lines) /\ Len(start) <= Len(P)
  /\ \A k \in 1 .. Len(start) : P[k] = start[k]
  /\ \A k \in Len(start) + 1 .. Len(P) :
       /\ P[k].whole = whole /\ P[k].card \in Range(hits)
       /\ RankIn(hits, P[k].card) <= i
  /\ \A k, l \in Len(start) + 1 .. Len(P) :
       k < l => RankIn(hits, P[k].card) < RankIn(hits, P[l].card)
  /\ \A k, l \in 1 .. Len(P) : k < l => P[k].card # P[l].card
  /\ P = start \/ (Len(P) <= cap /\ PackSize(P) <= budget)
  /\ \A j \in 1 .. i :
       \/ \E k \in 1 .. Len(P) : P[k].card = hits[j]
       \/ Len(P) >= cap
       \/ PackSize(P) + LineSize(Line(hits[j], whole)) > budget

\* The next hit keeps that.
LEMMA AddFits ==
  ASSUME NEW start \in Seq(Lines), NEW hits \in Seq(Card), NEW whole \in BOOLEAN,
         NEW budget \in Nat, NEW cap \in Nat,
         \A j, m \in 1 .. Len(hits) : j < m => hits[j] # hits[m],
         NEW i \in 1 .. Len(hits), NEW P, FillFits(P, start, hits, whole, budget, cap, i - 1)
  PROVE  FillFits(Add(P, Line(hits[i], whole), budget, cap), start, hits, whole, budget, cap, i)
<1> DEFINE line == Line(hits[i], whole)
           Q == Add(P, line, budget, cap)
           s == Len(start)
           n == Len(P)
           rank(c) == RankIn(hits, c)
<1>1. /\ hits[i] \in Card /\ hits[i] \in Range(hits) /\ Len(hits) \in Nat /\ s \in Nat /\ n \in Nat
      /\ P \in Seq(Lines)
  BY LenProperties DEF FillFits, Range
<1>2. line \in Lines /\ line.card = hits[i] /\ line.whole = whole /\ rank(hits[i]) = i
  BY <1>1, RankOfHit DEF Line, Lines
<1>3. \A c \in Range(hits) : rank(c) \in Nat
  BY RankIs
<1>4. PackSize(P) \in Nat /\ \A l \in Lines : LineSize(l) \in Nat
  BY <1>1, <1>2, SizeGrows
<1>5. \A j \in 1 .. Len(hits) : Line(hits[j], whole) \in Lines
  <2>1. \A j \in 1 .. Len(hits) : hits[j] \in Card
    BY LenProperties
  <2>2. QED
    BY <2>1 DEF Line, Lines
<1>6. CASE Q = P
  <2>1. \/ \E k \in 1 .. n : P[k].card = hits[i]
        \/ n >= cap
        \/ PackSize(P) + LineSize(line) > budget
    <3>1. Q = IF (\A k \in DOMAIN P : P[k].card # line.card) /\ n < cap
                  /\ PackSize(P) + LineSize(line) <= budget THEN Append(P, line) ELSE P
      BY DEF Add
    <3>2. DOMAIN P = 1 .. n /\ Append(P, line) # P
      <4>1. Len(Append(P, line)) = n + 1
        BY <1>1, <1>2, AppendProperties
      <4>2. QED
        BY <1>1, <4>1, LenProperties
    <3> HIDE DEF Q, line
    <3>3. LineSize(line) \in Nat
      BY <1>2, <1>4
    <3>4. ~(/\ \A k \in DOMAIN P : P[k].card # line.card
            /\ n < cap /\ PackSize(P) + LineSize(line) <= budget)
      BY <1>6, <3>1, <3>2
    <3>5. (\E k \in 1 .. n : P[k].card = hits[i]) \/ ~(\E k \in DOMAIN P : P[k].card = line.card)
      BY <1>2, <3>2
    <3>6. QED
      BY <1>1, <1>4, <3>3, <3>4, <3>5
  <2>2. \A k \in s + 1 .. n : P[k].card \in Range(hits) /\ rank(P[k].card) <= i
    <3> SUFFICES ASSUME NEW k \in s + 1 .. n
                 PROVE  P[k].card \in Range(hits) /\ rank(P[k].card) <= i
      OBVIOUS
    <3>1. P[k].card \in Range(hits) /\ rank(P[k].card) <= i - 1
      BY DEF FillFits
    <3>2. rank(P[k].card) \in Nat
      BY <1>3, <3>1
    <3>3. QED
      BY <1>1, <3>1, <3>2
  <2>3. \A j \in 1 .. i : j \in 1 .. i - 1 \/ j = i
    BY <1>1
  <2> HIDE DEF Q
  <2>4. FillFits(P, start, hits, whole, budget, cap, i)
    BY <1>1, <2>1, <2>2, <2>3 DEF FillFits
  <2>5. QED
    BY <1>6, <2>4 DEF Q
<1>7. CASE /\ Q = Append(P, line) /\ \A k \in DOMAIN P : P[k].card # line.card
           /\ n < cap /\ PackSize(P) + LineSize(line) <= budget
  <2>1. /\ Q \in Seq(Lines) /\ Len(Q) = n + 1 /\ Q[n + 1] = line
        /\ \A k \in 1 .. n : Q[k] = P[k]
    BY <1>1, <1>2, <1>7, AppendProperties
  <2>2. PackSize(Q) = PackSize(P) + LineSize(line) /\ LineSize(line) \in Nat
    BY <1>1, <1>2, <1>7, SizeGrows
  <2> HIDE DEF Q, line
  <2>3. s <= n /\ \A k \in 1 .. s : Q[k] = start[k]
    BY <1>1, <2>1 DEF FillFits
  <2>4. ASSUME NEW k \in s + 1 .. n + 1
        PROVE  /\ Q[k].whole = whole /\ Q[k].card \in Range(hits) /\ rank(Q[k].card) <= i
               /\ k <= n => rank(Q[k].card) <= i - 1
    <3>1. CASE k = n + 1
      BY <1>1, <1>2, <2>1, <3>1
    <3>2. CASE k \in s + 1 .. n
      <4>1. Q[k] = P[k]
        BY <1>1, <2>1, <3>2
      <4>2. P[k].whole = whole /\ P[k].card \in Range(hits) /\ rank(P[k].card) <= i - 1
        BY <3>2 DEF FillFits
      <4>3. rank(P[k].card) \in Nat
        BY <1>3, <4>2
      <4> HIDE DEF rank
      <4>4. QED
        BY <1>1, <4>1, <4>2, <4>3
    <3>3. QED
      BY <1>1, <2>3, <3>1, <3>2
  <2>5. ASSUME NEW k \in s + 1 .. n + 1, NEW l \in s + 1 .. n + 1, k < l
        PROVE  rank(Q[k].card) < rank(Q[l].card)
    <3>1. k \in s + 1 .. n
      BY <1>1, <2>5
    <3>2. CASE l = n + 1
      <4>1. rank(Q[k].card) \in Nat /\ rank(Q[k].card) <= i - 1
        BY <1>1, <1>3, <2>4, <3>1
      <4>2. rank(Q[l].card) = i
        BY <1>2, <2>1, <3>2
      <4> HIDE DEF rank
      <4>3. QED
        BY <1>1, <4>1, <4>2
    <3>3. CASE l \in s + 1 .. n
      <4>1. Q[k] = P[k] /\ Q[l] = P[l]
        BY <1>1, <2>1, <3>1, <3>3
      <4>2. QED
        BY <2>5, <3>1, <3>3, <4>1 DEF FillFits
    <3>4. l = n + 1 \/ l \in s + 1 .. n
      BY <1>1
    <3>5. QED
      BY <3>2, <3>3, <3>4
  <2>6. ASSUME NEW k \in 1 .. n + 1, NEW l \in 1 .. n + 1, k < l PROVE Q[k].card # Q[l].card
    <3>1. k \in 1 .. n /\ Q[k] = P[k] /\ k \in DOMAIN P
      BY <1>1, <2>1, <2>6, LenProperties
    <3>2. CASE l = n + 1
      BY <1>7, <2>1, <3>1, <3>2
    <3>3. CASE l \in 1 .. n
      BY <2>1, <2>6, <3>1, <3>3 DEF FillFits
    <3>4. QED
      BY <1>1, <2>6, <3>2, <3>3
  <2>7. Len(Q) <= cap /\ PackSize(Q) <= budget
    BY <1>1, <1>7, <2>1, <2>2
  <2>8. ASSUME NEW j \in 1 .. i
        PROVE  \/ \E k \in 1 .. Len(Q) : Q[k].card = hits[j]
               \/ Len(Q) >= cap
               \/ PackSize(Q) + LineSize(Line(hits[j], whole)) > budget
    <3>1. CASE j = i
      <4>1. n + 1 \in 1 .. Len(Q) /\ Q[n + 1].card = hits[j]
        BY <1>1, <1>2, <2>1, <3>1
      <4>2. QED
        BY <4>1
    <3>2. CASE j \in 1 .. i - 1
      <4>1. \/ \E k \in 1 .. n : P[k].card = hits[j]
            \/ n >= cap
            \/ PackSize(P) + LineSize(Line(hits[j], whole)) > budget
        BY <3>2 DEF FillFits
      <4>2. LineSize(Line(hits[j], whole)) \in Nat
        <5>1. j \in 1 .. Len(hits)
          BY <1>1, <3>2
        <5>2. QED
          BY <1>4, <1>5, <5>1
      <4>3. \A k \in 1 .. n : k \in 1 .. Len(Q) /\ Q[k] = P[k]
        BY <1>1, <2>1
      <4>4. QED
        BY <1>1, <1>4, <1>7, <2>1, <2>2, <4>1, <4>2, <4>3
    <3>3. QED
      BY <1>1, <3>1, <3>2
  <2>9. QED
    BY <1>1, <2>1, <2>3, <2>4, <2>5, <2>6, <2>7, <2>8 DEF FillFits, Q, line
<1>8. QED
  <2>1. Q = P \/ <1>7!1
    BY DEF Add
  <2>2. QED
    BY <1>6, <1>7, <2>1

\* Nothing is repeated, in hits and in a pack.
Apart(s) == \A i, j \in 1 .. Len(s) : i < j => s[i] # s[j]
CardsApart(pack) == \A k, l \in 1 .. Len(pack) : k < l => pack[k].card # pack[l].card

\* A loop over all the hits; and one that starts from nothing takes the first of
\* them if there is room for it.
LEMMA FillIs ==
  ASSUME NEW start \in Seq(Lines), NEW hits \in Seq(Card), NEW whole \in BOOLEAN,
         NEW budget \in Nat, NEW cap \in Nat, Apart(hits), CardsApart(start)
  PROVE  LET P == Fill(start, hits, whole, budget, cap)
         IN  /\ FillFits(P, start, hits, whole, budget, cap, Len(hits))
             /\ /\ start = <<>> /\ 0 < cap /\ hits # <<>>
                /\ HeaderSize + LineSize(Line(hits[1], whole)) <= budget
                => 1 <= Len(P) /\ P[1].card = hits[1]
<1> DEFINE n == Len(hits)
           P == Fill(start, hits, whole, budget, cap)
           First == /\ start = <<>> /\ 0 < cap /\ hits # <<>>
                    /\ HeaderSize + LineSize(Line(hits[1], whole)) <= budget
           fits(p, i) == FillFits(p, start, hits, whole, budget, cap, i)
<1>1. n \in Nat /\ DOMAIN hits = 1 .. n /\ \A i \in 1 .. n : hits[i] \in Card
  BY LenProperties
<1>2. PICK f \in [0 .. Len(hits) -> Seq(Lines)] : FillRuns(f, start, hits, whole, budget, cap)
  BY FillSteps
<1>3. /\ f[0] = start /\ P = f[n]
      /\ \A i \in 1 .. n : f[i] = Add(f[i - 1], Line(hits[i], whole), budget, cap)
  BY <1>2 DEF FillRuns
<1> HIDE DEF P
<1> DEFINE G == {i \in 0 .. n : fits(f[i], i)}
           H == {i \in 0 .. n : First /\ i >= 1 => 1 <= Len(f[i]) /\ f[i][1].card = hits[1]}
<1>4. 0 \in G
  <2>1. Len(start) \in Nat
    BY LenProperties
  <2>2. fits(start, 0)
    BY <2>1 DEF FillFits, CardsApart
  <2>3. QED
    BY <1>1, <1>3, <2>2
<1>5. ASSUME NEW i \in 1 .. n, i - 1 \in G PROVE i \in G
  <2>1. PICK p : p = f[i - 1]
    OBVIOUS
  <2>2. fits(p, i - 1) /\ f[i] = Add(p, Line(hits[i], whole), budget, cap) /\ i \in 0 .. n
    BY <1>1, <1>3, <1>5, <2>1
  <2>3. fits(f[i], i)
    BY <1>1, <2>2, AddFits DEF Apart
  <2>4. QED
    BY <2>2, <2>3
<1>6. n \in G
  <2> HIDE DEF G
  <2>1. 0 .. n \subseteq G
    BY <1>1, <1>4, <1>5, Upward
  <2>2. QED
    BY <1>1, <2>1
<1>7. 0 \in H
  BY <1>1
<1>8. ASSUME NEW i \in 1 .. n, i - 1 \in H PROVE i \in H
  <2> SUFFICES ASSUME First PROVE 1 <= Len(f[i]) /\ f[i][1].card = hits[1]
    BY <1>1
  <2> DEFINE line == Line(hits[i], whole)
  <2>1. f[i - 1] \in Seq(Lines) /\ f[i] = Add(f[i - 1], line, budget, cap)
    <3>1. i - 1 \in 0 .. n
      BY <1>1
    <3>2. QED
      BY <1>2, <1>3, <3>1
  <2>2. PICK p \in Seq(Lines) : p = f[i - 1]
    BY <2>1
  <2>3. /\ line \in Lines /\ Len(p) \in Nat /\ DOMAIN p = 1 .. Len(p) /\ line.card = hits[i]
        /\ Len(Append(p, line)) = Len(p) + 1 /\ Append(p, line)[Len(p) + 1] = line
        /\ \A k \in 1 .. Len(p) : Append(p, line)[k] = p[k]
    <3>1. line \in Lines /\ line.card = hits[i]
      BY <1>1 DEF Line, Lines
    <3> HIDE DEF line
    <3>2. QED
      BY <3>1, AppendProperties, LenProperties
  <2>4. CASE i = 1
    <3>1. p = <<>> /\ hits[i] = hits[1]
      BY <1>3, <2>2, <2>4
    <3>2. Len(p) = 0 /\ DOMAIN p = {} /\ PackSize(p) = HeaderSize
      BY <2>3, <3>1, EmptySeq, EmptyPack
    <3>3. f[i] = Append(p, line)
      <4>1. \A k \in DOMAIN p : p[k].card # line.card
        BY <3>2
      <4>2. Len(p) < cap /\ PackSize(p) + LineSize(line) <= budget
        BY <3>1, <3>2, <2>4
      <4>3. QED
        BY <2>1, <2>2, <4>1, <4>2 DEF Add
    <3> HIDE DEF line
    <3>4. QED
      BY <2>3, <3>1, <3>2, <3>3
  <2>5. CASE i # 1
    <3>1. i - 1 >= 1
      BY <1>1, <2>5
    <3>2. 1 <= Len(p) /\ p[1].card = hits[1]
      BY <1>8, <2>2, <3>1
    <3>3. f[i] = p \/ f[i] = Append(p, line)
      BY <2>1, <2>2 DEF Add
    <3> HIDE DEF line
    <3>4. Append(p, line)[1] = p[1] /\ 1 <= Len(p) + 1
      BY <2>3, <3>2
    <3>5. QED
      BY <2>3, <3>2, <3>3, <3>4
  <2>6. QED
    BY <2>4, <2>5
<1>9. n \in H
  <2> HIDE DEF H
  <2>1. 0 .. n \subseteq H
    BY <1>1, <1>7, <1>8, Upward
  <2>2. QED
    BY <1>1, <2>1
<1>10. hits # <<>> => n >= 1
  BY <1>1, EmptySeq
<1>11. fits(P, n)
  BY <1>3, <1>6
<1>12. First => 1 <= Len(P) /\ P[1].card = hits[1]
  BY <1>1, <1>3, <1>9, <1>10
<1>13. QED
  BY <1>11, <1>12 DEF P

\* A pack keeps to its size and wastes no room.
WastesNothing(hits, budget, cap, pack) ==
    LET left   == budget - PackSize(pack)
        whole  == {i \in DOMAIN pack : pack[i].whole}
        packed == {pack[i].card : i \in DOMAIN pack}
        kept   == {pack[i].card : i \in whole}
    IN  /\ left >= 0
        /\ Cardinality(packed) = Len(pack)
        /\ Len(pack) < cap => \A c \in Range(hits) \ packed : ReferenceSize > left
        /\ HeaderSize + Size[hits[1]] <= budget => hits[1] \in kept
        /\ Cardinality(kept) < cap =>
              \A c \in Range(hits) \ kept :
                 PackSize([i \in whole |-> pack[i]]) + Size[c] > budget
        /\ \A i, j \in whole :
              i < j => RankIn(hits, pack[i].card) < RankIn(hits, pack[j].card)

\* References after cards in full waste none either.
LEMMA PackIs ==
  ASSUME NEW hits \in Seq(Card), Apart(hits), NEW budget \in Nat, NEW cap \in Nat,
         PackContext(hits, budget, cap) # <<>>
  PROVE  WastesNothing(hits, budget, cap, PackContext(hits, budget, cap))
<1> DEFINE W == Fill(<<>>, hits, TRUE, budget, cap)
           P == Fill(W, hits, FALSE, budget, cap)
           n == Len(hits)
           w == Len(W)
           m == Len(P)
           whole == {i \in DOMAIN P : P[i].whole}
           packed == {P[i].card : i \in DOMAIN P}
           kept == {P[i].card : i \in whole}
<1>1. n \in Nat /\ DOMAIN hits = 1 .. n /\ Range(hits) = {hits[i] : i \in 1 .. n}
      /\ \A i \in 1 .. n : hits[i] \in Card
  BY LenProperties DEF Range
<1>2. /\ FillFits(W, <<>>, hits, TRUE, budget, cap, n)
      /\ /\ 0 < cap /\ hits # <<>> /\ HeaderSize + LineSize(Line(hits[1], TRUE)) <= budget
         => 1 <= w /\ W[1].card = hits[1]
  <2>1. <<>> \in Seq(Lines) /\ Len(<<>>) = 0 /\ CardsApart(<<>>)
    BY EmptySeq DEF CardsApart
  <2>2. QED
    BY <2>1, FillIs
<1> HIDE DEF W
<1>3. /\ W \in Seq(Lines) /\ w \in Nat /\ DOMAIN W = 1 .. w
      /\ \A k \in 1 .. w : W[k].whole /\ W[k].card \in Range(hits)
      /\ \A k, l \in 1 .. w : k < l => RankIn(hits, W[k].card) < RankIn(hits, W[l].card)
      /\ \A k, l \in 1 .. w : k < l => W[k].card # W[l].card
      /\ W = <<>> \/ (w <= cap /\ PackSize(W) <= budget)
      /\ \A j \in 1 .. n : \/ \E k \in 1 .. w : W[k].card = hits[j]
                           \/ w >= cap
                           \/ PackSize(W) + LineSize(Line(hits[j], TRUE)) > budget
  <2>1. W \in Seq(Lines) /\ Len(<<>>) = 0
    BY <1>2, EmptySeq DEF FillFits
  <2>2. w \in Nat /\ DOMAIN W = 1 .. w
    BY <2>1, LenProperties
  <2>3. \A k \in 1 .. w : k \in Len(<<>>) + 1 .. w
    BY <2>1
  <2>4. QED
    BY <1>2, <2>1, <2>2, <2>3 DEF FillFits
<1>4. FillFits(P, W, hits, FALSE, budget, cap, n)
  <2>1. CardsApart(W)
    BY <1>3 DEF CardsApart
  <2>2. QED
    BY <1>3, <2>1, FillIs
<1>5. P = PackContext(hits, budget, cap)
  BY DEF PackContext, W
<1> HIDE DEF P
<1>6. /\ P \in Seq(Lines) /\ m \in Nat /\ DOMAIN P = 1 .. m /\ w <= m
      /\ \A k \in 1 .. w : P[k] = W[k]
      /\ \A k \in w + 1 .. m : P[k].whole = FALSE
      /\ \A k, l \in 1 .. m : k < l => P[k].card # P[l].card
      /\ P = W \/ (m <= cap /\ PackSize(P) <= budget)
      /\ \A j \in 1 .. n : \/ \E k \in 1 .. m : P[k].card = hits[j]
                           \/ m >= cap
                           \/ PackSize(P) + LineSize(Line(hits[j], FALSE)) > budget
  <2>1. P \in Seq(Lines)
    BY <1>4 DEF FillFits
  <2>2. m \in Nat /\ DOMAIN P = 1 .. m
    BY <2>1, LenProperties
  <2>3. QED
    BY <1>4, <2>1, <2>2 DEF FillFits
<1>7. /\ PackSize(P) \in Nat /\ PackSize(W) \in Nat /\ m <= cap /\ PackSize(P) <= budget
  <2>1. \A l \in Seq(Lines) : PackSize(l) \in Nat
    <3> SUFFICES ASSUME NEW l \in Seq(Lines) PROVE PackSize(l) \in Nat
      OBVIOUS
    <3>1. PICK f \in [0 .. Len(l) -> Nat] : SizeRuns(f, l)
      BY SizeSteps
    <3>2. Len(l) \in 0 .. Len(l)
      BY LenProperties
    <3>3. QED
      BY <3>1, <3>2 DEF SizeRuns
  <2>2. P # <<>>
    BY <1>5
  <2>3. m <= cap /\ PackSize(P) <= budget
    BY <1>3, <1>6, <2>2
  <2>4. QED
    BY <1>3, <1>6, <2>1, <2>3
<1>8. whole = 1 .. w /\ w <= cap
  BY <1>3, <1>6, <1>7
<1>9. Cardinality(packed) = m
  <2> DEFINE g == [k \in 1 .. m |-> P[k].card]
  <2>1. packed = {P[k].card : k \in 1 .. m}
    BY <1>6
  <2>2. \A k, l \in 1 .. m : P[k].card = P[l].card => k = l
    BY <1>6
  <2>3. g \in Bijection(1 .. m, packed)
    BY <2>1, <2>2 DEF Bijection, Injection, Surjection, IsInjective
  <2>4. IsFiniteSet(1 .. m) /\ Cardinality(1 .. m) = m
    <3>1. m \in Nat
      BY <1>6
    <3> HIDE DEF m
    <3>2. QED
      BY <3>1, FS_Interval
  <2> HIDE DEF g, packed
  <2>5. QED
    BY <2>3, <2>4, FS_Bijection DEF ExistsBijection
<1>10. kept = {W[k].card : k \in 1 .. w} /\ Cardinality(kept) = w
  <2> DEFINE g == [k \in 1 .. w |-> W[k].card]
  <2>1. kept = {W[k].card : k \in 1 .. w}
    BY <1>6, <1>8
  <2>2. \A k, l \in 1 .. w : W[k].card = W[l].card => k = l
    BY <1>3
  <2>3. g \in Bijection(1 .. w, kept)
    BY <2>1, <2>2 DEF Bijection, Injection, Surjection, IsInjective
  <2>4. IsFiniteSet(1 .. w) /\ Cardinality(1 .. w) = w
    <3>1. w \in Nat
      BY <1>3
    <3> HIDE DEF w
    <3>2. QED
      BY <3>1, FS_Interval
  <2> HIDE DEF g, kept
  <2>5. Cardinality(kept) = w
    BY <2>3, <2>4, FS_Bijection DEF ExistsBijection
  <2>6. QED
    BY <2>1, <2>5 DEF kept
<1>11. [i \in whole |-> P[i]] = W
  <2>1. [i \in whole |-> P[i]] = [i \in 1 .. w |-> W[i]]
    BY <1>6, <1>8
  <2>2. W = [i \in 1 .. w |-> W[i]]
    BY <1>3, LenProperties
  <2>3. QED
    BY <2>1, <2>2
<1>12. /\ \A c : LineSize(Line(c, TRUE)) = Size[c]
       /\ \A c : LineSize(Line(c, FALSE)) = ReferenceSize
       /\ ReferenceSize \in Nat /\ HeaderSize \in Nat /\ \A c \in Card : Size[c] \in Nat
  BY RecallAssumption DEF LineSize, Line
<1>13. ASSUME m < cap, NEW c \in Range(hits) \ packed PROVE ReferenceSize > budget - PackSize(P)
  <2>1. PICK j \in 1 .. n : hits[j] = c
    BY <1>1
  <2>2. ~\E k \in 1 .. m : P[k].card = hits[j]
    BY <1>6, <1>13, <2>1
  <2>3. m >= cap \/ PackSize(P) + LineSize(Line(hits[j], FALSE)) > budget
    BY <1>6, <2>2
  <2>4. m \in Nat /\ PackSize(P) \in Nat /\ LineSize(Line(hits[j], FALSE)) = ReferenceSize
    BY <1>6, <1>7, <1>12
  <2>5. m < cap /\ ReferenceSize \in Nat
    BY <1>12, <1>13
  <2> HIDE DEF m, packed
  <2>6. ~(m >= cap)
    BY <2>4, <2>5
  <2>7. PackSize(P) + ReferenceSize > budget
    BY <2>3, <2>4, <2>6
  <2>8. QED
    BY <2>4, <2>5, <2>7
<1>14. ASSUME HeaderSize + Size[hits[1]] <= budget PROVE hits[1] \in kept
  <2>1. m # 0 /\ 0 < cap
    BY <1>5, <1>6, <1>7, EmptySeq
  <2>2. hits # <<>>
    <3>1. SUFFICES ASSUME hits = <<>> PROVE FALSE
      OBVIOUS
    <3>2. n = 0 /\ Range(hits) = {}
      BY <1>1, <3>1, EmptySeq
    <3>3. \A k \in w + 1 .. m : P[k].card \in Range(hits)
      BY <1>4 DEF FillFits
    <3>4. 1 \in 1 .. w \/ 1 \in w + 1 .. m
      BY <1>3, <1>6, <2>1
    <3>5. QED
      BY <1>3, <3>2, <3>3, <3>4
  <2>3. 1 <= w /\ W[1].card = hits[1]
    BY <1>2, <1>12, <1>14, <2>1, <2>2
  <2>4. 1 \in 1 .. w
    BY <1>3, <2>3
  <2> HIDE DEF kept
  <2>5. QED
    BY <1>10, <2>3, <2>4
<1>15. ASSUME w < cap, NEW c \in Range(hits) \ kept PROVE PackSize(W) + Size[c] > budget
  <2>1. PICK j \in 1 .. n : hits[j] = c
    BY <1>1
  <2>2. ~\E k \in 1 .. w : W[k].card = hits[j]
    <3> HIDE DEF kept
    <3>1. QED
      BY <1>10, <1>15, <2>1
  <2>3. w >= cap \/ PackSize(W) + LineSize(Line(hits[j], TRUE)) > budget
    BY <1>3, <2>2
  <2>4. w \in Nat /\ LineSize(Line(hits[j], TRUE)) = Size[c]
    BY <1>3, <1>12, <2>1
  <2>5. w < cap
    BY <1>15
  <2> HIDE DEF w, kept
  <2>6. ~(w >= cap)
    BY <2>4, <2>5
  <2>7. QED
    BY <2>3, <2>4, <2>6
<1>16. ASSUME NEW i \in whole, NEW j \in whole, i < j
       PROVE  RankIn(hits, P[i].card) < RankIn(hits, P[j].card)
  <2>1. i \in 1 .. w /\ j \in 1 .. w
    BY <1>8
  <2>2. P[i] = W[i] /\ P[j] = W[j]
    BY <1>6, <2>1
  <2>3. QED
    BY <1>3, <1>16, <2>1, <2>2
<1> HIDE DEF packed, kept, whole
<1>17. /\ budget - PackSize(P) >= 0
       /\ Cardinality(packed) = m
       /\ m < cap => \A c \in Range(hits) \ packed : ReferenceSize > budget - PackSize(P)
       /\ HeaderSize + Size[hits[1]] <= budget => hits[1] \in kept
       /\ Cardinality(kept) < cap =>
             \A c \in Range(hits) \ kept : PackSize([i \in whole |-> P[i]]) + Size[c] > budget
       /\ \A i, j \in whole : i < j => RankIn(hits, P[i].card) < RankIn(hits, P[j].card)
  <2>1. budget - PackSize(P) >= 0
    BY <1>7
  <2>2. QED
    BY <1>9, <1>10, <1>11, <1>13, <1>14, <1>15, <1>16, <2>1
<1>18. QED
  BY <1>5, <1>17 DEF WastesNothing, packed, kept, whole

-----------------------------------------------------------------------------

\* A recall's hits are what is kept of the fusion of its passes, and its pack is
\* theirs.
RecallFields == {"phase", "floor", "passes", "best", "hits", "reason", "budget", "cap", "pack"}

RecallFits ==
  /\ DOMAIN recall = RecallFields /\ recall.passes \in PassLists
  /\ recall.phase \in {"idle", "passes", "fuse", "pack", "done", "packed"}
  /\ recall.phase \in {"idle", "passes", "fuse"} => recall.hits = <<>>
  /\ recall.phase \in {"pack", "done", "packed"} => recall.hits = Kept(recall.passes)

PackFits ==
  recall.phase = "packed" =>
    /\ recall.budget \in Nat /\ recall.cap \in Nat /\ recall.pack # <<>>
    /\ recall.pack = PackContext(recall.hits, recall.budget, recall.cap)

RecallInv == RecallFits /\ PackFits

\* Nothing is recalled at first, and each step of a recall keeps to that.
LEMMA RecallInitially == RecallInit => RecallInv
<1> SUFFICES ASSUME RecallInit PROVE RecallInv
  OBVIOUS
<1>1. recall = NoRecall /\ <<>> \in PassLists
  BY EmptySeq DEF RecallInit, PassLists
<1>2. QED
  BY <1>1 DEF NoRecall, RecallInv, RecallFits, PackFits, RecallFields

LEMMA PassFits ==
  ASSUME RecallInv, NEW limit \in Nat, NEW answer \in Answers(limit), Pass(answer)
  PROVE  RecallInv'
<1> DEFINE ranking == [i \in DOMAIN answer |-> answer[i][1]]
           phase == IF Len(recall.passes) + 1 = MaxPasses THEN "fuse" ELSE "passes"
<1>1. ranking \in Seq(Card)
  <2>1. PICK k \in 0 .. limit : answer \in [1 .. k -> Card \X Scores]
    BY DEF Answers
  <2>2. k \in Nat /\ ranking \in [1 .. k -> Card]
    BY <2>1
  <2> HIDE DEF ranking
  <2>3. QED
    BY <2>2, InSeq
<1>2. recall.phase = "passes" /\ DOMAIN recall = RecallFields /\ recall.passes \in PassLists /\ recall.hits = <<>>
  BY DEF Pass, RecallInv, RecallFits
<1>3. recall' = [recall EXCEPT !.passes = Append(@, ranking), !.best = Better(@, answer), !.phase = phase]
  BY DEF Pass
<1>4. Append(recall.passes, ranking) \in PassLists
  <2> HIDE DEF ranking
  <2>1. QED
    BY <1>1, <1>2, AppendProperties DEF PassLists
<1>5. phase \in {"fuse", "passes"}
  OBVIOUS
<1> HIDE DEF phase, ranking
<1>6. /\ DOMAIN recall' = RecallFields /\ recall'.passes = Append(recall.passes, ranking)
      /\ recall'.phase = phase /\ recall'.hits = <<>>
  BY <1>2, <1>3 DEF RecallFields
<1>7. QED
  BY <1>4, <1>5, <1>6 DEF RecallInv, RecallFits, PackFits

LEMMA FusionFits ==
  ASSUME RecallInv, Fuse
  PROVE  RecallInv'
<1>1. PICK reason, phase :
        /\ recall' = [recall EXCEPT !.hits = Kept(recall.passes), !.reason = reason, !.phase = phase]
        /\ phase \in {"pack", "done"}
  <2> DEFINE hits == Kept(recall.passes)
             found  == {p \in DOMAIN recall.passes : recall.passes[p] # <<>>}
             reason == Abstention(hits, Cardinality(found) > 1)
             phase == IF reason = "none" THEN "pack" ELSE "done"
  <2>1. recall' = [recall EXCEPT !.hits = hits, !.reason = reason, !.phase = phase]
    BY DEF Fuse, Kept
  <2>2. phase \in {"pack", "done"}
    OBVIOUS
  <2>3. QED
    BY <2>1, <2>2
<1>2. DOMAIN recall = RecallFields /\ recall.passes \in PassLists
  BY DEF RecallInv, RecallFits
<1>3. /\ DOMAIN recall' = RecallFields /\ recall'.passes = recall.passes
      /\ recall'.phase = phase /\ recall'.hits = Kept(recall.passes)
  BY <1>1, <1>2 DEF RecallFields
<1>4. QED
  BY <1>1, <1>2, <1>3 DEF RecallInv, RecallFits, PackFits

LEMMA PackingFits ==
  ASSUME RecallInv, NEW budget \in Budgets, NEW cap \in CardCaps, Pack(budget, cap)
  PROVE  RecallInv'
<1>1. /\ recall.phase = "pack" /\ DOMAIN recall = RecallFields /\ recall.passes \in PassLists
      /\ recall.hits = Kept(recall.passes)
  BY DEF RecallInv, RecallFits, Pack
<1>2. PICK pack, reason, phase :
        /\ pack = PackContext(recall.hits, budget, cap)
        /\ phase = (IF pack = <<>> THEN "done" ELSE "packed")
        /\ recall' = [recall EXCEPT !.phase = phase, !.reason = reason, !.budget = budget,
                                    !.cap = cap, !.pack = pack]
  BY DEF Pack
<1>3. /\ DOMAIN recall' = RecallFields /\ recall'.passes = recall.passes /\ recall'.hits = recall.hits
      /\ recall'.phase = phase /\ recall'.budget = budget /\ recall'.cap = cap /\ recall'.pack = pack
  BY <1>1, <1>2 DEF RecallFields
<1>4. budget \in Nat /\ cap \in Nat
  BY RecallAssumption
<1>5. QED
  BY <1>1, <1>2, <1>3, <1>4 DEF RecallInv, RecallFits, PackFits

\* Every step of a recall does, and steps of other calls leave it alone.
LEMMA RecallSteps == RecallInv /\ RecallNext => RecallInv'
<1> SUFFICES ASSUME RecallInv, RecallNext PROVE RecallInv'
  OBVIOUS
<1>1. ASSUME NEW floor, HardRecall(floor) PROVE RecallInv'
  <2>1. recall' = [NoRecall EXCEPT !.phase = "passes", !.floor = floor] /\ <<>> \in PassLists
    BY <1>1, EmptySeq DEF HardRecall, PassLists
  <2>2. /\ DOMAIN recall' = RecallFields /\ recall'.passes = <<>> /\ recall'.phase = "passes"
        /\ recall'.hits = <<>>
    BY <2>1 DEF NoRecall, RecallFields
  <2>3. QED
    BY <2>1, <2>2 DEF RecallInv, RecallFits, PackFits
<1>2. ASSUME NEW answer \in Answers(IF recall.passes = <<>> THEN RecallLimit ELSE RecallLimit + MorePerPass),
             Pass(answer)
      PROVE  RecallInv'
  <2>1. PICK limit \in Nat : answer \in Answers(limit)
    BY RecallAssumption
  <2>2. QED
    BY <1>2, <2>1, PassFits
<1>3. QED
  BY <1>1, <1>2, FusionFits, PackingFits DEF RecallNext

LEMMA RecallStill == RecallInv /\ UNCHANGED recall => RecallInv'
BY DEF RecallInv, RecallFits, PackFits

\* So the hits respect what the passes agree on, and a pack wastes nothing.
LEMMA RecallInvRespectsDominance == RecallInv => FusionRespectsDominance
<1> SUFFICES ASSUME RecallInv, NEW d \in Range(recall.hits), NEW c \in Card, c # d,
                    \A p \in Naming(d, recall.passes) :
                      /\ c \in Range(recall.passes[p])
                      /\ RankIn(recall.passes[p], c) < RankIn(recall.passes[p], d)
             PROVE  c \in Range(recall.hits) /\ RankIn(recall.hits, c) < RankIn(recall.hits, d)
  BY DEF FusionRespectsDominance
<1>1. PICK lists \in PassLists : lists = recall.passes
  BY DEF RecallInv, RecallFits
<1>2. recall.hits # <<>>
  BY EmptySeq DEF Range
<1>3. recall.hits = Kept(lists)
  BY <1>1, <1>2 DEF RecallInv, RecallFits
<1>4. Dominates(c, d, lists)
  BY <1>1 DEF Dominates
<1>5. QED
  BY <1>3, <1>4, DominanceIsRespected

LEMMA RecallInvWastesNothing == RecallInv => PackWastesNothing
<1> SUFFICES ASSUME RecallInv, recall.phase = "packed" PROVE PackWastesNothing
  BY DEF PackWastesNothing
<1>1. PICK lists \in PassLists : lists = recall.passes
  BY DEF RecallInv, RecallFits
<1>2. PICK hits, budget, cap :
        hits = recall.hits /\ budget = recall.budget /\ cap = recall.cap
  OBVIOUS
<1>3. /\ budget \in Nat /\ cap \in Nat /\ hits = Kept(lists)
      /\ recall.pack = PackContext(hits, budget, cap) /\ recall.pack # <<>>
  BY <1>1, <1>2 DEF RecallInv, RecallFits, PackFits
<1>4. hits \in Seq(Card) /\ Apart(hits)
  BY <1>3, KeptIs DEF Apart
<1>5. WastesNothing(hits, budget, cap, PackContext(hits, budget, cap))
  BY <1>3, <1>4, PackIs
<1>6. WastesNothing(recall.hits, recall.budget, recall.cap, recall.pack)
  BY <1>2, <1>3, <1>5
<1>7. QED
  BY <1>6 DEF PackWastesNothing, WastesNothing

-----------------------------------------------------------------------------
(* Contexts *)

\* The blocks of a proposal, and what is counted of those it leaves out.
Blocks == [memory : Evidence, whole : BOOLEAN]
Drops == [late : Nat, budget : Nat, cap : Nat]

\* A selection that is being made for a request.
Selections(asked) ==
    [phase : {"emit"}, task : {asked.task}, ceiling : {asked.ceiling}, cap : {asked.cap},
     partial : {asked.partial}, hits : {asked.hits}, barred : {asked.barred},
     blocks : Seq(Blocks), used : Nat, dropped : Drops,
     reasons : {asked.reasons}, status : {asked.status}]

\* What one eligible hit makes of a selection.
LEMMA TakeIs ==
  ASSUME NEW asked, asked.cap \in Nat, NEW s \in Selections(asked), NEW e \in Evidence, NEW late
  PROVE  LET t == Take(s, e, late)
         IN  /\ t \in Selections(asked)
             /\ \/ /\ t.dropped = s.dropped /\ Len(s.blocks) < s.cap
                   /\ \E whole \in BOOLEAN : t.blocks = Append(s.blocks, Block(e, whole))
                \/ /\ t.blocks = s.blocks
                   /\ \/ t.dropped = [s.dropped EXCEPT !.late = @ + 1]
                      \/ t.dropped = [s.dropped EXCEPT !.budget = @ + 1]
                      \/ t.dropped = [s.dropped EXCEPT !.cap = @ + 1]
<1> DEFINE t == Take(s, e, late)
<1>1. /\ s.blocks \in Seq(Blocks) /\ s.used \in Nat /\ s.dropped \in Drops
      /\ DOMAIN s = {"phase", "task", "ceiling", "cap", "partial", "hits", "barred", "blocks",
                     "used", "dropped", "reasons", "status"}
  BY DEF Selections
<1>2. \A whole \in BOOLEAN : Block(e, whole) \in Blocks /\ Text(Block(e, whole)) \in Nat
  BY ContextAssumption DEF Block, Blocks, Text
<1>3. LineAllowance \in Nat
  BY DEF LineAllowance
<1>4. ASSUME NEW whole \in BOOLEAN, Len(s.blocks) < s.cap,
             t = [s EXCEPT !.blocks = Append(@, Block(e, whole)),
                           !.used = @ + LineAllowance + Text(Block(e, whole))]
      PROVE  /\ t \in Selections(asked) /\ t.dropped = s.dropped
             /\ t.blocks = Append(s.blocks, Block(e, whole))
  <2>1. Append(s.blocks, Block(e, whole)) \in Seq(Blocks)
    BY <1>1, <1>2, AppendProperties
  <2>2. s.used + LineAllowance + Text(Block(e, whole)) \in Nat
    BY <1>1, <1>2, <1>3
  <2> HIDE DEF t
  <2>3. QED
    BY <1>1, <1>4, <2>1, <2>2 DEF Selections
<1>5. ASSUME NEW d \in Drops, t = [s EXCEPT !.dropped = d]
      PROVE  t \in Selections(asked) /\ t.dropped = d /\ t.blocks = s.blocks
  <2> HIDE DEF t
  <2>1. QED
    BY <1>1, <1>5 DEF Selections
<1>6. /\ [s.dropped EXCEPT !.late = @ + 1] \in Drops
      /\ [s.dropped EXCEPT !.budget = @ + 1] \in Drops
      /\ [s.dropped EXCEPT !.cap = @ + 1] \in Drops
  BY <1>1 DEF Drops
<1>7. \/ Len(s.blocks) < s.cap /\ \E whole \in BOOLEAN :
           t = [s EXCEPT !.blocks = Append(@, Block(e, whole)),
                         !.used = @ + LineAllowance + Text(Block(e, whole))]
      \/ t = [s EXCEPT !.dropped = [s.dropped EXCEPT !.late = @ + 1]]
      \/ t = [s EXCEPT !.dropped = [s.dropped EXCEPT !.budget = @ + 1]]
      \/ t = [s EXCEPT !.dropped = [s.dropped EXCEPT !.cap = @ + 1]]
  <2> DEFINE fits(whole) == s.used + LineAllowance + Text(Block(e, whole)) <= s.ceiling * CharsPerToken
             with(whole) == [s EXCEPT !.blocks = Append(@, Block(e, whole)),
                                      !.used = @ + LineAllowance + Text(Block(e, whole))]
  <2>1. t = IF Len(s.blocks) >= s.cap THEN [s EXCEPT !.dropped.cap = @ + 1]
            ELSE IF late THEN [s EXCEPT !.dropped.late = @ + 1]
            ELSE IF fits(TRUE) THEN with(TRUE)
            ELSE IF fits(FALSE) THEN with(FALSE)
            ELSE [s EXCEPT !.dropped.budget = @ + 1]
    BY DEF Take
  <2>2. CASE Len(s.blocks) >= s.cap
    BY <2>1, <2>2
  <2>3. CASE ~(Len(s.blocks) >= s.cap) /\ late
    BY <2>1, <2>3
  <2>4. CASE ~(Len(s.blocks) >= s.cap) /\ ~late
    <3>1. Len(s.blocks) \in Nat /\ s.cap \in Nat
      BY <1>1, LenProperties DEF Selections
    <3>2. Len(s.blocks) < s.cap
      BY <2>4, <3>1
    <3> HIDE DEF t, fits, with
    <3>3. \/ t = with(TRUE) \/ t = with(FALSE)
          \/ t = [s EXCEPT !.dropped.budget = @ + 1]
      BY <2>1, <2>4
    <3>4. \/ \E whole \in BOOLEAN : t = with(whole)
          \/ t = [s EXCEPT !.dropped = [s.dropped EXCEPT !.budget = @ + 1]]
      BY <3>3
    <3>5. QED
      BY <3>2, <3>4 DEF with
  <2>5. QED
    BY <2>2, <2>3, <2>4
<1> HIDE DEF t
<1>8. QED
  BY <1>4, <1>5, <1>6, <1>7 DEF t

\* f is a selection, hit by hit.
TakeRuns(f, asked, eligible, order, late) ==
    /\ f[0] = asked
    /\ FoldLeft(LAMBDA s, i : Take(s, eligible[i], i >= late), asked, order) = f[Len(order)]
    /\ \A i \in 1 .. Len(order) : f[i] = Take(f[i - 1], eligible[order[i]], order[i] >= late)

\* A selection is what each eligible hit makes of it in turn.
LEMMA TakeSteps ==
  ASSUME NEW request, request.cap \in Nat, NEW asked \in Selections(request), NEW eligible, NEW late,
         NEW order \in Seq(DOMAIN eligible), \A i \in DOMAIN eligible : eligible[i] \in Evidence
  PROVE  \E f \in [0 .. Len(order) -> Selections(request)] : TakeRuns(f, asked, eligible, order, late)
<1> DEFINE n == Len(order)
           Turn(x, i) == Take(x, eligible[order[i]], order[i] >= late)
           step == [t \in (1 .. n) \X Selections(request) |-> Turn(t[2], t[1])]
           Body(h, s) == IF s = {} THEN asked ELSE Turn(h[s \ {Max(s)}], Max(s))
<1>1. n \in Nat /\ DOMAIN order = 1 .. n
  BY LenProperties
<1>2. /\ asked \in Selections(request)
      /\ \A x \in Selections(request), i \in 1 .. n : Turn(x, i) \in Selections(request)
  <2> SUFFICES ASSUME NEW x \in Selections(request), NEW i \in 1 .. n
               PROVE  Take(x, eligible[order[i]], order[i] >= late) \in Selections(request)
    OBVIOUS
  <2>1. eligible[order[i]] \in Evidence
    BY <1>1, LenProperties
  <2>2. QED
    BY <2>1, TakeIs
<1> HIDE DEF Turn
<1>3. step \in [(1 .. n) \X Selections(request) -> Selections(request)]
  <2> SUFFICES ASSUME NEW t \in (1 .. n) \X Selections(request) PROVE Turn(t[2], t[1]) \in Selections(request)
    OBVIOUS
  <2>1. t[1] \in 1 .. n /\ t[2] \in Selections(request)
    OBVIOUS
  <2>2. QED
    BY <1>2, <2>1
<1>4. PICK g \in [SUBSET (1 .. n) -> Selections(request)] : FoldsBy(g, asked, step, n)
  <2>1. n \in Nat /\ asked \in Selections(request)
    BY <1>1, <1>2
  <2> HIDE DEF step, n
  <2>2. QED
    BY <1>3, <2>1, FoldExists
<1>5. \A s \in SUBSET (1 .. n) : g[s] = Body(g, s)
  <2> SUFFICES ASSUME NEW s \in SUBSET (1 .. n), s # {} PROVE g[s] = Turn(g[s \ {Max(s)}], Max(s))
    BY <1>4 DEF FoldsBy
  <2>1. Max(s) \in 1 .. n /\ s \ {Max(s)} \in SUBSET (1 .. n)
    BY <1>1, MaxIs
  <2>2. g[s \ {Max(s)}] \in Selections(request)
    BY <1>4, <2>1
  <2>3. step[<<Max(s), g[s \ {Max(s)}]>>] = Turn(g[s \ {Max(s)}], Max(s))
    BY <2>1, <2>2
  <2> HIDE DEF step
  <2>4. QED
    BY <1>4, <2>3 DEF FoldsBy
<1>6. g = [s \in SUBSET (1 .. n) |-> Body(g, s)]
  <2> HIDE DEF Body
  <2>1. QED
    BY <1>4, <1>5
<1>7. FoldLeft(LAMBDA s, i : Take(s, eligible[i], i >= late), asked, order) = (CHOOSE h : h = [s \in SUBSET DOMAIN order |-> Body(h, s)])[DOMAIN order]
  BY DEF Turn, FoldLeft, MapThenFoldSet
<1>8. PICK h : h = [s \in SUBSET (1 .. n) |-> Body(h, s)] /\ FoldLeft(LAMBDA s, i : Take(s, eligible[i], i >= late), asked, order) = h[1 .. n]
  <2> HIDE DEF Body
  <2>1. QED
    BY <1>1, <1>6, <1>7
<1>9. StepsBy(h, Selections(request), asked, step, n)
  <2> SUFFICES ASSUME NEW s \in SUBSET (1 .. n)
      PROVE  /\ s = {} => h[s] = asked
             /\ s # {} /\ h[s \ {Max(s)}] \in Selections(request) => h[s] = step[<<Max(s), h[s \ {Max(s)}]>>]
    <3> HIDE DEF step, n
    <3>1. QED
      BY DEF StepsBy
  <2>1. h[s] = Body(h, s)
    <3> HIDE DEF Body
    <3>1. QED
      BY <1>8
  <2>2. s # {} => Max(s) \in 1 .. n
    BY <1>1, MaxIs
  <2>3. s # {} /\ h[s \ {Max(s)}] \in Selections(request) =>
          step[<<Max(s), h[s \ {Max(s)}]>>] = Turn(h[s \ {Max(s)}], Max(s))
    BY <2>2
  <2> HIDE DEF step
  <2>4. QED
    BY <2>1, <2>3
<1>10. PICK f \in [0 .. n -> Selections(request)] :
          f[n] = h[1 .. n] /\ RunsBy(f, asked, step, n)
  <2>1. n \in Nat /\ asked \in Selections(request)
    BY <1>1, <1>2
  <2> HIDE DEF step, n
  <2>2. QED
    BY <1>3, <1>9, <2>1, FoldSteps
<1>11. ASSUME NEW i \in 1 .. n PROVE f[i] = Turn(f[i - 1], i)
  <2>1. i - 1 \in 0 .. n
    BY <1>1
  <2>2. f[i - 1] \in Selections(request)
    BY <1>10, <2>1
  <2>3. step[<<i, f[i - 1]>>] = Turn(f[i - 1], i)
    BY <2>2
  <2> HIDE DEF step
  <2>4. QED
    BY <1>10, <2>3 DEF RunsBy
<1>12. QED
  BY <1>8, <1>10, <1>11 DEF Turn, RunsBy, TakeRuns

\* The first i eligible hits are each selected once or dropped.
TakenSoFar(p, asked, eligible, i) ==
    /\ p \in Selections(asked)
    /\ Len(p.blocks) <= p.cap
    /\ Len(p.blocks) + p.dropped.late + p.dropped.budget + p.dropped.cap = i
    /\ \A k \in DOMAIN p.blocks : \E j \in 1 .. i : p.blocks[k].memory = eligible[j]
    /\ \A k, m \in DOMAIN p.blocks : p.blocks[k].memory = p.blocks[m].memory => k = m

\* The next one is, too.
LEMMA TakeGoesOn ==
  ASSUME NEW asked, asked.cap \in Nat, NEW eligible \in Seq(Evidence), IsInjective(eligible),
         NEW i \in DOMAIN eligible, NEW p, TakenSoFar(p, asked, eligible, i - 1), NEW late
  PROVE  TakenSoFar(Take(p, eligible[i], late), asked, eligible, i)
<1> DEFINE e == eligible[i]
           t == Take(p, e, late)
<1>1. e \in Evidence /\ DOMAIN eligible = 1 .. Len(eligible) /\ Len(eligible) \in Nat /\ i \in Nat
  BY LenProperties
<1>2. p \in Selections(asked) /\ p.blocks \in Seq(Blocks) /\ p.dropped \in Drops /\ p.cap = asked.cap
  BY DEF TakenSoFar, Selections
<1>3. /\ t \in Selections(asked)
      /\ \/ /\ t.dropped = p.dropped /\ Len(p.blocks) < p.cap
            /\ \E whole \in BOOLEAN : t.blocks = Append(p.blocks, Block(e, whole))
         \/ /\ t.blocks = p.blocks
            /\ \/ t.dropped = [p.dropped EXCEPT !.late = @ + 1]
               \/ t.dropped = [p.dropped EXCEPT !.budget = @ + 1]
               \/ t.dropped = [p.dropped EXCEPT !.cap = @ + 1]
  BY <1>1, <1>2, TakeIs
<1> HIDE DEF t, e
<1>4. /\ t.cap = asked.cap /\ Len(p.blocks) \in Nat /\ DOMAIN p.blocks = 1 .. Len(p.blocks)
      /\ p.dropped.late \in Nat /\ p.dropped.budget \in Nat /\ p.dropped.cap \in Nat
  BY <1>2, <1>3, LenProperties DEF Selections, Drops
<1>5. \A k \in DOMAIN p.blocks : \E j \in 1 .. i - 1 : p.blocks[k].memory = eligible[j]
  BY DEF TakenSoFar
<1>6. \A k \in DOMAIN p.blocks : \E j \in 1 .. i : p.blocks[k].memory = eligible[j]
  BY <1>1, <1>5
<1>7. /\ Len(p.blocks) + p.dropped.late + p.dropped.budget + p.dropped.cap = i - 1
      /\ Len(p.blocks) <= p.cap
      /\ \A k, m \in DOMAIN p.blocks : p.blocks[k].memory = p.blocks[m].memory => k = m
  BY DEF TakenSoFar
<1>8. ASSUME NEW whole \in BOOLEAN, t.dropped = p.dropped, Len(p.blocks) < p.cap,
             t.blocks = Append(p.blocks, Block(e, whole))
      PROVE  TakenSoFar(t, asked, eligible, i)
  <2>1. Block(e, whole) \in Blocks /\ Block(e, whole).memory = e
    BY <1>1 DEF Block, Blocks
  <2>2. /\ Len(t.blocks) = Len(p.blocks) + 1 /\ DOMAIN t.blocks = 1 .. Len(p.blocks) + 1
        /\ t.blocks[Len(p.blocks) + 1].memory = e
        /\ \A k \in DOMAIN p.blocks : t.blocks[k] = p.blocks[k]
    BY <1>2, <1>4, <1>8, <2>1, AppendProperties, LenProperties
  <2>3. \A k \in DOMAIN t.blocks : k \in DOMAIN p.blocks \/ k = Len(p.blocks) + 1
    BY <1>4, <2>2
  <2>4. \A k \in DOMAIN p.blocks : p.blocks[k].memory # e
    <3> SUFFICES ASSUME NEW k \in DOMAIN p.blocks, p.blocks[k].memory = e PROVE FALSE
      OBVIOUS
    <3>1. PICK j \in 1 .. i - 1 : eligible[j] = eligible[i]
      BY <1>5 DEF e
    <3>2. j \in DOMAIN eligible /\ j # i
      BY <1>1
    <3>3. QED
      BY <3>1, <3>2 DEF IsInjective
  <2>5. \A k \in DOMAIN t.blocks : \E j \in 1 .. i : t.blocks[k].memory = eligible[j]
    <3>1. i \in 1 .. i
      BY <1>1
    <3>2. QED
      BY <1>6, <2>2, <2>3, <3>1 DEF e
  <2>6. \A k, m \in DOMAIN t.blocks : t.blocks[k].memory = t.blocks[m].memory => k = m
    BY <1>7, <2>2, <2>3, <2>4
  <2>7. Len(t.blocks) + t.dropped.late + t.dropped.budget + t.dropped.cap = i
    <3> DEFINE A == Len(t.blocks)
               B == t.dropped.late
               C == t.dropped.budget
               D == t.dropped.cap
               a == Len(p.blocks)
               b == p.dropped.late
               c == p.dropped.budget
               d == p.dropped.cap
    <3>1. A = a + 1 /\ B = b /\ C = c /\ D = d
      BY <1>8, <2>2
    <3>2. a \in Nat /\ b \in Nat /\ c \in Nat /\ d \in Nat /\ a + b + c + d = i - 1 /\ i \in Nat
      BY <1>1, <1>4, <1>7
    <3>3. A + B + C + D = i
      <4> HIDE DEF A, B, C, D, a, b, c, d
      <4>1. QED
        BY <3>1, <3>2
    <3>4. QED
      BY <3>3
  <2>8. Len(t.blocks) <= t.cap
    BY <1>2, <1>4, <1>8, <2>2
  <2>9. QED
    BY <1>3, <2>5, <2>6, <2>7, <2>8 DEF TakenSoFar
<1>9. ASSUME t.blocks = p.blocks,
             \/ t.dropped = [p.dropped EXCEPT !.late = @ + 1]
             \/ t.dropped = [p.dropped EXCEPT !.budget = @ + 1]
             \/ t.dropped = [p.dropped EXCEPT !.cap = @ + 1]
      PROVE  TakenSoFar(t, asked, eligible, i)
  <2>1. DOMAIN p.dropped = {"late", "budget", "cap"}
    BY <1>2 DEF Drops
  <2>2. \/ /\ t.dropped.late = p.dropped.late + 1
           /\ t.dropped.budget = p.dropped.budget /\ t.dropped.cap = p.dropped.cap
        \/ /\ t.dropped.budget = p.dropped.budget + 1
           /\ t.dropped.late = p.dropped.late /\ t.dropped.cap = p.dropped.cap
        \/ /\ t.dropped.cap = p.dropped.cap + 1
           /\ t.dropped.late = p.dropped.late /\ t.dropped.budget = p.dropped.budget
    <3> DEFINE q == t.dropped
               r == p.dropped
    <3>1. r \in Drops
      BY <1>2
    <3>2. \/ q = [r EXCEPT !.late = @ + 1] \/ q = [r EXCEPT !.budget = @ + 1]
          \/ q = [r EXCEPT !.cap = @ + 1]
      BY <1>9
    <3> HIDE DEF q, r
    <3>3. \/ q.late = r.late + 1 /\ q.budget = r.budget /\ q.cap = r.cap
          \/ q.budget = r.budget + 1 /\ q.late = r.late /\ q.cap = r.cap
          \/ q.cap = r.cap + 1 /\ q.late = r.late /\ q.budget = r.budget
      BY <3>1, <3>2 DEF Drops
    <3>4. QED
      BY <3>3 DEF q, r
  <2>3. Len(t.blocks) = Len(p.blocks)
    BY <1>9
  <2>4. Len(t.blocks) + t.dropped.late + t.dropped.budget + t.dropped.cap = i
    <3> DEFINE A == Len(t.blocks)
               B == t.dropped.late
               C == t.dropped.budget
               D == t.dropped.cap
               a == Len(p.blocks)
               b == p.dropped.late
               c == p.dropped.budget
               d == p.dropped.cap
    <3>1. A = a
      BY <2>3
    <3>0. \/ B = b + 1 /\ C = c /\ D = d
          \/ C = c + 1 /\ B = b /\ D = d
          \/ D = d + 1 /\ B = b /\ C = c
      BY <2>2
    <3>2. a \in Nat /\ b \in Nat /\ c \in Nat /\ d \in Nat /\ a + b + c + d = i - 1 /\ i \in Nat
      BY <1>1, <1>4, <1>7
    <3>3. A + B + C + D = i
      <4> HIDE DEF A, B, C, D, a, b, c, d
      <4>1. QED
        BY <3>0, <3>1, <3>2
    <3>4. QED
      BY <3>3
  <2>5. Len(t.blocks) <= t.cap /\ DOMAIN t.blocks = DOMAIN p.blocks
    BY <1>2, <1>4, <1>7, <1>9
  <2>6. /\ \A k \in DOMAIN t.blocks : \E j \in 1 .. i : t.blocks[k].memory = eligible[j]
        /\ \A k, m \in DOMAIN t.blocks : t.blocks[k].memory = t.blocks[m].memory => k = m
    BY <1>6, <1>7, <1>9
  <2>7. QED
    BY <1>3, <2>4, <2>5, <2>6 DEF TakenSoFar
<1>10. QED
  BY <1>3, <1>8, <1>9 DEF t, e

\* The whole selection, as PrepareContext makes it.
Picked(asked, eligible, late) ==
    FoldLeft(LAMBDA s, i : Take(s, eligible[i], i >= late), asked, [i \in DOMAIN eligible |-> i])

\* Every eligible hit is selected once or dropped.
LEMMA AllAreTaken ==
  ASSUME NEW asked, asked.cap \in Nat, asked \in Selections(asked), asked.blocks = <<>>,
         asked.dropped = [late |-> 0, budget |-> 0, cap |-> 0],
         NEW eligible \in Seq(Evidence), IsInjective(eligible), NEW late
  PROVE  TakenSoFar(Picked(asked, eligible, late), asked, eligible, Len(eligible))
<1> DEFINE order == [i \in DOMAIN eligible |-> i]
           n == Len(eligible)
<1>1. /\ DOMAIN eligible = 1 .. n /\ n \in Nat /\ \A i \in DOMAIN eligible : eligible[i] \in Evidence
  BY LenProperties
<1>2. order \in Seq(DOMAIN eligible) /\ Len(order) = n /\ \A i \in 1 .. n : order[i] = i
  <2>1. order \in [1 .. n -> DOMAIN eligible]
    BY <1>1
  <2>2. QED
    BY <1>1, <2>1, InSeq
<1> HIDE DEF order
<1>3. PICK f \in [0 .. Len(order) -> Selections(asked)] : TakeRuns(f, asked, eligible, order, late)
  BY <1>1, <1>2, TakeSteps
<1>4. /\ f[0] = asked /\ Picked(asked, eligible, late) = f[n]
      /\ \A i \in 1 .. n : f[i] = Take(f[i - 1], eligible[i], i >= late)
  BY <1>2, <1>3 DEF TakeRuns, Picked, order
<1> DEFINE G == {i \in 0 .. n : TakenSoFar(f[i], asked, eligible, i)}
<1>5. 0 \in G
  <2>1. /\ Len(asked.blocks) = 0 /\ DOMAIN asked.blocks = {} /\ asked.dropped.late = 0
        /\ asked.dropped.budget = 0 /\ asked.dropped.cap = 0
    OBVIOUS
  <2>2. 0 <= asked.cap /\ 0 + 0 + 0 + 0 = 0
    OBVIOUS
  <2>3. TakenSoFar(asked, asked, eligible, 0)
    BY <2>1, <2>2 DEF TakenSoFar
  <2>4. 0 \in 0 .. n
    BY <1>1
  <2>5. QED
    BY <1>4, <2>3, <2>4
<1>6. ASSUME NEW i \in 1 .. n, i - 1 \in G PROVE i \in G
  <2>1. i \in 0 .. n /\ i \in DOMAIN eligible
    BY <1>1
  <2>2. TakenSoFar(f[i - 1], asked, eligible, i - 1)
    BY <1>6
  <2>3. TakenSoFar(Take(f[i - 1], eligible[i], i >= late), asked, eligible, i)
    BY <2>1, <2>2, TakeGoesOn
  <2>4. QED
    BY <1>4, <2>1, <2>3
<1>7. 0 .. n \subseteq G
  <2> HIDE DEF G, n
  <2>1. QED
    BY <1>1, <1>5, <1>6, Upward
<1>8. n \in 0 .. n
  BY <1>1
<1>9. QED
  BY <1>4, <1>7, <1>8

\* The memories of the blocks, and the hits that were dropped.
Chosen(p) == {p.blocks[k].memory : k \in DOMAIN p.blocks}
Missed(p) == Among(p.hits, {i \in DOMAIN p.hits : p.hits[i] \notin p.barred \cup Chosen(p)})

\* Those are as many as were counted, and nothing else is selected or dropped.
LEMMA WhatIsMissed ==
  ASSUME NEW p, p.hits \in Seq(Evidence), IsInjective(p.hits),
         p \in Selections(p), TakenSoFar(p, p, Eligible(p), Len(Eligible(p)))
  PROVE  /\ Missed(p) \in Seq(Evidence) /\ IsInjective(Missed(p))
         /\ Len(Missed(p)) = p.dropped.late + p.dropped.budget + p.dropped.cap
         /\ Range(Missed(p)) = {e \in Range(p.hits) : e \notin p.barred \cup Chosen(p)}
         /\ Chosen(p) \subseteq {e \in Range(p.hits) : e \notin p.barred}
<1> DEFINE h == p.hits
           I == {i \in DOMAIN h : h[i] \notin p.barred}
           C == Chosen(p)
           J == {i \in DOMAIN h : h[i] \notin p.barred \cup C}
           K == {i \in I : h[i] \in C}
           el == Eligible(p)
           b == p.blocks
<1>1. h \in Seq(Evidence) /\ IsInjective(h) /\ I \subseteq DOMAIN h /\ J \subseteq DOMAIN h
  OBVIOUS
<1>2. /\ el = Among(h, I) /\ Missed(p) = Among(h, J)
  BY DEF Eligible, Missed
<1>3. /\ Len(el) = Cardinality(I) /\ Cardinality(I) \in Nat /\ IsFiniteSet(I)
      /\ Range(el) = {h[i] : i \in I} /\ el \in Seq(Evidence)
  <2> HIDE DEF h, I, J
  <2>1. QED
    BY <1>1, <1>2, AmongKeeps
<1>4. /\ Missed(p) \in Seq(Evidence) /\ IsInjective(Missed(p))
      /\ Len(Missed(p)) = Cardinality(J) /\ Cardinality(J) \in Nat /\ IsFiniteSet(J)
      /\ Range(Missed(p)) = {h[i] : i \in J}
  <2> HIDE DEF h, I, J
  <2>1. QED
    BY <1>1, <1>2, AmongKeeps
<1>5. /\ b \in Seq(Blocks) /\ Len(b) \in Nat /\ DOMAIN b = 1 .. Len(b)
      /\ p.dropped.late \in Nat /\ p.dropped.budget \in Nat /\ p.dropped.cap \in Nat
  BY LenProperties DEF Selections, Drops
<1>6. /\ Len(b) + p.dropped.late + p.dropped.budget + p.dropped.cap = Len(el)
      /\ \A k \in DOMAIN b : \E j \in 1 .. Len(el) : b[k].memory = el[j]
      /\ \A k, m \in DOMAIN b : b[k].memory = b[m].memory => k = m
  BY DEF TakenSoFar
<1>7. C \subseteq {h[i] : i \in I}
  <2>1. DOMAIN el = 1 .. Len(el)
    BY <1>3, LenProperties
  <2>2. \A k \in DOMAIN b : b[k].memory \in Range(el)
    BY <1>6, <2>1 DEF Range
  <2>3. QED
    BY <1>3, <2>2 DEF Chosen
<1>8. Cardinality(C) = Len(b) /\ IsFiniteSet(C)
  <2> DEFINE s == [k \in DOMAIN b |-> b[k].memory]
  <2>1. IsInjective(s)
    BY <1>6 DEF IsInjective
  <2>2. DOMAIN b \subseteq DOMAIN s /\ IsFiniteSet(DOMAIN b) /\ Cardinality(DOMAIN b) = Len(b)
    <3> DEFINE m == Len(b)
    <3>1. m \in Nat /\ DOMAIN b = 1 .. m
      BY <1>5
    <3> HIDE DEF m
    <3>2. IsFiniteSet(1 .. m) /\ Cardinality(1 .. m) = m
      BY <3>1, FS_Interval
    <3>3. QED
      BY <3>1, <3>2 DEF m
  <2>3. C = {s[k] : k \in DOMAIN b}
    BY DEF Chosen
  <2> HIDE DEF s, C, b
  <2>4. QED
    BY <2>1, <2>2, <2>3, ImageCount
<1>9. Cardinality(K) = Len(b) /\ IsFiniteSet(K)
  <2>1. C = {h[i] : i \in K}
    BY <1>7
  <2>2. K \in SUBSET I /\ K \subseteq DOMAIN h
    OBVIOUS
  <2>3. IsFiniteSet(K)
    BY <1>3, <2>2, FS_Subset
  <2> HIDE DEF h, K, C, I
  <2>4. Cardinality(C) = Cardinality(K)
    BY <1>1, <2>1, <2>2, <2>3, ImageCount
  <2>5. QED
    BY <1>8, <2>3, <2>4
<1>10. Cardinality(J) = Cardinality(I) - Len(b)
  <2>1. J = I \ K /\ I \cap K = K
    OBVIOUS
  <2> HIDE DEF I, J, K
  <2>2. Cardinality(I \ K) = Cardinality(I) - Cardinality(I \cap K)
    BY <1>3, FS_Difference
  <2>3. QED
    BY <1>9, <2>1, <2>2
<1>11. Len(Missed(p)) = p.dropped.late + p.dropped.budget + p.dropped.cap
  <2> DEFINE x == p.dropped.late
             y == p.dropped.budget
             z == p.dropped.cap
             m == Len(b)
  <2>1. x \in Nat /\ y \in Nat /\ z \in Nat /\ m \in Nat /\ m + x + y + z = Cardinality(I)
    BY <1>3, <1>5, <1>6
  <2>2. Len(Missed(p)) = Cardinality(I) - m
    BY <1>4, <1>10
  <2>3. Len(Missed(p)) = x + y + z
    <3> HIDE DEF x, y, z, m, I
    <3>1. QED
      BY <1>3, <2>1, <2>2
  <2>4. QED
    BY <2>3
<1>12. Range(Missed(p)) = {e \in Range(h) : e \notin p.barred \cup C}
  BY <1>4 DEF Range
<1>13. C \subseteq {e \in Range(h) : e \notin p.barred}
  BY <1>7 DEF Range
<1>14. QED
  BY <1>4, <1>11, <1>12, <1>13

\* What ProposalAccountsForItsHits says of a proposal.
Accounted(p) ==
    LET selected == [i \in DOMAIN p.blocks |-> p.blocks[i].memory]
        number(reason) == Cardinality({e \in DOMAIN p.reasons : p.reasons[e] = reason})
    IN  /\ IsInjective(selected) /\ Len(selected) <= p.cap
        /\ Range(selected) \cup DOMAIN p.reasons = Range(p.hits)
        /\ Range(selected) \cap DOMAIN p.reasons = {}
        /\ number("late") = p.dropped.late
        /\ number("budget") = p.dropped.budget
        /\ number("cap") = p.dropped.cap
        /\ p.status = "ready" => \A e \in DOMAIN p.reasons : p.reasons[e] = "barred"

\* What a sequence that repeats nothing has from a place to a place.
LEMMA StretchCount ==
  ASSUME NEW s \in Seq(Evidence), IsInjective(s), NEW a \in Nat, NEW b \in Nat, a + b <= Len(s)
  PROVE  Cardinality({s[k] : k \in a + 1 .. a + b}) = b
<1> DEFINE K == a + 1 .. a + b
<1>1. DOMAIN s = 1 .. Len(s) /\ Len(s) \in Nat
  BY LenProperties
<1>2. K \subseteq DOMAIN s
  BY <1>1
<1>3. IsFiniteSet(K) /\ Cardinality(K) = IF a + 1 > a + b THEN 0 ELSE a + b - (a + 1) + 1
  <2>1. a + 1 \in Int /\ a + b \in Int
    OBVIOUS
  <2>2. QED
    BY <2>1, FS_Interval
<1> HIDE DEF K
<1>4. Cardinality({s[k] : k \in K}) = Cardinality(K)
  BY <1>2, <1>3, ImageCount
<1>5. QED
  BY <1>3, <1>4 DEF K

\* The reasons, given out in the order of the hits that were dropped, are as many
\* as were dropped for each.
LEMMA PickedIsAccounted ==
  ASSUME NEW q, q.hits \in Seq(Evidence), IsInjective(q.hits),
         q \in Selections(q), TakenSoFar(q, q, Eligible(q), Len(Eligible(q))),
         NEW p, p = [q EXCEPT !.reasons = Reasons(q), !.status = Status(q)]
  PROVE  Accounted(p)
<1> DEFINE m == Missed(q)
           C == Chosen(q)
           H == Range(q.hits)
           x == q.dropped.late
           y == q.dropped.budget
           z == q.dropped.cap
           r == Reasons(q)
           nth(e) == CHOOSE i \in DOMAIN m : m[i] = e
<1>1. /\ p.blocks = q.blocks /\ p.cap = q.cap /\ p.hits = q.hits /\ p.dropped = q.dropped
      /\ p.reasons = r /\ p.status = Status(q)
  BY DEF Selections
<1>2. /\ m \in Seq(Evidence) /\ IsInjective(m) /\ Len(m) = x + y + z
      /\ Range(m) = {e \in H : e \notin q.barred \cup C}
      /\ C \subseteq {e \in H : e \notin q.barred}
  BY WhatIsMissed
<1>3. x \in Nat /\ y \in Nat /\ z \in Nat /\ DOMAIN m = 1 .. x + y + z /\ q.blocks \in Seq(Blocks)
  BY <1>2, LenProperties DEF Selections, Drops
<1>4. r = [e \in H \ C |->
             IF e \in q.barred THEN "barred"
             ELSE IF nth(e) <= x THEN "late"
             ELSE IF nth(e) <= x + y THEN "budget" ELSE "cap"]
  BY DEF Reasons, Chosen, Missed
<1>5. \A e \in Range(m) : nth(e) \in DOMAIN m /\ m[nth(e)] = e
  BY DEF Range
<1>6. \A k \in DOMAIN m : m[k] \in Range(m) /\ nth(m[k]) = k
  <2> SUFFICES ASSUME NEW k \in DOMAIN m PROVE m[k] \in Range(m) /\ nth(m[k]) = k
    OBVIOUS
  <2>1. m[k] \in Range(m)
    BY DEF Range
  <2>2. nth(m[k]) \in DOMAIN m /\ m[nth(m[k])] = m[k]
    BY <1>5, <2>1
  <2> HIDE DEF nth, m
  <2>3. QED
    BY <1>2, <2>1, <2>2 DEF IsInjective
<1> HIDE DEF m, C, H, x, y, z, r, nth
<1>7. DOMAIN r = H \ C
  BY <1>4
<1>8. \A e \in DOMAIN r : r[e] = "barred" \/ e \in Range(m)
  BY <1>2, <1>4
<1>9. \A k \in DOMAIN m :
        /\ m[k] \in DOMAIN r
        /\ r[m[k]] = IF k <= x THEN "late" ELSE IF k <= x + y THEN "budget" ELSE "cap"
  BY <1>2, <1>4, <1>6
<1>10. {e \in DOMAIN r : r[e] = "late"} = {m[k] : k \in 0 + 1 .. 0 + x}
  <2>1. \A e \in DOMAIN r : r[e] = "late" => \E k \in 0 + 1 .. 0 + x : e = m[k]
    <3> SUFFICES ASSUME NEW e \in DOMAIN r, r[e] = "late" PROVE \E k \in 0 + 1 .. 0 + x : e = m[k]
      OBVIOUS
    <3>1. PICK k \in DOMAIN m : m[k] = e
      BY <1>5, <1>8
    <3>2. k <= x
      BY <1>9, <3>1
    <3>3. QED
      BY <1>3, <3>1, <3>2
  <2>2. \A k \in 0 + 1 .. 0 + x : k \in DOMAIN m /\ k <= x
    BY <1>3
  <2>3. \A k \in 0 + 1 .. 0 + x : m[k] \in DOMAIN r /\ r[m[k]] = "late"
    BY <1>9, <2>2
  <2>4. QED
    BY <2>1, <2>3
<1>11. {e \in DOMAIN r : r[e] = "budget"} = {m[k] : k \in x + 1 .. x + y}
  <2>1. \A e \in DOMAIN r : r[e] = "budget" => \E k \in x + 1 .. x + y : e = m[k]
    <3> SUFFICES ASSUME NEW e \in DOMAIN r, r[e] = "budget" PROVE \E k \in x + 1 .. x + y : e = m[k]
      OBVIOUS
    <3>1. PICK k \in DOMAIN m : m[k] = e
      BY <1>5, <1>8
    <3>2. ~(k <= x) /\ k <= x + y
      BY <1>9, <3>1
    <3>3. QED
      BY <1>3, <3>1, <3>2
  <2>2. \A k \in x + 1 .. x + y : k \in DOMAIN m /\ ~(k <= x) /\ k <= x + y
    BY <1>3
  <2>3. \A k \in x + 1 .. x + y : m[k] \in DOMAIN r /\ r[m[k]] = "budget"
    BY <1>9, <2>2
  <2>4. QED
    BY <2>1, <2>3
<1>12. {e \in DOMAIN r : r[e] = "cap"} = {m[k] : k \in x + y + 1 .. x + y + z}
  <2>1. \A e \in DOMAIN r : r[e] = "cap" => \E k \in x + y + 1 .. x + y + z : e = m[k]
    <3> SUFFICES ASSUME NEW e \in DOMAIN r, r[e] = "cap"
                 PROVE  \E k \in x + y + 1 .. x + y + z : e = m[k]
      OBVIOUS
    <3>1. PICK k \in DOMAIN m : m[k] = e
      BY <1>5, <1>8
    <3>2. ~(k <= x) /\ ~(k <= x + y)
      BY <1>9, <3>1
    <3>3. QED
      BY <1>3, <3>1, <3>2
  <2>2. \A k \in x + y + 1 .. x + y + z : k \in DOMAIN m /\ ~(k <= x) /\ ~(k <= x + y)
    BY <1>3
  <2>3. \A k \in x + y + 1 .. x + y + z : m[k] \in DOMAIN r /\ r[m[k]] = "cap"
    BY <1>9, <2>2
  <2>4. QED
    BY <2>1, <2>3
<1>13. /\ Cardinality({e \in DOMAIN r : r[e] = "late"}) = x
       /\ Cardinality({e \in DOMAIN r : r[e] = "budget"}) = y
       /\ Cardinality({e \in DOMAIN r : r[e] = "cap"}) = z
  <2>1. 0 \in Nat /\ x + y \in Nat /\ 0 + x <= Len(m) /\ x + y <= Len(m) /\ x + y + z <= Len(m)
    BY <1>2, <1>3
  <2>2. Cardinality({m[k] : k \in 0 + 1 .. 0 + x}) = x
    BY <1>2, <1>3, <2>1, StretchCount
  <2>3. Cardinality({m[k] : k \in x + 1 .. x + y}) = y
    BY <1>2, <1>3, <2>1, StretchCount
  <2>4. Cardinality({m[k] : k \in x + y + 1 .. x + y + z}) = z
    BY <1>2, <1>3, <2>1, StretchCount
  <2>5. QED
    BY <1>10, <1>11, <1>12, <2>2, <2>3, <2>4
<1>14. Status(q) = "ready" => \A e \in DOMAIN r : r[e] = "barred"
  <2> SUFFICES ASSUME Status(q) = "ready" PROVE DOMAIN m = {}
    BY <1>5, <1>8
  <2>1. ~(x + y + z > 0)
    BY DEF Status, x, y, z
  <2>2. QED
    BY <1>3, <2>1
<1> DEFINE selected == [i \in DOMAIN q.blocks |-> q.blocks[i].memory]
<1>15. IsInjective(selected) /\ Range(selected) = C /\ Len(selected) = Len(q.blocks)
  <2>1. IsInjective(selected)
    BY DEF TakenSoFar, IsInjective
  <2>2. Range(selected) = C
    BY DEF Range, C, Chosen
  <2>3. DOMAIN q.blocks = 1 .. Len(q.blocks) /\ Len(q.blocks) \in Nat
    BY <1>3, LenProperties
  <2>4. selected \in [1 .. Len(q.blocks) -> Evidence]
    <3>1. \A i \in DOMAIN q.blocks : q.blocks[i] \in Blocks
      BY <1>3, LenProperties
    <3>2. QED
      BY <2>3, <3>1 DEF Blocks
  <2> HIDE DEF selected
  <2>5. QED
    BY <2>1, <2>2, <2>3, <2>4, InSeq
<1>16. Len(q.blocks) <= q.cap
  BY DEF TakenSoFar
<1>17. C \cup DOMAIN r = H /\ C \cap DOMAIN r = {}
  BY <1>2, <1>7
<1>18. /\ IsInjective(selected) /\ Len(selected) <= p.cap
       /\ Range(selected) \cup DOMAIN p.reasons = Range(p.hits)
       /\ Range(selected) \cap DOMAIN p.reasons = {}
  <2> HIDE DEF selected
  <2>1. QED
    BY <1>1, <1>15, <1>16, <1>17 DEF H
<1>19. /\ Cardinality({e \in DOMAIN p.reasons : p.reasons[e] = "late"}) = p.dropped.late
       /\ Cardinality({e \in DOMAIN p.reasons : p.reasons[e] = "budget"}) = p.dropped.budget
       /\ Cardinality({e \in DOMAIN p.reasons : p.reasons[e] = "cap"}) = p.dropped.cap
       /\ p.status = "ready" => \A e \in DOMAIN p.reasons : p.reasons[e] = "barred"
  BY <1>1, <1>13, <1>14 DEF x, y, z
<1>20. selected = [i \in DOMAIN p.blocks |-> p.blocks[i].memory]
  BY <1>1
<1> HIDE DEF selected
<1>21. QED
  BY <1>18, <1>19, <1>20 DEF Accounted

\* A selection is one of its own.
LEMMA OwnSelection ==
  ASSUME NEW asked, NEW q \in Selections(asked), NEW n,
         TakenSoFar(q, asked, Eligible(asked), n)
  PROVE  /\ q \in Selections(q) /\ q.hits = asked.hits
         /\ Eligible(q) = Eligible(asked) /\ TakenSoFar(q, q, Eligible(q), n)
<1>1. /\ q.hits = asked.hits /\ q.barred = asked.barred /\ q.task = asked.task
      /\ q.ceiling = asked.ceiling /\ q.cap = asked.cap /\ q.partial = asked.partial
      /\ q.reasons = asked.reasons /\ q.status = asked.status
  BY DEF Selections
<1>2. Selections(q) = Selections(asked)
  BY <1>1 DEF Selections
<1>3. Eligible(q) = Eligible(asked)
  BY <1>1 DEF Eligible
<1>4. QED
  BY <1>1, <1>2, <1>3 DEF TakenSoFar

\* A proposal accounts for its hits when it has been prepared.
LEMMA PreparationAccounts ==
  ASSUME NEW request \in Requests, NEW hits \in Retrievals, NEW failed \in BOOLEAN, NEW barred, NEW late,
         PrepareContext(request, failed, hits, barred, late)
  PROVE  ProposalAccountsForItsHits'
<1> DEFINE partial == failed \/ late = 0
           asked == [request EXCEPT !.phase = "emit", !.hits = hits, !.barred = barred,
                                    !.partial = partial]
           eligible == Eligible(asked)
           q == Picked(asked, eligible, late)
<1>1. hits \in Seq(Evidence) /\ IsInjective(hits)
  <2>1. Cardinality(Evidence) \in Nat
    BY ContextAssumption, FS_CardinalityType
  <2>2. PICK k \in Nat : hits \in [1 .. k -> Evidence]
    BY <2>1 DEF Retrievals
  <2>3. QED
    BY <2>2, InSeq DEF Retrievals
<1>2. /\ asked.cap \in Nat /\ asked.blocks = <<>> /\ asked.hits = hits /\ asked.barred = barred
      /\ asked.dropped = [late |-> 0, budget |-> 0, cap |-> 0]
      /\ asked \in Selections(asked)
  <2> HIDE DEF partial
  <2>1. PICK t \in Tasks, k \in Ceilings, c \in BlockCaps : request = Request(t, k, c)
    BY DEF Requests
  <2>2. c \in Nat /\ ProposalHeader \in Nat /\ <<>> \in Seq(Blocks)
    BY ContextAssumption, EmptySeq
  <2>3. /\ request.cap = c /\ request.blocks = <<>> /\ request.used = ProposalHeader
        /\ request.dropped = [late |-> 0, budget |-> 0, cap |-> 0]
        /\ DOMAIN request = {"phase", "task", "ceiling", "cap", "partial", "hits", "barred",
                            "blocks", "used", "dropped", "reasons", "status"}
        /\ request = [f \in DOMAIN request |-> request[f]]
    BY <2>1 DEF Request, NoProposal
  <2>4. /\ asked.cap = c /\ asked.blocks = <<>> /\ asked.used = ProposalHeader
        /\ asked.dropped = [late |-> 0, budget |-> 0, cap |-> 0]
        /\ asked.phase = "emit" /\ asked.hits = hits /\ asked.barred = barred
        /\ DOMAIN asked = DOMAIN request
        /\ asked = [f \in DOMAIN asked |-> asked[f]]
    BY <2>3
  <2>5. [late |-> 0, budget |-> 0, cap |-> 0] \in Drops
    BY DEF Drops
  <2>6. asked \in Selections(asked)
    BY <2>2, <2>3, <2>4, <2>5 DEF Selections
  <2>7. QED
    BY <2>2, <2>4, <2>6
<1>3. eligible \in Seq(Evidence) /\ IsInjective(eligible)
  <2> DEFINE I == {i \in DOMAIN hits : hits[i] \notin barred}
  <2>1. eligible = Among(hits, I) /\ I \subseteq DOMAIN hits
    BY <1>2 DEF Eligible
  <2> HIDE DEF I, eligible
  <2>2. QED
    BY <1>1, <2>1, AmongKeeps
<1>4. proposal' = [q EXCEPT !.reasons = Reasons(q), !.status = Status(q)]
  BY DEF PrepareContext, Picked
<1> HIDE DEF asked, q
<1>5. TakenSoFar(q, asked, eligible, Len(eligible)) /\ q \in Selections(asked)
  BY <1>2, <1>3, AllAreTaken DEF TakenSoFar, q
<1>6. /\ q \in Selections(q) /\ q.hits = hits /\ TakenSoFar(q, q, Eligible(q), Len(Eligible(q)))
  BY <1>2, <1>5, OwnSelection
<1>7. PICK p : p = [q EXCEPT !.reasons = Reasons(q), !.status = Status(q)]
  OBVIOUS
<1>8. Accounted(p)
  BY <1>1, <1>6, <1>7, PickedIsAccounted
<1>9. p = proposal'
  BY <1>4, <1>7
<1>10. QED
  BY <1>8, <1>9 DEF Accounted, ProposalAccountsForItsHits

\* There is nothing to account for without one, and nothing else touches it.
LEMMA IdleAccounts == proposal' = NoProposal => ProposalAccountsForItsHits'
BY DEF ProposalAccountsForItsHits, NoProposal

LEMMA ProposalStill == ProposalAccountsForItsHits /\ UNCHANGED proposal => ProposalAccountsForItsHits'
BY DEF ProposalAccountsForItsHits

LEMMA ContextAccounts ==
  ProposalAccountsForItsHits /\ ContextNext => ProposalAccountsForItsHits'
<1> SUFFICES ASSUME ProposalAccountsForItsHits, ContextNext PROVE ProposalAccountsForItsHits'
  OBVIOUS
<1>1. ASSUME NEW request \in Requests, NEW r \in Retrievals, NEW failed \in BOOLEAN, NEW late, NEW barred,
             PrepareContext(request, failed, r, barred, late)
      PROVE  ProposalAccountsForItsHits'
  BY <1>1, PreparationAccounts
<1>2. CASE EmitPack \/ EmitNothing
  BY <1>2, IdleAccounts DEF EmitPack, EmitNothing
<1>3. ASSUME NEW h \in Host, NEW p, NEW b,
             RecordInsertion(h, p, b) \/ AppendInsertion(h) \/ AppendFails(h)
      PROVE  ProposalAccountsForItsHits'
  BY <1>3, ProposalStill DEF RecordInsertion, AppendInsertion, AppendFails
<1>4. QED
  BY <1>1, <1>2, <1>3 DEF ContextNext

-----------------------------------------------------------------------------
(* What is kept *)

\* A recall's hits and pack are what its passes make them, and a proposal accounts
\* for its hits.
BestInv == RecallInv /\ ProposalAccountsForItsHits

LEMMA BestInitially == Init => BestInv
<1>1. Init => RecallInv
  BY RecallInitially DEF Init
<1>2. Init => ProposalAccountsForItsHits
  BY DEF Init, ContextInit, ProposalAccountsForItsHits, NoProposal
<1>3. QED
  BY <1>1, <1>2 DEF BestInv

LEMMA BestStays == BestInv /\ [Next]_vars => BestInv'
<1>1. [Next]_vars => RecallNext \/ UNCHANGED recall
  BY DEF Next, vars
<1>2. [Next]_vars => ContextNext \/ UNCHANGED proposal
  BY DEF Next, vars, contextVars
<1>3. RecallInv /\ [Next]_vars => RecallInv'
  BY <1>1, RecallSteps, RecallStill
<1>4. ProposalAccountsForItsHits /\ [Next]_vars => ProposalAccountsForItsHits'
  BY <1>2, ContextAccounts, ProposalStill
<1>5. QED
  BY <1>3, <1>4 DEF BestInv

\* Between the passes and the prompt nothing is lost without a reason: the fused
\* hits respect what every pass agrees on, a pack leaves out only what did not fit
\* it, and a proposal selects each hit once or says why not.
THEOREM BestIsKept == Spec => []RecallKeepsTheBest
<1>1. BestInv => RecallKeepsTheBest
  BY RecallInvRespectsDominance, RecallInvWastesNothing DEF BestInv, RecallKeepsTheBest
<1>2. Spec => []BestInv
  BY BestInitially, BestStays, PTL DEF Spec
<1>3. QED
  BY <1>1, <1>2, PTL
=============================================================================
