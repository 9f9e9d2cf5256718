--------------------------- MODULE SequenceFacts ---------------------------
(***************************************************************************)
(* Facts about numbers and sequences that the proofs of several components *)
(* use.  NatMin stands in for induction: a statement about numbers that    *)
(* fails somewhere fails first at a least number.                          *)
(***************************************************************************)
EXTENDS Integers, Sequences, SequencesExt, FiniteSets, Functions, TLAPS, FiniteSetTheorems,
        WellFoundedInduction

\* No element occurs twice.
Injective(s) == \A i, j \in DOMAIN s : s[i] = s[j] => i = j

\* A set of numbers that is not empty has a least element.
LEMMA NatMin ==
    ASSUME NEW T, T \subseteq Nat, T # {}
    PROVE  \E x \in T : \A y \in T : x <= y
<1> DEFINE R == OpToRel(<, Nat)
<1>1. IsWellFoundedOn(R, Nat)
    BY NatLessThanWellFounded
<1>2. \E x \in T : \A y \in T : ~ (<<y, x>> \in R)
    BY <1>1, WFMin
<1>3. \A x, y \in Nat : y < x => <<y, x>> \in R
    BY DEF OpToRel
<1> HIDE DEF R
<1>4. PICK x \in T : \A y \in T : ~ (<<y, x>> \in R)
    BY <1>2
<1>5. \A y \in T : ~(y < x)
    BY <1>3, <1>4
<1> QED BY <1>4, <1>5

\* Appending adds the element to the range, and to an injective sequence that
\* does not have it.
LEMMA AppendRange ==
    ASSUME NEW S, NEW s \in Seq(S), NEW e \in S
    PROVE  /\ Range(Append(s, e)) = Range(s) \cup {e}
           /\ Injective(s) /\ e \notin Range(s) => Injective(Append(s, e))
BY DEF Range, Injective

\* The head of an injective sequence leaves its range with the head.
LEMMA TailRange ==
    ASSUME NEW S, NEW s \in Seq(S), s # << >>, Injective(s)
    PROVE  /\ Range(Tail(s)) = Range(s) \ {Head(s)}
           /\ Injective(Tail(s))
           /\ Head(s) \in Range(s)
<1>1. /\ Len(s) \in Nat \ {0} /\ DOMAIN s = 1 .. Len(s)
      /\ Tail(s) \in Seq(S) /\ Len(Tail(s)) = Len(s) - 1
      /\ DOMAIN Tail(s) = 1 .. Len(s) - 1
      /\ \A i \in 1 .. Len(s) - 1 : Tail(s)[i] = s[i + 1]
      /\ Head(s) = s[1]
    OBVIOUS
<1>2. Injective(Tail(s))
    BY <1>1 DEF Injective
<1>3. Head(s) \in Range(s)
    BY <1>1 DEF Range
<1>4. ASSUME NEW x \in Range(Tail(s))
      PROVE  x \in Range(s) /\ x # Head(s)
  <2>1. PICK i \in 1 .. Len(s) - 1 : x = s[i + 1]
      BY <1>1 DEF Range
  <2> QED BY <1>1, <2>1 DEF Range, Injective
<1>5. ASSUME NEW x \in Range(s), x # Head(s)
      PROVE  x \in Range(Tail(s))
  <2>1. PICK i \in 1 .. Len(s) : x = s[i]
      BY <1>1 DEF Range
  <2>2. i - 1 \in 1 .. Len(s) - 1 /\ Tail(s)[i - 1] = x
      BY <1>1, <1>5, <2>1
  <2> QED BY <1>1, <2>2 DEF Range
<1> QED BY <1>2, <1>3, <1>4, <1>5

\* A sequence without repetition is no longer than the set it draws from.
LEMMA InjectiveLen ==
    ASSUME NEW S, IsFiniteSet(S), NEW s \in Seq(S), Injective(s)
    PROVE  Len(s) <= Cardinality(S)
<1>1. Len(s) \in Nat /\ s \in [1 .. Len(s) -> S]
    OBVIOUS
<1>2. IsFiniteSet(1 .. Len(s)) /\ Cardinality(1 .. Len(s)) = Len(s)
    BY <1>1, FS_Interval
<1>3. Cardinality(S) \in Nat
    BY FS_CardinalityType
<1>4. SUFFICES ASSUME Cardinality(S) < Len(s) PROVE FALSE
    BY <1>1, <1>3
<1>5. \E x, y \in 1 .. Len(s) : x # y /\ s[x] = s[y]
    BY <1>1, <1>2, <1>4, FS_PigeonHole
<1> QED BY <1>1, <1>5 DEF Injective

\* Every finite set of naturals has its k-th least element.
LEMMA KthLeast ==
    ASSUME NEW S \in SUBSET Nat, IsFiniteSet(S), NEW k \in 1 .. Cardinality(S)
    PROVE  \E s \in S : Cardinality({x \in S : x < s}) = k - 1
<1> DEFINE Below(s) == {x \in S : x < s}
           T == {j \in 1 .. Cardinality(S) : ~ \E s \in S : Cardinality(Below(s)) = j - 1}
<1>1. Cardinality(S) \in Nat /\ \A s : IsFiniteSet(Below(s)) /\ Cardinality(Below(s)) \in Nat
    BY FS_CardinalityType, FS_Subset
<1>2. SUFFICES ASSUME T # {} PROVE FALSE
    OBVIOUS
<1>3. T \subseteq Nat
    BY <1>1
<1> HIDE DEF T
<1>4. PICK j \in T : \A i \in T : j <= i
    BY <1>2, <1>3, NatMin
<1>5. j \in 1 .. Cardinality(S) /\ ~ \E s \in S : Cardinality(Below(s)) = j - 1
    BY <1>4 DEF T
<1>6. CASE j = 1
  <2>1. S # {}
    <3>1. Cardinality(S) # 0
        BY <1>1, <1>5
    <3> QED BY <3>1, FS_EmptySet
  <2>2. PICK s \in S : \A x \in S : s <= x
      BY <2>1, NatMin
  <2>3. Below(s) = {}
    <3>1. \A x \in S : x \in Nat /\ s <= x /\ s \in Nat /\ ~(x < s)
        BY <2>2
    <3> QED BY <3>1
  <2> HIDE DEF Below
  <2> QED BY <1>5, <1>6, <2>3, FS_EmptySet
<1>7. CASE j # 1
  <2>1. j - 1 \in 1 .. Cardinality(S) /\ j - 1 \notin T
      BY <1>1, <1>4, <1>5, <1>7
  <2>2. PICK s \in S : Cardinality(Below(s)) = (j - 1) - 1
      BY <2>1 DEF T
  <2> DEFINE A == S \ (Below(s) \cup {s})
  <2>3. s \notin Below(s)
      OBVIOUS
  <2>4. IsFiniteSet(Below(s) \cup {s}) /\ Cardinality(Below(s) \cup {s}) = j - 1
    <3> HIDE DEF Below
    <3>1. Cardinality(Below(s) \cup {s}) = Cardinality(Below(s)) + 1
        BY <1>1, <2>3, FS_AddElement
    <3>2. IsFiniteSet(Below(s) \cup {s})
        BY <1>1, FS_AddElement
    <3> QED BY <1>1, <1>5, <2>2, <3>1, <3>2
  <2>5. A # {}
    <3> SUFFICES ASSUME A = {} PROVE FALSE
        OBVIOUS
    <3>1. S = Below(s) \cup {s}
        OBVIOUS
    <3> HIDE DEF Below
    <3>2. Cardinality(S) = j - 1
        BY <2>4, <3>1
    <3> QED BY <1>1, <1>5, <3>2
  <2>6. A \subseteq Nat
      OBVIOUS
  <2> HIDE DEF A
  <2>7. PICK m \in A : \A x \in A : m <= x
      BY <2>5, <2>6, NatMin
  <2>8. m \in S /\ Below(m) = Below(s) \cup {s}
    <3>1. m \in S /\ m > s
        BY DEF A
    <3>2. \A x \in S : x < m <=> x < s \/ x = s
        BY <2>7, <3>1 DEF A
    <3> QED BY <3>1, <3>2
  <2> HIDE DEF Below
  <2> QED BY <1>5, <2>4, <2>8
<1> QED BY <1>6, <1>7

\* A strictly larger element has more elements below it.
LEMMA RankInjective ==
    ASSUME NEW S \in SUBSET Nat, IsFiniteSet(S), NEW a \in S, NEW b \in S,
           Cardinality({x \in S : x < a}) = Cardinality({x \in S : x < b})
    PROVE  a = b
<1>1. \A u, v \in S : u < v => Cardinality({x \in S : x < u}) # Cardinality({x \in S : x < v})
  <2> SUFFICES ASSUME NEW u \in S, NEW v \in S, u < v,
                      Cardinality({x \in S : x < u}) = Cardinality({x \in S : x < v})
               PROVE  FALSE
      OBVIOUS
  <2> DEFINE U == {x \in S : x < u}
             V == {x \in S : x < v}
  <2>1. IsFiniteSet(V)
      BY FS_Subset
  <2>2. U \subseteq V /\ u \in V /\ u \notin U
    <3>1. u \in Nat /\ ~(u < u)
        OBVIOUS
    <3>2. \A x \in S : x \in Nat /\ (x < u => x < v)
        OBVIOUS
    <3>3. u \in V
        OBVIOUS
    <3>4. u \notin U
        BY <3>1
    <3>5. U \subseteq V
        BY <3>2
    <3> QED BY <3>3, <3>4, <3>5
  <2>4. Cardinality(U) = Cardinality(V)
      OBVIOUS
  <2> HIDE DEF U, V
  <2>3. U = V
      BY <2>1, <2>2, <2>4, FS_Subset
  <2> QED BY <2>2, <2>3
<1> QED BY <1>1

\* Positions 1 to n mapped into S make a sequence over S of length n.
LEMMA FunctionSeq ==
    ASSUME NEW S, NEW n \in Nat, NEW f \in [1 .. n -> S]
    PROVE  f \in Seq(S) /\ Len(f) = n /\ DOMAIN f = 1 .. n
OBVIOUS

\* A sequence has at most as many elements as positions.
LEMMA RangeLen ==
    ASSUME NEW S, NEW s \in Seq(S)
    PROVE  IsFiniteSet(Range(s)) /\ Cardinality(Range(s)) <= Len(s)
<1>1. Len(s) \in Nat /\ DOMAIN s = 1 .. Len(s) /\ s \in [1 .. Len(s) -> Range(s)]
    BY DEF Range
<1>2. IsFiniteSet(1 .. Len(s)) /\ Cardinality(1 .. Len(s)) = Len(s)
    BY <1>1, FS_Interval
<1>3. s \in Surjection(1 .. Len(s), Range(s))
    BY <1>1 DEF Surjection, Range
<1> QED BY <1>2, <1>3, FS_Surjection

\* The union of two finite sets is no larger than both together.
LEMMA UnionBound ==
    ASSUME NEW S, NEW T, IsFiniteSet(S), IsFiniteSet(T)
    PROVE  /\ IsFiniteSet(S \cup T)
           /\ Cardinality(S \cup T) <= Cardinality(S) + Cardinality(T)
<1>1. /\ IsFiniteSet(S \cup T)
      /\ Cardinality(S \cup T) = Cardinality(S) + Cardinality(T) - Cardinality(S \cap T)
    BY FS_Union
<1>2. Cardinality(S) \in Nat /\ Cardinality(T) \in Nat /\ Cardinality(S \cap T) \in Nat
    BY FS_CardinalityType, FS_Subset, S \cap T \in SUBSET S
<1> QED BY <1>1, <1>2

\* The sequence t is s with e put behind its first b elements.
Inserted(t, S, s, b, e) ==
    /\ t \in Seq(S) /\ Len(t) = Len(s) + 1
    /\ \A k \in 1 .. Len(s) + 1 :
          t[k] = IF k <= b THEN s[k] ELSE IF k = b + 1 THEN e ELSE s[k - 1]

LEMMA InsertedAt ==
    ASSUME NEW S, NEW s \in Seq(S), NEW e \in S, NEW b \in 0 .. Len(s)
    PROVE  Inserted(InsertAt(s, b + 1, e), S, s, b, e)
<1> DEFINE p == SubSeq(s, 1, (b + 1) - 1)
           q == SubSeq(s, b + 1, Len(s))
           a == p \o <<e>>
           t == a \o q
<1>1. Len(s) \in Nat /\ b \in Nat
    OBVIOUS
<1>2. p \in Seq(S) /\ Len(p) = b /\ \A k \in 1 .. b : p[k] = s[k]
    BY <1>1
<1>3. /\ q \in Seq(S) /\ Len(q) = Len(s) - b
      /\ \A k \in 1 .. Len(s) - b : q[k] = s[k + b]
    BY <1>1
<1> HIDE DEF p, q
<1>4. a \in Seq(S) /\ Len(a) = b + 1 /\ a[b + 1] = e /\ \A k \in 1 .. b : a[k] = p[k]
    BY <1>1, <1>2
<1> HIDE DEF a
<1>5. /\ t \in Seq(S) /\ Len(t) = Len(s) + 1
      /\ \A k \in 1 .. b + 1 : t[k] = a[k]
      /\ \A k \in 1 .. Len(s) - b : t[k + (b + 1)] = q[k]
    BY <1>1, <1>3, <1>4
<1> HIDE DEF t
<1>6. ASSUME NEW k \in 1 .. Len(s) + 1
      PROVE  t[k] = IF k <= b THEN s[k] ELSE IF k = b + 1 THEN e ELSE s[k - 1]
  <2>1. CASE k <= b
    <3>1. k \in 1 .. b /\ k \in 1 .. b + 1
        BY <1>1, <2>1
    <3> QED BY <1>2, <1>4, <1>5, <2>1, <3>1
  <2>2. CASE k = b + 1
    <3>1. k \in 1 .. b + 1 /\ ~(k <= b)
        BY <1>1, <2>2
    <3> QED BY <1>4, <1>5, <2>2, <3>1
  <2>3. CASE k > b + 1
    <3>1. PICK j \in 1 .. Len(s) - b : j = k - (b + 1)
        BY <1>1, <2>3
    <3>2. k = j + (b + 1) /\ k - 1 = j + b /\ ~(k <= b) /\ k # b + 1
        BY <1>1, <2>3, <3>1
    <3>3. t[k] = q[j] /\ q[j] = s[j + b]
        BY <1>3, <1>5, <3>2
    <3> QED BY <3>2, <3>3
  <2> QED BY <1>1, <2>1, <2>2, <2>3
<1>7. InsertAt(s, b + 1, e) = t
    BY DEF InsertAt, t, a, p, q
<1> QED BY <1>5, <1>6, <1>7 DEF Inserted

\* The largest of finitely many numbers.
LEMMA MaxOf ==
    ASSUME NEW n \in Nat, NEW s \in SUBSET (1 .. n), s # {}
    PROVE  Max(s) \in s /\ \A y \in s : y <= Max(s)
<1> DEFINE T == {n - x : x \in s}
<1>8. \A x \in s : x \in Int /\ n - x \in Nat
    OBVIOUS
<1>1. T \subseteq Nat /\ T # {}
    BY <1>8
<1>2. PICK t \in T : \A u \in T : t <= u
    BY <1>1, NatMin
<1>3. PICK x \in s : t = n - x
    BY <1>2
<1>4. \A y \in s : n - y \in T
    OBVIOUS
<1> HIDE DEF T
<1>5. \A y \in s : y \in Int /\ x \in Int /\ n - x <= n - y
    BY <1>2, <1>3, <1>4, <1>8
<1>6. \A y \in s : x >= y /\ y \in Int /\ x \in Int
    BY <1>5
<1>7. Max(s) \in s /\ \A y \in s : Max(s) >= y
    BY <1>6 DEF Max
<1> QED BY <1>6, <1>7

\* A fold over the first n elements of b, by the operation that H tabulates:
\* g[s] is the fold of the elements at the positions s.
IsFold(g, C, H, c, b, n) ==
    /\ g \in [SUBSET (1 .. n) -> C]
    /\ g[{}] = c
    /\ \A s \in SUBSET (1 .. n) : s # {} => g[s] = H[<<g[s \ {Max(s)}], b[Max(s)]>>]

\* There is one: what SequencesExt!FoldLeft chooses exists.
LEMMA FoldExists ==
    ASSUME NEW C, NEW M, NEW H \in [C \X M -> C], NEW c \in C, NEW b \in Seq(M)
    PROVE  \E g : IsFold(g, C, H, c, b, Len(b))
<1> DEFINE T == {n \in 0 .. Len(b) : ~ \E g : IsFold(g, C, H, c, b, n)}
<1>1. Len(b) \in Nat /\ \A n \in 1 .. Len(b) : b[n] \in M
    OBVIOUS
<1> SUFFICES ASSUME T # {} PROVE FALSE
    BY <1>1
<1>2. T \subseteq Nat
    BY <1>1
<1>3. PICK n \in T : \A u \in T : n <= u
    BY <1>2, NatMin
<1>4. n \in 0 .. Len(b) /\ n \in Nat /\ ~ \E g : IsFold(g, C, H, c, b, n)
    BY <1>1, <1>3
<1>5. n # 0
  <2> SUFFICES ASSUME n = 0 PROVE FALSE
      OBVIOUS
  <2> DEFINE g == [s \in SUBSET (1 .. 0) |-> c]
  <2>1. SUBSET (1 .. 0) = {{}}
      OBVIOUS
  <2>2. IsFold(g, C, H, c, b, 0)
      BY <2>1 DEF IsFold
  <2> QED BY <1>4, <2>2
<1>6. n - 1 \in 0 .. Len(b) /\ n - 1 \in Nat /\ n \in 1 .. Len(b)
    BY <1>1, <1>4, <1>5
<1>7. n - 1 \notin T
  <2> SUFFICES ASSUME n - 1 \in T PROVE FALSE
      OBVIOUS
  <2>1. n <= n - 1
      BY <1>3
  <2> QED BY <1>4, <2>1
<1>8. PICK g : IsFold(g, C, H, c, b, n - 1)
    BY <1>6, <1>7
<1>9. PICK f : f = [s \in SUBSET (1 .. n) |-> IF n \in s THEN H[<<g[s \ {n}], b[n]>>] ELSE g[s]]
    OBVIOUS
<1>10. /\ g \in [SUBSET (1 .. n - 1) -> C] /\ g[{}] = c /\ b[n] \in M
       /\ \A s \in SUBSET (1 .. n - 1) : s # {} => g[s] = H[<<g[s \ {Max(s)}], b[Max(s)]>>]
    BY <1>1, <1>6, <1>8 DEF IsFold
<1>11. \A s \in SUBSET (1 .. n) : /\ n \in s => s \ {n} \in SUBSET (1 .. n - 1)
                                  /\ n \notin s => s \in SUBSET (1 .. n - 1)
    BY <1>4
<1>12. \A s \in SUBSET (1 .. n - 1) : s \in SUBSET (1 .. n) /\ n \notin s /\ f[s] = g[s]
    BY <1>4, <1>9
<1>13. f \in [SUBSET (1 .. n) -> C]
  <2>1. \A s \in SUBSET (1 .. n) : f[s] \in C
    <3> SUFFICES ASSUME NEW s \in SUBSET (1 .. n) PROVE f[s] \in C
        OBVIOUS
    <3>1. CASE n \in s
      <4>1. g[s \ {n}] \in C
          BY <1>10, <1>11, <3>1
      <4>2. <<g[s \ {n}], b[n]>> \in C \X M
          BY <1>10, <4>1
      <4> QED BY <1>9, <3>1, <4>2
    <3>2. CASE n \notin s
        BY <1>9, <1>10, <1>11, <3>2
    <3> QED BY <3>1, <3>2
  <2> QED BY <1>9, <2>1
<1>14. f[{}] = c
  <2>1. {} \in SUBSET (1 .. n - 1)
      OBVIOUS
  <2> QED BY <1>10, <1>12, <2>1
<1>15. ASSUME NEW s \in SUBSET (1 .. n), s # {}
       PROVE  f[s] = H[<<f[s \ {Max(s)}], b[Max(s)]>>]
  <2>1. Max(s) \in s /\ \A y \in s : y <= Max(s)
      BY <1>4, <1>15, MaxOf
  <2>2. CASE n \in s
    <3>4. PICK x : x = Max(s)
        OBVIOUS
    <3>5. x \in 1 .. n /\ n <= x
        BY <2>1, <2>2, <3>4
    <3>1. Max(s) = n
        BY <1>4, <3>4, <3>5
    <3>2. f[s \ {n}] = g[s \ {n}]
        BY <1>11, <1>12, <2>2
    <3>3. f[s] = H[<<g[s \ {n}], b[n]>>]
        BY <1>9, <2>2
    <3> QED BY <3>1, <3>2, <3>3
  <2>3. CASE n \notin s
    <3>1. s \in SUBSET (1 .. n - 1) /\ s \ {Max(s)} \in SUBSET (1 .. n - 1)
        BY <1>11, <2>3
    <3> QED BY <1>10, <1>12, <1>15, <3>1
  <2> QED BY <2>2, <2>3
<1>16. IsFold(f, C, H, c, b, n)
    BY <1>13, <1>14, <1>15 DEF IsFold
<1> QED BY <1>4, <1>16

\* The positions up to k without the last one.
LEMMA UpTo ==
    ASSUME NEW n \in Nat, NEW k \in 1 .. n
    PROVE  /\ 1 .. k \in SUBSET (1 .. n) /\ 1 .. k # {} /\ Max(1 .. k) = k
           /\ (1 .. k) \ {k} = 1 .. k - 1
<1>1. k \in Nat /\ 1 .. k \in SUBSET (1 .. k) /\ k \in 1 .. k /\ 1 .. k \in SUBSET (1 .. n)
    OBVIOUS
<1>2. Max(1 .. k) \in 1 .. k /\ \A y \in 1 .. k : y <= Max(1 .. k)
    BY <1>1, MaxOf
<1>3. PICK x : x = Max(1 .. k)
    OBVIOUS
<1>4. x \in 1 .. k /\ k <= x
    BY <1>1, <1>2, <1>3
<1>5. x = k
    BY <1>4
<1>6. (1 .. k) \ {k} = 1 .. k - 1
    BY <1>1
<1> QED BY <1>1, <1>3, <1>5, <1>6
=============================================================================
