----------------------------- MODULE SumsProofs -----------------------------
(***************************************************************************)
(* The laws of SumOf.  The recursive function behind it has to be shown to *)
(* exist, and not to depend on the order in which it takes the elements;   *)
(* both by induction on the number of elements, with LeastNatural in the   *)
(* place of an induction rule.                                             *)
(***************************************************************************)
EXTENDS Sums, FiniteSetTheorems, TLAPS

\* Every non-empty set of naturals has a least element.
LEMMA LeastNatural ==
    ASSUME NEW S, S \subseteq Nat, S # {}
    PROVE  \E x \in S : \A y \in S : x <= y
<1>1. PICK x \in S : \A y \in S : ~(<<y, x>> \in OpToRel(<, Nat))
    BY NatLessThanWellFounded, WFMin, Zenon
<1>2. \A y \in S : ~(y < x)
    BY <1>1 DEF OpToRel
<1> QED
    BY <1>2

(***************************************************************************)
(* The recursive function                                                  *)
(***************************************************************************)

\* The element a sum takes first.
First(s) == CHOOSE x \in s : TRUE

\* sum has the sums of the sets of domain, each defined by that of a smaller one.
PartialSums(weight, domain, sum) ==
    sum = [s \in domain |-> IF s = {} THEN 0 ELSE weight[First(s)] + sum[s \ {First(s)}]]

LEMMA SumOfUnfolds ==
    ASSUME NEW weight, NEW S
    PROVE  SumOf(weight, S) = (CHOOSE sum : PartialSums(weight, SUBSET S, sum))[S]
BY Zenon DEF SumOf, MapThenSumSet, MapThenFoldSet, PartialSums, First

LEMMA FirstIsElement == ASSUME NEW s, s # {} PROVE First(s) \in s
BY DEF First

\* One element less.
LEMMA Smaller ==
    ASSUME NEW S, IsFiniteSet(S), NEW x \in S
    PROVE  /\ IsFiniteSet(S \ {x})
           /\ Cardinality(S) \in Nat \ {0} /\ Cardinality(S \ {x}) \in Nat
           /\ Cardinality(S \ {x}) = Cardinality(S) - 1
<1>1. IsFiniteSet(S \ {x}) /\ Cardinality(S \ {x}) = Cardinality(S) - 1
    BY FS_RemoveElement
<1>2. Cardinality(S) \in Nat /\ Cardinality(S \ {x}) \in Nat
    BY <1>1, FS_CardinalityType
<1> QED
    BY <1>1, <1>2

\* The sums of the sets of at most n elements give those of at most n + 1.
LEMMA PartialSumsExist ==
    ASSUME NEW weight, NEW S, IsFiniteSet(S)
    PROVE  \E sum : PartialSums(weight, SUBSET S, sum)
<1> DEFINE Small(n) == {s \in SUBSET S : Cardinality(s) <= n}
           Known(n) == \E sum : PartialSums(weight, Small(n), sum)
           Unknown  == {n \in Nat : ~Known(n)}
<1>1. \A s \in SUBSET S : IsFiniteSet(s) /\ Cardinality(s) \in Nat
    BY FS_Subset, FS_CardinalityType
<1>2. Known(0)
    <2>1. \A s \in Small(0) : s = {}
        BY <1>1, FS_EmptySet
    <2>2. PartialSums(weight, Small(0), [s \in Small(0) |-> 0])
        BY <2>1 DEF PartialSums
    <2> QED
        BY <2>2
<1>3. ASSUME NEW n \in Nat, Known(n) PROVE Known(n + 1)
    <2>1. PICK sum : PartialSums(weight, Small(n), sum)
        BY <1>3
    <2> DEFINE Step(s) == IF s = {} THEN 0 ELSE weight[First(s)] + sum[s \ {First(s)}]
               more == [s \in Small(n + 1) |-> Step(s)]
    <2>2. ASSUME NEW s \in Small(n + 1), s # {}
          PROVE  s \ {First(s)} \in Small(n)
        <3>1. First(s) \in s
            BY <2>2, FirstIsElement
        <3>2. Cardinality(s \ {First(s)}) = Cardinality(s) - 1
            BY <1>1, <3>1, Smaller
        <3>3. s \ {First(s)} \in SUBSET S /\ Cardinality(s) <= n + 1 /\ Cardinality(s) \in Nat
            BY <1>1
        <3> QED
            BY <3>2, <3>3
    <2>3. \A s \in Small(n) : s \in Small(n + 1)
        BY <1>1
    <2>4. \A s \in Small(n) : sum[s] = Step(s)
        BY <2>1 DEF PartialSums
    <2>5. \A s \in Small(n) : more[s] = sum[s]
        BY <2>3, <2>4
    <2>6. ASSUME NEW s \in Small(n + 1)
          PROVE  Step(s) = IF s = {} THEN 0 ELSE weight[First(s)] + more[s \ {First(s)}]
        <3>1. CASE s = {}
            BY <3>1
        <3>2. CASE s # {}
            <4>1. more[s \ {First(s)}] = sum[s \ {First(s)}]
                BY <2>2, <2>5, <3>2
            <4> HIDE DEF more
            <4> QED
                BY <3>2, <4>1
        <3> QED
            BY <3>1, <3>2
    <2>7. more = [s \in Small(n + 1) |-> IF s = {} THEN 0
                                         ELSE weight[First(s)] + more[s \ {First(s)}]]
        <3> HIDE DEF Small
        <3> QED
            BY <2>6
    <2> HIDE DEF more
    <2> QED
        BY <2>7 DEF PartialSums
<1>4. Unknown = {}
    <2> SUFFICES ASSUME Unknown # {} PROVE FALSE
        OBVIOUS
    <2> HIDE DEF Known
    <2>1. PICK n \in Unknown : \A m \in Unknown : n <= m
        BY LeastNatural
    <2>2. n # 0 /\ n \in Nat
        BY <1>2
    <2>3. n - 1 \in Nat /\ Known(n - 1)
        BY <2>1, <2>2
    <2>4. Known((n - 1) + 1)
        BY <1>3, <2>3
    <2>5. (n - 1) + 1 = n
        BY <2>2
    <2> QED
        BY <2>4, <2>5
<1>5. Known(Cardinality(S))
    BY <1>1, <1>4
<1>6. Small(Cardinality(S)) = SUBSET S
    BY FS_Subset
<1> QED
    BY <1>5, <1>6

\* Two such functions agree on a set on which their weights do.
LEMMA PartialSumsAgree ==
    ASSUME NEW v, NEW w, NEW S, NEW T, NEW f, NEW g,
           PartialSums(v, SUBSET S, f), PartialSums(w, SUBSET T, g),
           NEW U \in SUBSET S, U \in SUBSET T, IsFiniteSet(U), \A x \in U : v[x] = w[x]
    PROVE  f[U] = g[U]
<1> DEFINE Wrong == {n \in Nat : \E V \in SUBSET U : Cardinality(V) = n /\ f[V] # g[V]}
<1>1. \A V \in SUBSET U : IsFiniteSet(V) /\ Cardinality(V) \in Nat
    BY FS_Subset, FS_CardinalityType
<1>2. Wrong = {}
    <2> SUFFICES ASSUME Wrong # {} PROVE FALSE
        OBVIOUS
    <2>1. PICK n \in Wrong : \A m \in Wrong : n <= m
        BY LeastNatural
    <2>2. PICK V \in SUBSET U : Cardinality(V) = n /\ f[V] # g[V]
        BY <2>1
    <2>3. /\ f[V] = IF V = {} THEN 0 ELSE v[First(V)] + f[V \ {First(V)}]
          /\ g[V] = IF V = {} THEN 0 ELSE w[First(V)] + g[V \ {First(V)}]
        BY DEF PartialSums
    <2>4. V # {} /\ First(V) \in V
        BY <2>2, <2>3, FirstIsElement
    <2>5. Cardinality(V \ {First(V)}) \in Nat /\ Cardinality(V \ {First(V)}) < n
        BY <1>1, <2>2, <2>4, Smaller
    <2>6. V \ {First(V)} \in SUBSET U
        OBVIOUS
    <2>7. f[V \ {First(V)}] = g[V \ {First(V)}]
        BY <2>1, <2>5, <2>6
    <2> QED
        BY <2>2, <2>3, <2>4, <2>7
<1> QED
    BY <1>1, <1>2

LEMMA SumOfIsPartialSum ==
    ASSUME NEW weight, NEW S, IsFiniteSet(S)
    PROVE  \E sum : PartialSums(weight, SUBSET S, sum) /\ SumOf(weight, S) = sum[S]
BY PartialSumsExist, SumOfUnfolds

(***************************************************************************)
(* The laws                                                                *)
(***************************************************************************)

\* Nothing adds up to nothing.
LEMMA SumOfNone == ASSUME NEW weight PROVE SumOf(weight, {}) = 0
<1>1. PICK sum : PartialSums(weight, SUBSET {}, sum) /\ SumOf(weight, {}) = sum[{}]
    BY FS_EmptySet, SumOfIsPartialSum
<1> QED
    BY <1>1 DEF PartialSums

\* Only the weights of the elements count.
LEMMA SumOfSame ==
    ASSUME NEW v, NEW w, NEW S, IsFiniteSet(S), \A x \in S : v[x] = w[x]
    PROVE  SumOf(v, S) = SumOf(w, S)
<1>1. PICK f : PartialSums(v, SUBSET S, f) /\ SumOf(v, S) = f[S]
    BY SumOfIsPartialSum
<1>2. PICK g : PartialSums(w, SUBSET S, g) /\ SumOf(w, S) = g[S]
    BY SumOfIsPartialSum
<1> QED
    BY <1>1, <1>2, PartialSumsAgree

\* The first element is added to the sum of the others.
LEMMA SumOfFirst ==
    ASSUME NEW weight, NEW S, IsFiniteSet(S), S # {}
    PROVE  SumOf(weight, S) = weight[First(S)] + SumOf(weight, S \ {First(S)})
<1> DEFINE R == S \ {First(S)}
<1>1. First(S) \in S /\ IsFiniteSet(R)
    BY FirstIsElement, FS_RemoveElement
<1>2. PICK f : PartialSums(weight, SUBSET S, f) /\ SumOf(weight, S) = f[S]
    BY SumOfIsPartialSum
<1>3. PICK g : PartialSums(weight, SUBSET R, g) /\ SumOf(weight, R) = g[R]
    BY <1>1, SumOfIsPartialSum
<1>4. f[R] = g[R]
    <2>1. R \in SUBSET S /\ R \in SUBSET R
        OBVIOUS
    <2> HIDE DEF R
    <2> QED
        BY <1>1, <1>2, <1>3, <2>1, PartialSumsAgree
<1>5. f[S] = weight[First(S)] + f[R]
    BY <1>2 DEF PartialSums
<1> QED
    BY <1>2, <1>3, <1>4, <1>5

\* The sum of integers is an integer.
LEMMA SumOfInt ==
    ASSUME NEW weight, NEW S, IsFiniteSet(S), \A x \in S : weight[x] \in Int
    PROVE  SumOf(weight, S) \in Int
<1> DEFINE Wrong == {n \in Nat : \E V \in SUBSET S : Cardinality(V) = n /\ SumOf(weight, V) \notin Int}
<1>1. \A V \in SUBSET S : IsFiniteSet(V) /\ Cardinality(V) \in Nat
    BY FS_Subset, FS_CardinalityType
<1>2. Wrong = {}
    <2> SUFFICES ASSUME Wrong # {} PROVE FALSE
        OBVIOUS
    <2>1. PICK n \in Wrong : \A m \in Wrong : n <= m
        BY LeastNatural
    <2>2. PICK V \in SUBSET S : Cardinality(V) = n /\ SumOf(weight, V) \notin Int
        BY <2>1
    <2>3. V # {} /\ First(V) \in V
        BY <2>2, SumOfNone, FirstIsElement
    <2>4. Cardinality(V \ {First(V)}) \in Nat /\ Cardinality(V \ {First(V)}) < n
        BY <1>1, <2>2, <2>3, Smaller
    <2>5. V \ {First(V)} \in SUBSET S
        OBVIOUS
    <2>6. SumOf(weight, V \ {First(V)}) \in Int
        BY <2>1, <2>4, <2>5
    <2>7. SumOf(weight, V) = weight[First(V)] + SumOf(weight, V \ {First(V)})
        BY <1>1, <2>3, SumOfFirst
    <2>8. weight[First(V)] \in Int
        BY <2>3
    <2> QED
        BY <2>2, <2>6, <2>7, <2>8
<1> QED
    BY <1>1, <1>2

\* Nothing adds up to nothing.
LEMMA SumOfZeros ==
    ASSUME NEW weight, NEW S, IsFiniteSet(S), \A x \in S : weight[x] = 0
    PROVE  SumOf(weight, S) = 0
<1> DEFINE Wrong == {n \in Nat : \E V \in SUBSET S : Cardinality(V) = n /\ SumOf(weight, V) # 0}
<1>1. \A V \in SUBSET S : IsFiniteSet(V) /\ Cardinality(V) \in Nat
    BY FS_Subset, FS_CardinalityType
<1>2. Wrong = {}
    <2> SUFFICES ASSUME Wrong # {} PROVE FALSE
        OBVIOUS
    <2>1. PICK n \in Wrong : \A m \in Wrong : n <= m
        BY LeastNatural
    <2>2. PICK V \in SUBSET S : Cardinality(V) = n /\ SumOf(weight, V) # 0
        BY <2>1
    <2>3. V # {}
        BY <2>2, SumOfNone
    <2> PICK x \in V : x = First(V)
        BY <2>3, FirstIsElement
    <2>4. SumOf(weight, V) = weight[x] + SumOf(weight, V \ {x})
        BY <1>1, <2>3, SumOfFirst
    <2>5. Cardinality(V \ {x}) = n - 1 /\ n - 1 \in Nat /\ V \ {x} \in SUBSET S
        BY <1>1, <2>2, Smaller
    <2>6. SumOf(weight, V \ {x}) = 0
        BY <2>1, <2>5
    <2> QED
        BY <2>2, <2>4, <2>6
<1> QED
    BY <1>1, <1>2

\* Whichever element is taken away, the sum is less by its weight.
LEMMA SumOfOne ==
    ASSUME NEW weight, NEW S, IsFiniteSet(S), \A x \in S : weight[x] \in Int, NEW y \in S
    PROVE  SumOf(weight, S) = weight[y] + SumOf(weight, S \ {y})
<1> DEFINE Splits(V) == \A x \in V : SumOf(weight, V) = weight[x] + SumOf(weight, V \ {x})
           Wrong == {n \in Nat : \E V \in SUBSET S : Cardinality(V) = n /\ ~Splits(V)}
<1>1. \A V \in SUBSET S : IsFiniteSet(V) /\ Cardinality(V) \in Nat
    BY FS_Subset, FS_CardinalityType
<1>2. \A V \in SUBSET S : SumOf(weight, V) \in Int
    BY <1>1, SumOfInt
<1>3. Wrong = {}
    <2> SUFFICES ASSUME Wrong # {} PROVE FALSE
        OBVIOUS
    <2>1. PICK n \in Wrong : \A m \in Wrong : n <= m
        BY LeastNatural
    <2>2. PICK V \in SUBSET S : Cardinality(V) = n /\ ~Splits(V)
        BY <2>1
    <2>3. PICK x \in V : SumOf(weight, V) # weight[x] + SumOf(weight, V \ {x})
        BY <2>2
    <2>4. PICK z : z = First(V)
        OBVIOUS
    <2>5. z \in V /\ SumOf(weight, V) = weight[z] + SumOf(weight, V \ {z})
        BY <1>1, <2>3, <2>4, FirstIsElement, SumOfFirst
    <2>6. x # z
        BY <2>3, <2>5
    <2>7. \A u \in V : /\ V \ {u} \in SUBSET S
                       /\ Splits(V \ {u})
        <3> SUFFICES ASSUME NEW u \in V PROVE V \ {u} \in SUBSET S /\ Splits(V \ {u})
            OBVIOUS
        <3> HIDE DEF Splits
        <3>1. V \ {u} \in SUBSET S
            OBVIOUS
        <3>2. Cardinality(V \ {u}) \in Nat /\ Cardinality(V \ {u}) < n
            BY <1>1, <2>2, Smaller
        <3> QED
            BY <2>1, <3>1, <3>2
    <2>8. SumOf(weight, V \ {z}) = weight[x] + SumOf(weight, (V \ {z}) \ {x})
        BY <2>5, <2>6, <2>7
    <2>9. SumOf(weight, V \ {x}) = weight[z] + SumOf(weight, (V \ {x}) \ {z})
        BY <2>5, <2>6, <2>7
    <2>10. (V \ {z}) \ {x} = (V \ {x}) \ {z} /\ (V \ {x}) \ {z} \in SUBSET S
        OBVIOUS
    <2>11. /\ SumOf(weight, (V \ {x}) \ {z}) \in Int
           /\ weight[x] \in Int /\ weight[z] \in Int
        BY <1>2, <2>5, <2>10
    <2> QED
        BY <2>3, <2>5, <2>8, <2>9, <2>10, <2>11
<1> QED
    BY <1>1, <1>3

\* An element more.
LEMMA SumOfMore ==
    ASSUME NEW weight, NEW S, IsFiniteSet(S), NEW y, y \notin S,
           \A x \in S \union {y} : weight[x] \in Int
    PROVE  SumOf(weight, S \union {y}) = SumOf(weight, S) + weight[y]
<1>1. IsFiniteSet(S \union {y}) /\ (S \union {y}) \ {y} = S
    BY FS_AddElement
<1>2. SumOf(weight, S \union {y}) = weight[y] + SumOf(weight, S)
    BY <1>1, SumOfOne
<1>3. SumOf(weight, S) \in Int /\ weight[y] \in Int
    BY SumOfInt
<1> QED
    BY <1>2, <1>3

\* A set of natural weights adds up to no less than any part of it.
LEMMA SumOfPart ==
    ASSUME NEW weight, NEW S, IsFiniteSet(S), \A x \in S : weight[x] \in Nat, NEW T \in SUBSET S
    PROVE  SumOf(weight, T) <= SumOf(weight, S)
<1> DEFINE Wrong == {n \in Nat : \E V \in SUBSET S :
                        /\ T \subseteq V /\ Cardinality(V) = n
                        /\ ~(SumOf(weight, T) <= SumOf(weight, V))}
<1>1. \A V \in SUBSET S : IsFiniteSet(V) /\ Cardinality(V) \in Nat /\ SumOf(weight, V) \in Int
    BY FS_Subset, FS_CardinalityType, SumOfInt
<1>2. Wrong = {}
    <2> SUFFICES ASSUME Wrong # {} PROVE FALSE
        OBVIOUS
    <2>1. PICK n \in Wrong : \A m \in Wrong : n <= m
        BY LeastNatural
    <2>2. PICK V \in SUBSET S : /\ T \subseteq V /\ Cardinality(V) = n
                                /\ ~(SumOf(weight, T) <= SumOf(weight, V))
        BY <2>1
    <2>3. T # V
        BY <1>1, <2>2
    <2>4. PICK x \in V : x \notin T
        BY <2>2, <2>3
    <2>5. Cardinality(V \ {x}) \in Nat /\ Cardinality(V \ {x}) < n
        BY <1>1, <2>2, Smaller
    <2>6. V \ {x} \in SUBSET S /\ T \subseteq V \ {x}
        BY <2>2, <2>4
    <2>7. SumOf(weight, T) <= SumOf(weight, V \ {x})
        BY <2>1, <2>5, <2>6
    <2>8. SumOf(weight, V) = weight[x] + SumOf(weight, V \ {x})
        BY <1>1, SumOfOne
    <2>9. weight[x] \in Nat /\ SumOf(weight, V \ {x}) \in Int /\ SumOf(weight, T) \in Int
        BY <1>1, <2>6
    <2> QED
        BY <2>2, <2>7, <2>8, <2>9
<1> QED
    BY <1>1, <1>2

\* The sum of natural weights is not negative.
LEMMA SumOfNat ==
    ASSUME NEW weight, NEW S, IsFiniteSet(S), \A x \in S : weight[x] \in Nat
    PROVE  SumOf(weight, S) \in Nat
<1>1. SumOf(weight, {}) <= SumOf(weight, S)
    BY SumOfPart
<1>2. SumOf(weight, S) \in Int
    BY SumOfInt
<1> QED
    BY <1>1, <1>2, SumOfNone

\* One element whose weight changes, or that comes or goes.
LEMMA SumOfChange ==
    ASSUME NEW v, NEW w, NEW S, NEW T, IsFiniteSet(S), NEW y, S \ {y} = T \ {y},
           \A x \in S : v[x] \in Int, \A x \in T : w[x] \in Int,
           \A x \in S \ {y} : v[x] = w[x]
    PROVE  SumOf(w, T) = SumOf(v, S) - (IF y \in S THEN v[y] ELSE 0)
                                     + (IF y \in T THEN w[y] ELSE 0)
<1> DEFINE R == S \ {y}
<1>1. IsFiniteSet(R) /\ IsFiniteSet(T)
    <2>1. IsFiniteSet(R)
        BY FS_Subset
    <2>2. T = R \/ T = R \union {y}
        OBVIOUS
    <2> HIDE DEF R
    <2> QED
        BY <2>1, <2>2, FS_AddElement
<1>2. SumOf(v, R) = SumOf(w, R)
    BY <1>1, SumOfSame
<1>3. SumOf(v, R) \in Int /\ SumOf(v, S) \in Int
    BY <1>1, SumOfInt
<1>4. SumOf(v, S) = SumOf(v, R) + (IF y \in S THEN v[y] ELSE 0)
    <2>1. CASE y \in S
        <3>1. SumOf(v, S) = v[y] + SumOf(v, R)
            BY <2>1, SumOfOne
        <3> QED
            BY <1>3, <2>1, <3>1
    <2>2. CASE y \notin S
        <3>1. R = S
            BY <2>2
        <3> HIDE DEF R
        <3> QED
            BY <1>3, <2>2, <3>1
    <2> QED
        BY <2>1, <2>2
<1>5. SumOf(w, T) = SumOf(w, R) + (IF y \in T THEN w[y] ELSE 0)
    <2>1. R = T \ {y} /\ SumOf(w, R) \in Int
        BY <1>2, <1>3
    <2>2. CASE y \in T
        <3>1. SumOf(w, T) = w[y] + SumOf(w, R)
            BY <1>1, <2>1, <2>2, SumOfOne
        <3> QED
            BY <2>1, <2>2, <3>1
    <2>3. CASE y \notin T
        <3>1. R = T /\ SumOf(w, R) \in Int
            BY <2>1, <2>3
        <3> HIDE DEF R
        <3> QED
            BY <2>3, <3>1
    <2> QED
        BY <2>2, <2>3
<1>6. (IF y \in S THEN v[y] ELSE 0) \in Int /\ (IF y \in T THEN w[y] ELSE 0) \in Int
    OBVIOUS
<1> HIDE DEF R
<1> QED
    BY <1>2, <1>3, <1>4, <1>5, <1>6

=============================================================================
