-------------------------------- MODULE Sums --------------------------------
(***************************************************************************)
(* Sums of a function over a finite set (SumFunctionOnSet of Functions),   *)
(* for the proofs about what is charged, resident or counted.              *)
(*                                                                         *)
(* The sum is a recursive function on the subsets of the set.  That it     *)
(* exists, and does not depend on the order in which the elements are      *)
(* taken, is proved from a smallest set for which it would not be so.      *)
(***************************************************************************)
EXTENDS Integers, FiniteSets, Functions, FiniteSetTheorems, WellFoundedInduction, TLAPS

AnyOf(T) == CHOOSE x \in T : TRUE

\* One step of the recursion.
SumStep(g, f, T) == IF T = {} THEN 0 ELSE f[AnyOf(T)] + g[T \ {AnyOf(T)}]

SumsTo(g, f, S) == g = [T \in SUBSET S |-> SumStep(g, f, T)]

-----------------------------------------------------------------------------
(* Smallest sets. *)

LEMMA LeastNat ==
    ASSUME NEW N, N \subseteq Nat, N # {}
    PROVE  \E n \in N : \A k \in N : n <= k
<1>1. PICK n \in N : \A k \in N : ~ (<<k, n>> \in OpToRel(<, Nat))
    BY NatLessThanWellFounded, WFMin
<1>2. \A i, j \in Nat : i < j => <<i, j>> \in OpToRel(<, Nat)
    BY DEF OpToRel
<1>3. \A k \in N : ~ (k < n)
    BY <1>1, <1>2
<1> QED BY <1>3

LEMMA SmallestSet ==
    ASSUME NEW S, IsFiniteSet(S), NEW B, B \subseteq SUBSET S, B # {}
    PROVE  \E T \in B : \A U \in B : Cardinality(U) < Cardinality(T) => FALSE
<1> DEFINE N == {Cardinality(T) : T \in B}
<1>1. \A T \in B : IsFiniteSet(T) /\ Cardinality(T) \in Nat
    BY FS_Subset, FS_CardinalityType
<1>2. PICK n \in N : \A k \in N : n <= k
    <2>1. N \subseteq Nat /\ N # {}
        BY <1>1
    <2> HIDE DEF N
    <2> QED BY <2>1, LeastNat
<1>3. PICK T \in B : n = Cardinality(T)
    BY <1>2
<1>4. ASSUME NEW U \in B, Cardinality(U) < Cardinality(T) PROVE FALSE
    BY <1>1, <1>2, <1>3, <1>4
<1> QED BY <1>4

\* An element less.
LEMMA LessOne ==
    ASSUME NEW S, IsFiniteSet(S), NEW x \in S
    PROVE  /\ IsFiniteSet(S \ {x}) /\ Cardinality(S) \in Nat
           /\ Cardinality(S \ {x}) = Cardinality(S) - 1
           /\ Cardinality(S \ {x}) < Cardinality(S)
<1>1. IsFiniteSet(S \ {x}) /\ Cardinality(S \ {x}) = Cardinality(S) - 1 /\ Cardinality(S) \in Nat
    BY FS_RemoveElement, FS_CardinalityType
<1> QED BY <1>1

-----------------------------------------------------------------------------
(* The sum exists. *)

LEMMA SumUnfolds ==
    ASSUME NEW f, NEW S
    PROVE  SumFunctionOnSet(f, S) = (CHOOSE g : SumsTo(g, f, S))[S]
BY DEF SumFunctionOnSet, FoldFunctionOnSet, MapThenFoldSet, SumsTo, SumStep, AnyOf

LEMMA SumExists == ASSUME NEW f, NEW S, IsFiniteSet(S) PROVE \E g : SumsTo(g, f, S)
<1> DEFINE Low(n) == {T \in SUBSET S : Cardinality(T) <= n}
           Good(n) == \E g : g = [T \in Low(n) |-> SumStep(g, f, T)]
           Bad == {n \in Nat : ~Good(n)}
<1>1. \A T \in SUBSET S : IsFiniteSet(T) /\ Cardinality(T) \in Nat /\ Cardinality(T) <= Cardinality(S)
    BY FS_Subset, FS_CardinalityType
<1>2. Good(0)
    <2> DEFINE g == [T \in Low(0) |-> 0]
    <2>1. \A T \in Low(0) : T = {}
        <3> SUFFICES ASSUME NEW T \in Low(0) PROVE T = {}
            OBVIOUS
        <3>1. Cardinality(T) = 0 /\ IsFiniteSet(T)
            BY <1>1
        <3> QED BY <3>1, FS_EmptySet
    <2>2. g = [T \in Low(0) |-> SumStep(g, f, T)]
        BY <2>1 DEF SumStep
    <2> QED BY <2>2
<1>3. ASSUME NEW n \in Nat, Good(n) PROVE Good(n + 1)
    <2>1. PICK g : g = [T \in Low(n) |-> SumStep(g, f, T)]
        BY <1>3
    <2> DEFINE h == [T \in Low(n + 1) |-> SumStep(g, f, T)]
    <2>2. ASSUME NEW T \in Low(n + 1) PROVE h[T] = SumStep(h, f, T)
        <3>1. CASE T = {}
            BY <3>1 DEF SumStep
        <3>2. CASE T # {}
            <4> DEFINE p == AnyOf(T)
                       U == T \ {p}
            <4>1. p \in T
                BY <3>2 DEF AnyOf
            <4> HIDE DEF p
            <4>2. Cardinality(U) = Cardinality(T) - 1 /\ Cardinality(T) \in Nat /\ Cardinality(U) \in Nat
                BY <1>1, <4>1, LessOne
            <4>3. U \in Low(n) /\ U \in Low(n + 1)
                BY <4>2
            <4>4. h[U] = g[U]
                <5>1. g[U] = SumStep(g, f, U)
                    BY <2>1, <4>3
                <5>2. h[U] = SumStep(g, f, U)
                    BY <4>3
                <5> QED BY <5>1, <5>2
            <4>5. h[T] = SumStep(g, f, T)
                OBVIOUS
            <4> HIDE DEF h, U
            <4> QED BY <3>2, <4>4, <4>5 DEF SumStep, p, U
        <3> QED BY <3>1, <3>2
    <2>3. h = [T \in Low(n + 1) |-> SumStep(h, f, T)]
        BY <2>2
    <2> HIDE DEF h
    <2> QED BY <2>3
<1>4. Bad = {}
    <2> SUFFICES ASSUME Bad # {} PROVE FALSE
        OBVIOUS
    <2> HIDE DEF Good
    <2>1. PICK n \in Bad : \A k \in Bad : n <= k
        BY LeastNat
    <2>2. n # 0 /\ n \in Nat
        BY <1>2, <2>1
    <2>3. n - 1 \in Nat /\ ~ (n <= n - 1)
        BY <2>2
    <2>4. Good(n - 1)
        BY <2>1, <2>3
    <2>5. Good((n - 1) + 1)
        BY <1>3, <2>3, <2>4
    <2> QED BY <2>1, <2>2, <2>5
<1>5. Good(Cardinality(S))
    BY <1>1, <1>4, FS_CardinalityType
<1>6. Low(Cardinality(S)) = SUBSET S
    BY <1>1
<1> QED BY <1>5, <1>6 DEF SumsTo

-----------------------------------------------------------------------------
(* One recursion for all. *)

\* Two recursions agree on a set on which their functions do.
LEMMA SumsAgree ==
    ASSUME NEW f, NEW S, NEW g, SumsTo(g, f, S), NEW f2, NEW S2, NEW g2, SumsTo(g2, f2, S2),
           NEW T, T \subseteq S, T \subseteq S2, IsFiniteSet(T), \A x \in T : f[x] = f2[x]
    PROVE  g[T] = g2[T]
<1> DEFINE B == {U \in SUBSET T : g[U] # g2[U]}
<1> SUFFICES ASSUME B # {} PROVE FALSE
    OBVIOUS
<1>1. PICK U \in B : \A V \in B : Cardinality(V) < Cardinality(U) => FALSE
    BY SmallestSet
<1>2. IsFiniteSet(U) /\ U \subseteq S /\ U \subseteq S2
    BY FS_Subset
<1>3. g[U] = SumStep(g, f, U) /\ g2[U] = SumStep(g2, f2, U)
    BY <1>2 DEF SumsTo
<1>4. U # {}
    BY <1>3 DEF SumStep
<1> DEFINE p == AnyOf(U)
<1>5. p \in U
    BY <1>4 DEF AnyOf
<1>6. g[U] = f[p] + g[U \ {p}] /\ g2[U] = f2[p] + g2[U \ {p}]
    BY <1>3, <1>4 DEF SumStep
<1> HIDE DEF p
<1>7. g[U \ {p}] = g2[U \ {p}]
    <2>1. Cardinality(U \ {p}) < Cardinality(U)
        BY <1>2, <1>5, LessOne
    <2>2. U \ {p} \notin B
        BY <1>1, <2>1
    <2> QED BY <2>2
<1> QED BY <1>5, <1>6, <1>7

LEMMA SumIs ==
    ASSUME NEW f, NEW S, IsFiniteSet(S)
    PROVE  \E g : SumsTo(g, f, S) /\ \A T \in SUBSET S : g[T] = SumFunctionOnSet(f, T)
<1> DEFINE g(T) == CHOOSE h : SumsTo(h, f, T)
<1>1. \A T \in SUBSET S : IsFiniteSet(T) /\ SumsTo(g(T), f, T)
    BY FS_Subset, SumExists
<1>2. ASSUME NEW T \in SUBSET S PROVE g(S)[T] = SumFunctionOnSet(f, T)
    <2>1. SumsTo(g(S), f, S) /\ SumsTo(g(T), f, T) /\ IsFiniteSet(T)
        BY <1>1
    <2>2. SumFunctionOnSet(f, T) = g(T)[T]
        BY SumUnfolds
    <2> HIDE DEF g
    <2>3. g(S)[T] = g(T)[T]
        BY <2>1, SumsAgree
    <2> QED BY <2>2, <2>3
<1> QED BY <1>1, <1>2

LEMMA SumEmpty == ASSUME NEW f PROVE SumFunctionOnSet(f, {}) = 0
<1>1. PICK g : SumsTo(g, f, {}) /\ \A T \in SUBSET {} : g[T] = SumFunctionOnSet(f, T)
    BY SumIs, FS_EmptySet
<1>2. g[{}] = SumStep(g, f, {})
    BY <1>1 DEF SumsTo
<1> QED BY <1>1, <1>2 DEF SumStep

LEMMA SumSame ==
    ASSUME NEW S, IsFiniteSet(S), NEW f, NEW f2, \A x \in S : f[x] = f2[x]
    PROVE  SumFunctionOnSet(f, S) = SumFunctionOnSet(f2, S)
<1>1. PICK g : SumsTo(g, f, S) /\ \A T \in SUBSET S : g[T] = SumFunctionOnSet(f, T)
    BY SumIs
<1>2. PICK g2 : SumsTo(g2, f2, S) /\ \A T \in SUBSET S : g2[T] = SumFunctionOnSet(f2, T)
    BY SumIs
<1>3. g[S] = g2[S]
    BY <1>1, <1>2, SumsAgree
<1> QED BY <1>1, <1>2, <1>3

LEMMA SumTakesOne ==
    ASSUME NEW f, NEW S, IsFiniteSet(S), S # {}
    PROVE  \E p \in S : SumFunctionOnSet(f, S) = f[p] + SumFunctionOnSet(f, S \ {p})
<1>1. PICK g : SumsTo(g, f, S) /\ \A T \in SUBSET S : g[T] = SumFunctionOnSet(f, T)
    BY SumIs
<1>2. g[S] = SumStep(g, f, S)
    BY <1>1 DEF SumsTo
<1> DEFINE p == AnyOf(S)
<1>3. p \in S
    BY DEF AnyOf
<1>4. g[S] = f[p] + g[S \ {p}]
    BY <1>2 DEF SumStep
<1> HIDE DEF p
<1> QED BY <1>1, <1>3, <1>4

LEMMA SumInt ==
    ASSUME NEW f, NEW S, IsFiniteSet(S), \A x \in S : f[x] \in Int
    PROVE  SumFunctionOnSet(f, S) \in Int
<1> DEFINE B == {T \in SUBSET S : SumFunctionOnSet(f, T) \notin Int}
<1> SUFFICES ASSUME B # {} PROVE FALSE
    OBVIOUS
<1>1. PICK T \in B : \A U \in B : Cardinality(U) < Cardinality(T) => FALSE
    BY SmallestSet
<1>2. IsFiniteSet(T) /\ T # {}
    <2>1. IsFiniteSet(T)
        BY FS_Subset
    <2>2. SumFunctionOnSet(f, {}) = 0
        BY SumEmpty
    <2> QED BY <2>1, <2>2
<1>3. PICK p \in T : SumFunctionOnSet(f, T) = f[p] + SumFunctionOnSet(f, T \ {p})
    BY <1>2, SumTakesOne
<1>4. T \ {p} \notin B
    BY <1>1, <1>2, LessOne
<1> QED BY <1>3, <1>4

LEMMA SumNat ==
    ASSUME NEW f, NEW S, IsFiniteSet(S), \A x \in S : f[x] \in Nat
    PROVE  SumFunctionOnSet(f, S) \in Nat
<1> DEFINE B == {T \in SUBSET S : SumFunctionOnSet(f, T) \notin Nat}
<1> SUFFICES ASSUME B # {} PROVE FALSE
    OBVIOUS
<1>1. PICK T \in B : \A U \in B : Cardinality(U) < Cardinality(T) => FALSE
    BY SmallestSet
<1>2. IsFiniteSet(T) /\ T # {}
    <2>1. IsFiniteSet(T)
        BY FS_Subset
    <2>2. SumFunctionOnSet(f, {}) = 0
        BY SumEmpty
    <2> QED BY <2>1, <2>2
<1>3. PICK p \in T : SumFunctionOnSet(f, T) = f[p] + SumFunctionOnSet(f, T \ {p})
    BY <1>2, SumTakesOne
<1>4. T \ {p} \notin B
    BY <1>1, <1>2, LessOne
<1> QED BY <1>3, <1>4

LEMMA SumZero ==
    ASSUME NEW f, NEW S, IsFiniteSet(S), \A x \in S : f[x] = 0
    PROVE  SumFunctionOnSet(f, S) = 0
<1> DEFINE B == {T \in SUBSET S : SumFunctionOnSet(f, T) # 0}
<1> SUFFICES ASSUME B # {} PROVE FALSE
    OBVIOUS
<1>1. PICK T \in B : \A U \in B : Cardinality(U) < Cardinality(T) => FALSE
    <2>1. B \subseteq SUBSET S
        OBVIOUS
    <2> HIDE DEF B
    <2> QED BY <2>1, SmallestSet
<1>2. IsFiniteSet(T) /\ T # {}
    <2>1. IsFiniteSet(T)
        BY FS_Subset
    <2>2. SumFunctionOnSet(f, {}) = 0
        BY SumEmpty
    <2> QED BY <2>1, <2>2
<1>3. PICK p \in T : SumFunctionOnSet(f, T) = f[p] + SumFunctionOnSet(f, T \ {p})
    BY <1>2, SumTakesOne
<1>4. T \ {p} \notin B
    BY <1>1, <1>2, LessOne
<1> QED BY <1>3, <1>4

-----------------------------------------------------------------------------
(* The laws of sums. *)

LEMMA SumRemove ==
    ASSUME NEW f, NEW S, IsFiniteSet(S), \A x \in S : f[x] \in Int, NEW x \in S
    PROVE  SumFunctionOnSet(f, S) = f[x] + SumFunctionOnSet(f, S \ {x})
<1> DEFINE Sum(T) == SumFunctionOnSet(f, T)
           B == {T \in SUBSET S : \E y \in T : Sum(T) # f[y] + Sum(T \ {y})}
<1>0. \A T \in SUBSET S : IsFiniteSet(T) /\ Sum(T) \in Int
    BY FS_Subset, SumInt
<1>1. ASSUME NEW T \in SUBSET S, T # {} PROVE \E p \in T : Sum(T) = f[p] + Sum(T \ {p})
    BY <1>0, <1>1, SumTakesOne
<1> SUFFICES ASSUME B # {} PROVE FALSE
    OBVIOUS
<1> HIDE DEF Sum
<1>2. PICK T \in B : \A U \in B : Cardinality(U) < Cardinality(T) => FALSE
    <2>1. B \subseteq SUBSET S
        OBVIOUS
    <2> HIDE DEF B
    <2> QED BY <2>1, SmallestSet
<1>3. PICK y \in T : Sum(T) # f[y] + Sum(T \ {y})
    BY <1>2
<1>4. PICK p \in T : Sum(T) = f[p] + Sum(T \ {p})
    BY <1>1, <1>3
<1>5. p # y
    BY <1>3, <1>4
<1>6. T \ {p} \notin B /\ T \ {y} \notin B
    BY <1>0, <1>2, LessOne
<1>7. Sum(T \ {p}) = f[y] + Sum((T \ {p}) \ {y}) /\ Sum(T \ {y}) = f[p] + Sum((T \ {y}) \ {p})
    BY <1>5, <1>6
<1>8. (T \ {p}) \ {y} = (T \ {y}) \ {p} /\ Sum((T \ {p}) \ {y}) \in Int /\ f[p] \in Int /\ f[y] \in Int
    BY <1>0
<1> QED BY <1>3, <1>4, <1>7, <1>8

LEMMA SumAdd ==
    ASSUME NEW f, NEW S, IsFiniteSet(S), \A x \in S : f[x] \in Int, NEW x, x \notin S, f[x] \in Int
    PROVE  SumFunctionOnSet(f, S \cup {x}) = SumFunctionOnSet(f, S) + f[x]
<1>1. IsFiniteSet(S \cup {x}) /\ (S \cup {x}) \ {x} = S
    BY FS_AddElement
<1>2. SumFunctionOnSet(f, S \cup {x}) = f[x] + SumFunctionOnSet(f, S)
    BY <1>1, SumRemove
<1>3. SumFunctionOnSet(f, S) \in Int
    BY SumInt
<1> QED BY <1>2, <1>3

LEMMA SumSplit ==
    ASSUME NEW f, NEW S, IsFiniteSet(S), \A x \in S : f[x] \in Int, NEW T, T \subseteq S
    PROVE  SumFunctionOnSet(f, S) = SumFunctionOnSet(f, T) + SumFunctionOnSet(f, S \ T)
<1> DEFINE Sum(U) == SumFunctionOnSet(f, U)
           B == {U \in SUBSET T : Sum(S) # Sum(U) + Sum(S \ U)}
<1>0. \A U \in SUBSET S : /\ IsFiniteSet(U) /\ Sum(U) \in Int
                          /\ \A x \in U : Sum(U) = f[x] + Sum(U \ {x})
    BY FS_Subset, SumInt, SumRemove
<1>1. Sum({}) = 0
    BY SumEmpty
<1> SUFFICES ASSUME B # {} PROVE FALSE
    OBVIOUS
<1> HIDE DEF Sum
<1>2. PICK U \in B : \A V \in B : Cardinality(V) < Cardinality(U) => FALSE
    BY <1>0, SmallestSet
<1>3. U # {}
    <2>1. S \ {} = S /\ Sum(S) \in Int
        BY <1>0
    <2>2. Sum(S) = Sum({}) + Sum(S \ {})
        BY <1>1, <2>1
    <2> QED BY <1>2, <2>2
<1>4. PICK x \in U : TRUE
    BY <1>3
<1>5. U \ {x} \notin B
    BY <1>0, <1>2, LessOne
<1>6. Sum(S) = Sum(U \ {x}) + Sum(S \ (U \ {x}))
    BY <1>5
<1>7. (S \ (U \ {x})) \ {x} = S \ U /\ x \in S \ (U \ {x})
    OBVIOUS
<1>8. Sum(U) = f[x] + Sum(U \ {x}) /\ Sum(S \ (U \ {x})) = f[x] + Sum(S \ U)
    BY <1>0, <1>7
<1>9. Sum(U \ {x}) \in Int /\ Sum(S \ U) \in Int /\ f[x] \in Int
    BY <1>0
<1> QED BY <1>2, <1>6, <1>8, <1>9

LEMMA SumUnion ==
    ASSUME NEW f, NEW S, IsFiniteSet(S), NEW T, IsFiniteSet(T), S \cap T = {},
           \A x \in S \cup T : f[x] \in Int
    PROVE  SumFunctionOnSet(f, S \cup T) = SumFunctionOnSet(f, S) + SumFunctionOnSet(f, T)
<1>1. IsFiniteSet(S \cup T) /\ (S \cup T) \ S = T
    BY FS_Union
<1> QED BY <1>1, SumSplit

LEMMA SumPart ==
    ASSUME NEW f, NEW S, IsFiniteSet(S), \A x \in S : f[x] \in Nat, NEW T, T \subseteq S
    PROVE  SumFunctionOnSet(f, T) <= SumFunctionOnSet(f, S)
<1>1. IsFiniteSet(T) /\ IsFiniteSet(S \ T)
    BY FS_Subset
<1>2. SumFunctionOnSet(f, T) \in Nat /\ SumFunctionOnSet(f, S \ T) \in Nat
    BY <1>1, SumNat
<1>3. SumFunctionOnSet(f, S) = SumFunctionOnSet(f, T) + SumFunctionOnSet(f, S \ T)
    BY SumSplit
<1> QED BY <1>2, <1>3

\* One term changes.
LEMMA SumChange ==
    ASSUME NEW S, IsFiniteSet(S), NEW f, NEW f2, NEW x \in S, \A y \in S : f[y] \in Int, f2[x] \in Int,
           \A y \in S \ {x} : f2[y] = f[y]
    PROVE  SumFunctionOnSet(f2, S) = SumFunctionOnSet(f, S) - f[x] + f2[x]
<1>1. IsFiniteSet(S \ {x})
    BY FS_RemoveElement
<1>2. SumFunctionOnSet(f2, S \ {x}) = SumFunctionOnSet(f, S \ {x})
    BY <1>1, SumSame
<1>3. SumFunctionOnSet(f, S) = f[x] + SumFunctionOnSet(f, S \ {x})
    BY SumRemove
<1>4. SumFunctionOnSet(f2, S) = f2[x] + SumFunctionOnSet(f2, S \ {x})
    BY SumRemove
<1>5. SumFunctionOnSet(f, S \ {x}) \in Int
    BY <1>1, SumInt
<1> QED BY <1>2, <1>3, <1>4, <1>5

LEMMA SumPlus ==
    ASSUME NEW S, IsFiniteSet(S), NEW f, NEW g, NEW h,
           \A x \in S : f[x] \in Int /\ g[x] \in Int /\ h[x] = f[x] + g[x]
    PROVE  SumFunctionOnSet(h, S) = SumFunctionOnSet(f, S) + SumFunctionOnSet(g, S)
<1> DEFINE B == {T \in SUBSET S : SumFunctionOnSet(h, T) # SumFunctionOnSet(f, T) + SumFunctionOnSet(g, T)}
<1> SUFFICES ASSUME B # {} PROVE FALSE
    OBVIOUS
<1>0. B \subseteq SUBSET S
    OBVIOUS
<1>1. PICK T \in B : \A U \in B : Cardinality(U) < Cardinality(T) => FALSE
    BY <1>0, SmallestSet
<1>2. IsFiniteSet(T) /\ T # {}
    <2>1. IsFiniteSet(T)
        BY <1>0, FS_Subset
    <2>2. ASSUME T = {} PROVE FALSE
        <3>1. SumFunctionOnSet(f, T) = 0 /\ SumFunctionOnSet(g, T) = 0 /\ SumFunctionOnSet(h, T) = 0
            BY <2>2, SumEmpty
        <3>2. T \notin B
            BY <3>1
        <3> QED BY <3>2
    <2> QED BY <2>1, <2>2
<1>3. PICK x \in T : TRUE
    BY <1>2
<1> DEFINE U == T \ {x}
<1>4. U \notin B /\ U \in SUBSET S
    BY <1>1, <1>2, LessOne
<1>5. SumFunctionOnSet(h, U) = SumFunctionOnSet(f, U) + SumFunctionOnSet(g, U)
    BY <1>4
<1>6. IsFiniteSet(U) /\ \A y \in T : f[y] \in Int /\ g[y] \in Int /\ h[y] \in Int /\ h[y] = f[y] + g[y]
    BY <1>2, LessOne
<1>7. /\ SumFunctionOnSet(f, T) = f[x] + SumFunctionOnSet(f, U)
      /\ SumFunctionOnSet(g, T) = g[x] + SumFunctionOnSet(g, U)
      /\ SumFunctionOnSet(h, T) = h[x] + SumFunctionOnSet(h, U)
    BY <1>2, <1>6, SumRemove
<1>8. SumFunctionOnSet(f, U) \in Int /\ SumFunctionOnSet(g, U) \in Int
    BY <1>6, SumInt
<1>9. T \notin B
    BY <1>5, <1>6, <1>7, <1>8
<1> QED BY <1>9
=============================================================================
