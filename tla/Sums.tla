-------------------------------- MODULE Sums --------------------------------
(***************************************************************************)
(* Facts about SumFunctionOnSet, the sum of a function over a finite set.  *)
(*                                                                         *)
(* Its definition is a recursive function on the subsets of the set, which *)
(* takes the elements one by one in some order.  The facts are proved by   *)
(* induction on finite sets, with the induction hypothesis as a set, Good, *)
(* of the subsets that have the property.                                  *)
(***************************************************************************)
EXTENDS Integers, FiniteSets, Functions, FiniteSetTheorems, TLAPS

(* A set of subsets that contains each one whose proper subsets it         *)
(* contains has all of them.                                               *)
LEMMA StrongInduction ==
    ASSUME NEW S, IsFiniteSet(S), NEW Good,
           \A T \in SUBSET S : (\A U \in SUBSET T : U # T => U \in Good) => T \in Good
    PROVE  \A T \in SUBSET S : T \in Good
<1>1. SUFFICES ASSUME NEW B \in SUBSET S, B \notin Good PROVE FALSE
    OBVIOUS
<1> DEFINE Bad == {T \in SUBSET S : T \notin Good}
<1>2. IsWellFoundedOn(StrictSubsetOrdering(S), SUBSET S)
    BY FS_StrictSubsetOrderingWellFounded, FS_FiniteSubsetsOfFinite
<1>3. Bad \subseteq SUBSET S /\ Bad # {}
    BY <1>1
<1> HIDE DEF Bad
<1>4. PICK T \in Bad : \A U \in Bad : ~(<<U, T>> \in StrictSubsetOrdering(S))
    BY <1>2, <1>3, WFMin
<1>5. \A U \in SUBSET T : U # T => U \in Good
    BY <1>3, <1>4 DEF StrictSubsetOrdering, Bad
<1> QED BY <1>4, <1>5 DEF Bad

(* A set of subsets with the empty one that grows element by element.      *)
LEMMA FiniteInduction ==
    ASSUME NEW S, IsFiniteSet(S), NEW Good, {} \in Good,
           \A T \in SUBSET S : \A x \in S \ T : T \in Good => T \cup {x} \in Good
    PROVE  S \in Good
<1>1. ASSUME NEW T \in SUBSET S, \A U \in SUBSET T : U # T => U \in Good
      PROVE  T \in Good
    <2>1. CASE T = {}
        BY <2>1
    <2>2. CASE T # {}
        <3>1. PICK x \in T : TRUE
            BY <2>2
        <3>2. T \ {x} \in Good /\ x \in S \ (T \ {x}) /\ (T \ {x}) \cup {x} = T
            BY <1>1, <3>1
        <3> QED BY <3>2
    <2> QED BY <2>1, <2>2
<1> QED BY <1>1, StrongInduction

LEMMA NaturalInduction ==
    ASSUME NEW Good, 0 \in Good, \A n \in Nat : n \in Good => n + 1 \in Good, NEW m \in Nat
    PROVE  m \in Good
<1> DEFINE Sets == {T \in SUBSET (1 .. m) : Cardinality(T) \in Good}
<1>1. IsFiniteSet(1 .. m) /\ Cardinality(1 .. m) = m
    BY FS_Interval
<1>2. {} \in Sets
    BY FS_EmptySet
<1>3. ASSUME NEW T \in SUBSET (1 .. m), NEW x \in (1 .. m) \ T, T \in Sets
      PROVE  T \cup {x} \in Sets
    <2>1. IsFiniteSet(T) /\ Cardinality(T) \in Nat
        BY <1>1, FS_Subset, FS_CardinalityType
    <2>2. Cardinality(T \cup {x}) = Cardinality(T) + 1
        BY <2>1, FS_AddElement
    <2> QED BY <1>3, <2>1, <2>2
<1>4. 1 .. m \in Sets
    <2> HIDE DEF Sets
    <2> QED BY <1>1, <1>2, <1>3, FiniteInduction
<1> QED BY <1>1, <1>4

-----------------------------------------------------------------------------
(* The recursive function of the definition.                               *)
Pick(s) == CHOOSE x \in s : TRUE
PartialSum(fun, s, it) == IF s = {} THEN 0 ELSE fun[Pick(s)] + it[s \ {Pick(s)}]
PartialSums(fun, S, it) == it \in [SUBSET S -> Int] /\ \A s \in SUBSET S : it[s] = PartialSum(fun, s, it)

Summable(fun, S) == IsFiniteSet(S) /\ \A x \in S : fun[x] \in Int

LEMMA PickInSet == \A s : s # {} => Pick(s) \in s
BY DEF Pick

LEMMA SumsExist ==
    ASSUME NEW fun, NEW S, Summable(fun, S)
    PROVE  \E it : PartialSums(fun, S, it)
<1> DEFINE upTo(n, it) == \A s \in SUBSET S : Cardinality(s) <= n => it[s] = PartialSum(fun, s, it)
           Good == {n \in Nat : \E it \in [SUBSET S -> Int] : upTo(n, it)}
<1>1. \A s \in SUBSET S : IsFiniteSet(s) /\ Cardinality(s) \in Nat /\ Cardinality(s) <= Cardinality(S)
    BY FS_Subset, FS_CardinalityType DEF Summable
<1>2. 0 \in Good
    <2> DEFINE it == [s \in SUBSET S |-> 0]
    <2>1. it \in [SUBSET S -> Int]
        OBVIOUS
    <2>2. \A s \in SUBSET S : Cardinality(s) <= 0 => s = {}
        BY <1>1, FS_EmptySet
    <2>3. upTo(0, it)
        BY <2>2 DEF PartialSum
    <2> QED BY <2>1, <2>3
<1>3. ASSUME NEW n \in Nat, n \in Good PROVE n + 1 \in Good
    <2>1. PICK it \in [SUBSET S -> Int] : upTo(n, it)
        BY <1>3
    <2> DEFINE next == [s \in SUBSET S |-> IF Cardinality(s) <= n THEN it[s] ELSE PartialSum(fun, s, it)]
    <2>2. ASSUME NEW s \in SUBSET S PROVE PartialSum(fun, s, it) \in Int
        BY PickInSet DEF PartialSum, Summable
    <2>3. next \in [SUBSET S -> Int]
        BY <2>2
    <2>4. ASSUME NEW s \in SUBSET S, Cardinality(s) <= n + 1
          PROVE  next[s] = PartialSum(fun, s, it) /\ PartialSum(fun, s, next) = PartialSum(fun, s, it)
        <3>1. next[s] = PartialSum(fun, s, it)
            BY <2>1
        <3>2. CASE s = {}
            BY <3>1, <3>2 DEF PartialSum
        <3>3. CASE s # {}
            <4>1. Pick(s) \in s /\ s \ {Pick(s)} \in SUBSET S
                BY <3>3, PickInSet
            <4>2. Cardinality(s \ {Pick(s)}) <= n
                BY <1>1, <2>4, <4>1, FS_RemoveElement
            <4> QED BY <3>1, <3>3, <4>1, <4>2 DEF PartialSum
        <3> QED BY <3>2, <3>3
    <2>5. upTo(n + 1, next)
        BY <2>4
    <2> HIDE DEF next, upTo
    <2> QED BY <2>3, <2>5
<1>4. Cardinality(S) \in Good
    <2> HIDE DEF Good
    <2> QED BY <1>1, <1>2, <1>3, NaturalInduction
<1> QED BY <1>1, <1>4 DEF PartialSums

LEMMA SumsAgree ==
    ASSUME NEW fun, NEW S, NEW T \in SUBSET S, IsFiniteSet(S),
           NEW it, NEW jt, PartialSums(fun, S, it), PartialSums(fun, T, jt)
    PROVE  it[T] = jt[T]
<1> DEFINE Good == {s \in SUBSET T : it[s] = jt[s]}
<1>1. ASSUME NEW s \in SUBSET T, \A u \in SUBSET s : u # s => u \in Good
      PROVE  s \in Good
    <2>1. CASE s = {}
        BY <2>1 DEF PartialSums, PartialSum
    <2>2. CASE s # {}
        <3>1. s \ {Pick(s)} \in SUBSET s /\ s \ {Pick(s)} # s
            BY <2>2, PickInSet
        <3>2. it[s \ {Pick(s)}] = jt[s \ {Pick(s)}]
            BY <1>1, <3>1
        <3> QED BY <2>2, <3>2 DEF PartialSums, PartialSum
    <2> QED BY <2>1, <2>2
<1>2. IsFiniteSet(T)
    BY FS_Subset
<1>3. T \in Good
    <2> HIDE DEF Good
    <2> QED BY <1>1, <1>2, StrongInduction
<1> QED BY <1>3

LEMMA SumIsPartial ==
    ASSUME NEW fun, NEW S, Summable(fun, S)
    PROVE  \E it : PartialSums(fun, S, it) /\ SumFunctionOnSet(fun, S) = it[S]
<1>1. PICK it : PartialSums(fun, S, it)
    BY SumsExist
<1>2. it = [s \in SUBSET S |-> PartialSum(fun, s, it)]
    BY <1>1 DEF PartialSums
<1>3. SumFunctionOnSet(fun, S) =
        (CHOOSE jt : jt = [s \in SUBSET S |-> IF s = {} THEN 0
                                              ELSE fun[CHOOSE x \in s : TRUE] + jt[s \ {CHOOSE x \in s : TRUE}]])[S]
    BY DEF SumFunctionOnSet, FoldFunctionOnSet, MapThenFoldSet
<1>4. PICK jt : jt = [s \in SUBSET S |-> PartialSum(fun, s, jt)] /\ SumFunctionOnSet(fun, S) = jt[S]
    BY <1>2, <1>3 DEF PartialSum, Pick
<1> DEFINE Good == {s \in SUBSET S : jt[s] = it[s]}
<1>5. ASSUME NEW s \in SUBSET S, \A u \in SUBSET s : u # s => u \in Good
      PROVE  s \in Good
    <2>1. CASE s = {}
        BY <1>1, <1>4, <2>1 DEF PartialSums, PartialSum
    <2>2. CASE s # {}
        <3>1. s \ {Pick(s)} \in SUBSET s /\ s \ {Pick(s)} # s
            BY <2>2, PickInSet
        <3>2. it[s \ {Pick(s)}] = jt[s \ {Pick(s)}]
            BY <1>5, <3>1
        <3>3. jt[s] = PartialSum(fun, s, jt) /\ it[s] = PartialSum(fun, s, it)
            BY <1>1, <1>4 DEF PartialSums
        <3> QED BY <2>2, <3>2, <3>3 DEF PartialSum
    <2> QED BY <2>1, <2>2
<1>6. S \in Good
    <2> HIDE DEF Good
    <2> QED BY <1>5, StrongInduction DEF Summable
<1> QED BY <1>1, <1>4, <1>6

-----------------------------------------------------------------------------
(* What the other modules use.                                             *)
LEMMA SumOfNone ==
    ASSUME NEW fun
    PROVE  SumFunctionOnSet(fun, {}) = 0
<1>1. PICK it : PartialSums(fun, {}, it) /\ SumFunctionOnSet(fun, {}) = it[{}]
    BY SumIsPartial, FS_EmptySet DEF Summable
<1> QED BY <1>1 DEF PartialSums, PartialSum

LEMMA SumIsInt ==
    ASSUME NEW fun, NEW S, Summable(fun, S)
    PROVE  SumFunctionOnSet(fun, S) \in Int
<1>1. PICK it : PartialSums(fun, S, it) /\ SumFunctionOnSet(fun, S) = it[S]
    BY SumIsPartial
<1> QED BY <1>1 DEF PartialSums

(* Any element may be taken out first.                                     *)
LEMMA SumWithout ==
    ASSUME NEW fun, NEW S, Summable(fun, S), NEW x \in S
    PROVE  SumFunctionOnSet(fun, S) = fun[x] + SumFunctionOnSet(fun, S \ {x})
<1>1. PICK it : PartialSums(fun, S, it) /\ SumFunctionOnSet(fun, S) = it[S]
    BY SumIsPartial
<1>2. Summable(fun, S \ {x})
    BY FS_RemoveElement DEF Summable
<1>3. PICK jt : PartialSums(fun, S \ {x}, jt) /\ SumFunctionOnSet(fun, S \ {x}) = jt[S \ {x}]
    BY <1>2, SumIsPartial
<1>4. it[S \ {x}] = jt[S \ {x}]
    BY <1>1, <1>3, SumsAgree DEF Summable
<1> DEFINE Good == {T \in SUBSET S : \A y \in T : it[T] = fun[y] + it[T \ {y}]}
<1>5. ASSUME NEW T \in SUBSET S, \A U \in SUBSET T : U # T => U \in Good
      PROVE  T \in Good
    <2> SUFFICES ASSUME NEW y \in T PROVE it[T] = fun[y] + it[T \ {y}]
        OBVIOUS
    <2>1. PICK p : p = Pick(T) /\ p \in T
        BY PickInSet
    <2>2. it[T] = fun[p] + it[T \ {p}]
        BY <1>1, <2>1 DEF PartialSums, PartialSum
    <2>3. CASE y = p
        BY <2>2, <2>3
    <2>4. CASE y # p
        <3>1. it[T \ {p}] = fun[y] + it[(T \ {p}) \ {y}]
            <4>1. T \ {p} \in Good /\ y \in T \ {p}
                BY <1>5, <2>1, <2>4
            <4> QED BY <4>1
        <3>2. it[T \ {y}] = fun[p] + it[(T \ {y}) \ {p}]
            <4>1. T \ {y} \in Good /\ p \in T \ {y}
                BY <1>5, <2>1, <2>4
            <4> QED BY <4>1
        <3>3. (T \ {p}) \ {y} = (T \ {y}) \ {p} /\ (T \ {p}) \ {y} \in SUBSET S
            OBVIOUS
        <3>4. fun[p] \in Int /\ fun[y] \in Int /\ it[(T \ {p}) \ {y}] \in Int
            BY <1>1, <2>1, <3>3 DEF PartialSums, Summable
        <3>5. PICK r \in Int : it[(T \ {p}) \ {y}] = r /\ it[(T \ {y}) \ {p}] = r
            BY <3>3, <3>4
        <3>6. it[T] = fun[p] + (fun[y] + r) /\ it[T \ {y}] = fun[p] + r
            BY <2>2, <3>1, <3>2, <3>5
        <3> QED BY <3>4, <3>6
    <2> QED BY <2>3, <2>4
<1>6. S \in Good
    <2> HIDE DEF Good
    <2> QED BY <1>5, StrongInduction DEF Summable
<1> QED BY <1>1, <1>3, <1>4, <1>6

LEMMA SumWith ==
    ASSUME NEW fun, NEW S, NEW x, x \notin S, Summable(fun, S \cup {x})
    PROVE  SumFunctionOnSet(fun, S \cup {x}) = SumFunctionOnSet(fun, S) + fun[x]
<1>1. (S \cup {x}) \ {x} = S /\ x \in S \cup {x}
    OBVIOUS
<1>2. Summable(fun, S)
    BY FS_Subset DEF Summable
<1>3. SumFunctionOnSet(fun, S) \in Int /\ fun[x] \in Int
    BY <1>2, SumIsInt DEF Summable
<1>4. SumFunctionOnSet(fun, S \cup {x}) = fun[x] + SumFunctionOnSet(fun, S)
    BY <1>1, SumWithout
<1> QED BY <1>3, <1>4

(* A sum of sums.                                                          *)
LEMMA SumOfPlus ==
    ASSUME NEW f, NEW g, NEW h, NEW S, Summable(f, S), Summable(g, S), \A x \in S : h[x] = f[x] + g[x]
    PROVE  SumFunctionOnSet(h, S) = SumFunctionOnSet(f, S) + SumFunctionOnSet(g, S)
<1> DEFINE Good == {T \in SUBSET S : SumFunctionOnSet(h, T) = SumFunctionOnSet(f, T) + SumFunctionOnSet(g, T)}
<1>1. {} \in Good
    BY SumOfNone
<1>2. ASSUME NEW T \in SUBSET S, NEW x \in S \ T, T \in Good
      PROVE  T \cup {x} \in Good
    <2>1. IsFiniteSet(T) /\ IsFiniteSet(T \cup {x}) /\ T \cup {x} \in SUBSET S
        BY FS_Subset DEF Summable
    <2>2. /\ Summable(f, T \cup {x}) /\ Summable(g, T \cup {x}) /\ Summable(h, T \cup {x})
          /\ Summable(f, T) /\ Summable(g, T)
        BY <2>1 DEF Summable
    <2>3. /\ SumFunctionOnSet(f, T) \in Int /\ SumFunctionOnSet(g, T) \in Int
          /\ f[x] \in Int /\ g[x] \in Int /\ h[x] = f[x] + g[x]
        BY <2>2, SumIsInt DEF Summable
    <2>4. /\ SumFunctionOnSet(f, T \cup {x}) = SumFunctionOnSet(f, T) + f[x]
          /\ SumFunctionOnSet(g, T \cup {x}) = SumFunctionOnSet(g, T) + g[x]
          /\ SumFunctionOnSet(h, T \cup {x}) = SumFunctionOnSet(h, T) + h[x]
        BY <2>2, SumWith
    <2>5. SumFunctionOnSet(h, T) = SumFunctionOnSet(f, T) + SumFunctionOnSet(g, T)
        BY <1>2
    <2>6. SumFunctionOnSet(h, T \cup {x}) = SumFunctionOnSet(f, T \cup {x}) + SumFunctionOnSet(g, T \cup {x})
        BY <2>3, <2>4, <2>5
    <2> QED BY <2>1, <2>6
<1>3. S \in Good
    <2> HIDE DEF Good
    <2> QED BY <1>1, <1>2, FiniteInduction DEF Summable
<1> QED BY <1>3

LEMMA SumIsMonotone ==
    ASSUME NEW f, NEW g, NEW S, Summable(f, S), Summable(g, S), \A x \in S : f[x] <= g[x]
    PROVE  SumFunctionOnSet(f, S) <= SumFunctionOnSet(g, S)
<1> DEFINE Good == {T \in SUBSET S : SumFunctionOnSet(f, T) <= SumFunctionOnSet(g, T)}
<1>1. {} \in Good
    BY SumOfNone
<1>2. ASSUME NEW T \in SUBSET S, NEW x \in S \ T, T \in Good
      PROVE  T \cup {x} \in Good
    <2>1. IsFiniteSet(T) /\ IsFiniteSet(T \cup {x}) /\ T \cup {x} \in SUBSET S
        BY FS_Subset DEF Summable
    <2>2. /\ Summable(f, T \cup {x}) /\ Summable(g, T \cup {x}) /\ Summable(f, T) /\ Summable(g, T)
        BY <2>1 DEF Summable
    <2>3. /\ SumFunctionOnSet(f, T) \in Int /\ SumFunctionOnSet(g, T) \in Int
          /\ f[x] \in Int /\ g[x] \in Int /\ f[x] <= g[x]
        BY <2>2, SumIsInt DEF Summable
    <2>4. /\ SumFunctionOnSet(f, T \cup {x}) = SumFunctionOnSet(f, T) + f[x]
          /\ SumFunctionOnSet(g, T \cup {x}) = SumFunctionOnSet(g, T) + g[x]
        BY <2>2, SumWith
    <2>5. SumFunctionOnSet(f, T) <= SumFunctionOnSet(g, T)
        BY <1>2
    <2>6. SumFunctionOnSet(f, T \cup {x}) <= SumFunctionOnSet(g, T \cup {x})
        BY <2>3, <2>4, <2>5
    <2> QED BY <2>1, <2>6
<1>3. S \in Good
    <2> HIDE DEF Good
    <2> QED BY <1>1, <1>2, FiniteInduction DEF Summable
<1> QED BY <1>3

LEMMA SumsOfEqual ==
    ASSUME NEW f, NEW g, NEW S, Summable(f, S), \A x \in S : f[x] = g[x]
    PROVE  SumFunctionOnSet(f, S) = SumFunctionOnSet(g, S)
<1>1. Summable(g, S)
    BY DEF Summable
<1>2. SumFunctionOnSet(f, S) \in Int /\ SumFunctionOnSet(g, S) \in Int
    BY <1>1, SumIsInt
<1>3. (\A x \in S : f[x] <= g[x]) /\ (\A x \in S : g[x] <= f[x])
    BY DEF Summable
<1>4. SumFunctionOnSet(f, S) <= SumFunctionOnSet(g, S) /\ SumFunctionOnSet(g, S) <= SumFunctionOnSet(f, S)
    BY <1>1, <1>3, SumIsMonotone
<1> QED BY <1>2, <1>4

(* Elements that are 0 may be left out.                                    *)
LEMMA SumOfPart ==
    ASSUME NEW f, NEW S, NEW T \in SUBSET S, Summable(f, S), \A x \in S \ T : f[x] = 0
    PROVE  SumFunctionOnSet(f, S) = SumFunctionOnSet(f, T)
<1> DEFINE Good == {U \in SUBSET (S \ T) : SumFunctionOnSet(f, T \cup U) = SumFunctionOnSet(f, T)}
<1>1. {} \in Good
    BY Zenon
<1>2. ASSUME NEW U \in SUBSET (S \ T), NEW x \in (S \ T) \ U, U \in Good
      PROVE  U \cup {x} \in Good
    <2>1. T \cup (U \cup {x}) = (T \cup U) \cup {x} /\ x \notin T \cup U
        OBVIOUS
    <2>2. Summable(f, (T \cup U) \cup {x}) /\ Summable(f, T \cup U)
        BY FS_Subset DEF Summable
    <2>3. SumFunctionOnSet(f, (T \cup U) \cup {x}) = SumFunctionOnSet(f, T \cup U) + f[x]
        BY <2>1, <2>2, SumWith
    <2>4. f[x] = 0 /\ SumFunctionOnSet(f, T \cup U) \in Int
        BY <2>2, SumIsInt
    <2>5. SumFunctionOnSet(f, T \cup (U \cup {x})) = SumFunctionOnSet(f, T)
        BY <1>2, <2>1, <2>3, <2>4
    <2> QED BY <2>5
<1>3. S \ T \in Good
    <2>1. IsFiniteSet(S \ T)
        BY FS_Subset DEF Summable
    <2> HIDE DEF Good
    <2> QED BY <1>1, <1>2, <2>1, FiniteInduction
<1>4. T \cup (S \ T) = S
    OBVIOUS
<1> QED BY <1>3, <1>4

LEMMA SumIsNat ==
    ASSUME NEW f, NEW S, IsFiniteSet(S), \A x \in S : f[x] \in Nat
    PROVE  SumFunctionOnSet(f, S) \in Nat
<1> DEFINE none == [x \in S |-> 0]
<1>1. Summable(f, S) /\ Summable(none, S) /\ \A x \in S : none[x] <= f[x]
    BY DEF Summable
<1>2. SumFunctionOnSet(none, S) = 0
    BY <1>1, SumOfPart, SumOfNone
<1>3. 0 <= SumFunctionOnSet(f, S) /\ SumFunctionOnSet(f, S) \in Int
    <2> HIDE DEF none
    <2> QED BY <1>1, <1>2, SumIsMonotone, SumIsInt
<1> QED BY <1>3

LEMMA SumOfFewer ==
    ASSUME NEW f, NEW S, NEW T \in SUBSET S, IsFiniteSet(S), \A x \in S : f[x] \in Nat
    PROVE  SumFunctionOnSet(f, T) <= SumFunctionOnSet(f, S)
<1> DEFINE g == [x \in S |-> IF x \in T THEN f[x] ELSE 0]
<1>1. Summable(f, S) /\ Summable(g, S) /\ Summable(f, T)
    BY FS_Subset DEF Summable
<1>2. (\A x \in S : g[x] <= f[x]) /\ (\A x \in S \ T : g[x] = 0) /\ \A x \in T : f[x] = g[x]
    OBVIOUS
<1> HIDE DEF g
<1>3. SumFunctionOnSet(g, S) <= SumFunctionOnSet(f, S)
    BY <1>1, <1>2, SumIsMonotone
<1>4. SumFunctionOnSet(g, S) = SumFunctionOnSet(g, T)
    BY <1>1, <1>2, SumOfPart
<1>5. SumFunctionOnSet(f, T) = SumFunctionOnSet(g, T)
    BY <1>1, <1>2, SumsOfEqual
<1> QED BY <1>3, <1>4, <1>5

=============================================================================
