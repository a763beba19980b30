---------------------------- MODULE SumTheorems ----------------------------
(***************************************************************************)
(* What a fold over a finite set is worth: it exists, and a sum does not   *)
(* depend on the order it is taken in.  The library's induction theorems   *)
(* take an operator, which no prover here can instantiate, so induction is *)
(* stated over sets: of naturals, and of subsets of a finite set.          *)
(***************************************************************************)
EXTENDS Integers, Functions, FiniteSetTheorems, WellFoundedInduction, TLAPS

-----------------------------------------------------------------------------
(* Induction. *)

LessThan == {p \in Nat \X Nat : p[1] < p[2]}

LEMMA LessThanIsWellFounded == IsWellFoundedOn(LessThan, Nat)
<1>1. LessThan = OpToRel(<, Nat)
  BY DEF LessThan, OpToRel
<1>2. QED
  BY <1>1, NatLessThanWellFounded, Zenon

LEMMA LeastOfSome ==
  ASSUME NEW T \in SUBSET Nat, T # {}
  PROVE  \E n \in T : \A m \in T : n <= m
<1>1. PICK n \in T : \A m \in T : <<m, n>> \notin LessThan
  BY LessThanIsWellFounded, WFMin, Zenon
<1>2. \A m \in Nat : m < n => <<m, n>> \in LessThan
  BY DEF LessThan
<1>3. \A m \in T : ~(m < n)
  BY <1>1, <1>2
<1>4. QED
  BY <1>3

LEMMA NatInduct ==
  ASSUME NEW T \in SUBSET Nat, 0 \in T, \A n \in T : n + 1 \in T
  PROVE  \A n \in Nat : n \in T
<1>1. SUFFICES ASSUME Nat \ T # {}
               PROVE  FALSE
  OBVIOUS
<1>2. PICK n \in Nat \ T : \A m \in Nat \ T : n <= m
  BY <1>1, LeastOfSome
<1>3. QED
  BY <1>2

\* T has the empty set, and a subset of S if it has it without the element c picks.
PickInductive(T, c, S) ==
    /\ T \in SUBSET SUBSET S
    /\ {} \in T
    /\ \A s \in SUBSET S : s # {} => c[s] \in s /\ (s \ {c[s]} \in T => s \in T)

\* Such a T has every subset.
LEMMA PickInduct ==
  ASSUME NEW S, IsFiniteSet(S), NEW T, NEW c, PickInductive(T, c, S)
  PROVE  \A s \in SUBSET S : s \in T
<1> USE DEF PickInductive
<1> DEFINE N == {n \in Nat : \A s \in SUBSET S : Cardinality(s) = n => s \in T}
<1>1. \A s \in SUBSET S : IsFiniteSet(s) /\ Cardinality(s) \in Nat
  BY FS_Subset, FS_CardinalityType
<1>2. 0 \in N
  BY <1>1, FS_EmptySet
<1>3. \A n \in N : n + 1 \in N
  <2> SUFFICES ASSUME NEW n \in N, NEW s \in SUBSET S, Cardinality(s) = n + 1
               PROVE  s \in T
    OBVIOUS
  <2>1. s # {}
    <3>1. n + 1 # 0
      OBVIOUS
    <3>2. QED
      BY <3>1, FS_EmptySet
  <2>2. c[s] \in s
    BY <2>1
  <2>3. Cardinality(s \ {c[s]}) = n
    <3>1. Cardinality(s \ {c[s]}) = Cardinality(s) - 1
      BY <1>1, <2>2, FS_RemoveElement
    <3>2. QED
      BY <3>1
  <2>4. s \ {c[s]} \in T
    BY <2>3
  <2>5. QED
    BY <2>1, <2>4
<1>4. \A n \in Nat : n \in N
  <2>1. N \in SUBSET Nat
    OBVIOUS
  <2> HIDE DEF N
  <2>2. QED
    BY <1>2, <1>3, <2>1, NatInduct
<1>5. QED
  BY <1>1, <1>4

Some(s) == CHOOSE x \in s : TRUE

LEMMA SomeIsIn ==
  ASSUME NEW s, s # {}
  PROVE  Some(s) \in s
  BY DEF Some

\* What holds of no element and is kept by each element added holds of all.
LEMMA SetInduct ==
  ASSUME NEW S, IsFiniteSet(S),
         NEW T \in SUBSET SUBSET S,
         {} \in T,
         \A s \in T : \A x \in S \ s : s \cup {x} \in T
  PROVE  S \in T
<1> DEFINE N == {n \in Nat : \A s \in SUBSET S : Cardinality(s) = n => s \in T}
<1>1. \A s \in SUBSET S : IsFiniteSet(s) /\ Cardinality(s) \in Nat
  BY FS_Subset, FS_CardinalityType
<1>2. 0 \in N
  BY <1>1, FS_EmptySet
<1>3. \A n \in N : n + 1 \in N
  <2> SUFFICES ASSUME NEW n \in N, NEW s \in SUBSET S, Cardinality(s) = n + 1
               PROVE  s \in T
    OBVIOUS
  <2>1. s # {}
    <3>1. Cardinality(s) # 0
      <4>1. n \in Nat
        OBVIOUS
      <4>2. QED
        BY <4>1
    <3>2. QED
      BY <3>1, FS_EmptySet
  <2>2. PICK x \in s : TRUE
    BY <2>1
  <2>3. Cardinality(s \ {x}) = n
    BY <1>1, FS_RemoveElement
  <2>4. s \ {x} \in T
    BY <2>3
  <2>5. (s \ {x}) \cup {x} = s
    OBVIOUS
  <2>6. QED
    BY <2>4, <2>5
<1> HIDE DEF N
<1>4. N \in SUBSET Nat
  BY DEF N
<1>5. \A n \in Nat : n \in N
  BY <1>2, <1>3, <1>4, NatInduct
<1>6. QED
  BY <1>1, <1>5 DEF N

-----------------------------------------------------------------------------
(* Folds. *)

\* g folds "step" over the subsets of S, taking the elements c picks.
FoldsOver(g, S, base, step, c) ==
    \A s \in SUBSET S :
        g[s] = IF s = {} THEN base ELSE step[c[s]][g[s \ {c[s]}]]

\* The recursive function that defines a fold exists.
LEMMA FoldExists ==
  ASSUME NEW S, IsFiniteSet(S),
         NEW V, NEW base \in V,
         NEW step, \A v \in V : \A x \in S : step[x][v] \in V,
         NEW c, \A s \in SUBSET S : s # {} => c[s] \in s
  PROVE  \E g \in [SUBSET S -> V] : FoldsOver(g, S, base, step, c)
<1> DEFINE D(n) == {s \in SUBSET S : Cardinality(s) <= n}
           F(g, n) == \A s \in D(n) :
                        g[s] = IF s = {} THEN base ELSE step[c[s]][g[s \ {c[s]}]]
           N == {n \in Nat : \E g \in [D(n) -> V] : F(g, n)}
<1>1. \A s \in SUBSET S : IsFiniteSet(s) /\ Cardinality(s) \in Nat
  BY FS_Subset, FS_CardinalityType
<1>2. \A n \in Nat : \A s \in D(n + 1) : s # {} => c[s] \in S /\ s \ {c[s]} \in D(n)
  <2> SUFFICES ASSUME NEW n \in Nat, NEW s \in D(n + 1), s # {}
               PROVE  c[s] \in S /\ s \ {c[s]} \in D(n)
    OBVIOUS
  <2>1. c[s] \in s
    OBVIOUS
  <2>2. Cardinality(s \ {c[s]}) = Cardinality(s) - 1
    BY <1>1, <2>1, FS_RemoveElement
  <2>3. Cardinality(s \ {c[s]}) <= n
    <3>1. Cardinality(s) \in Nat /\ Cardinality(s) <= n + 1
      BY <1>1
    <3>2. QED
      BY <2>2, <3>1
  <2>4. c[s] \in S /\ s \ {c[s]} \in SUBSET S
    BY <2>1
  <2>5. QED
    BY <2>3, <2>4
<1>3. 0 \in N
  <2> DEFINE g == [s \in D(0) |-> base]
  <2>1. \A s \in D(0) : s = {}
    <3> TAKE s \in D(0)
    <3>1. IsFiniteSet(s) /\ Cardinality(s) \in Nat /\ Cardinality(s) <= 0
      BY <1>1
    <3>2. Cardinality(s) = 0
      BY <3>1
    <3>3. QED
      BY <3>1, <3>2, FS_EmptySet
  <2>2. g \in [D(0) -> V] /\ F(g, 0)
    BY <2>1
  <2>3. QED
    BY <2>2
<1>4. \A n \in N : n + 1 \in N
  <2> SUFFICES ASSUME NEW n \in N
               PROVE  n + 1 \in N
    OBVIOUS
  <2>1. n \in Nat
    OBVIOUS
  <2>2. PICK g \in [D(n) -> V] : F(g, n)
    OBVIOUS
  <2> DEFINE h == [s \in D(n + 1) |-> IF s = {} THEN base ELSE step[c[s]][g[s \ {c[s]}]]]
  <2>3. h \in [D(n + 1) -> V]
    BY <1>2, <2>1
  <2>4. \A s \in D(n) : s \in D(n + 1)
    <3> TAKE s \in D(n)
    <3>1. s \in SUBSET S /\ Cardinality(s) \in Nat /\ Cardinality(s) <= n
      BY <1>1
    <3>2. Cardinality(s) <= n + 1
      BY <2>1, <3>1
    <3>3. QED
      BY <3>1, <3>2
  <2>5. \A s \in D(n) : h[s] = g[s]
    BY <2>2, <2>4
  <2>6. F(h, n + 1)
    <3> SUFFICES ASSUME NEW s \in D(n + 1)
                 PROVE  h[s] = IF s = {} THEN base ELSE step[c[s]][h[s \ {c[s]}]]
      OBVIOUS
    <3>1. CASE s = {}
      BY <3>1
    <3>2. CASE s # {}
      <4>1. s \ {c[s]} \in D(n)
        BY <1>2, <2>1, <3>2
      <4>2. h[s \ {c[s]}] = g[s \ {c[s]}]
        BY <4>1, <2>5
      <4>3. QED
        BY <3>2, <4>2
    <3>3. QED
      BY <3>1, <3>2
  <2>7. \E f \in [D(n + 1) -> V] : F(f, n + 1)
    BY <2>3, <2>6
  <2>8. n + 1 \in Nat
    BY <2>1
  <2> HIDE DEF D, F, h
  <2>9. QED
    BY <2>7, <2>8
<1>5. \A n \in Nat : n \in N
  <2>1. N \in SUBSET Nat
    OBVIOUS
  <2> HIDE DEF N
  <2>2. QED
    BY <1>3, <1>4, <2>1, NatInduct
<1>6. PICK n \in Nat : n = Cardinality(S)
  BY <1>1
<1>7. D(n) = SUBSET S
  BY <1>1, <1>6, FS_Subset
<1>8. PICK g \in [D(n) -> V] : F(g, n)
  BY <1>5
<1>9. g \in [SUBSET S -> V]
  BY <1>7, <1>8
<1>10. FoldsOver(g, S, base, step, c)
  BY <1>7, <1>8 DEF FoldsOver
<1>11. QED
  BY <1>9, <1>10

-----------------------------------------------------------------------------
(* Sums. *)

AllInts(f, S) == \A x \in S : f[x] \in Int

\* g sums f over the subsets of S the way the library's operator does.
SumsUp(g, f, S) ==
    \A s \in SUBSET S : g[s] = IF s = {} THEN 0 ELSE f[Some(s)] + g[s \ {Some(s)}]

IsSum(g, f, S) ==
    g = [s \in SUBSET S |-> IF s = {} THEN 0 ELSE f[Some(s)] + g[s \ {Some(s)}]]

\* A sum over a set does not depend on the larger set it is computed in.
LEMMA SumsAgree ==
  ASSUME NEW S, IsFiniteSet(S), NEW R, S \subseteq R,
         NEW f, NEW g, SumsUp(g, f, S), NEW h, SumsUp(h, f, R)
  PROVE  g[S] = h[S]
<1> DEFINE T == {s \in SUBSET S : g[s] = h[s]}
           c == [s \in SUBSET S |-> Some(s)]
<1>1. \A s \in SUBSET S :
        /\ g[s] = IF s = {} THEN 0 ELSE f[Some(s)] + g[s \ {Some(s)}]
        /\ h[s] = IF s = {} THEN 0 ELSE f[Some(s)] + h[s \ {Some(s)}]
  BY DEF SumsUp
<1>2. {} \in T
  BY <1>1
<1>3. \A s \in SUBSET S : s # {} => c[s] \in s /\ (s \ {c[s]} \in T => s \in T)
  BY <1>1, SomeIsIn
<1>4. T \in SUBSET SUBSET S
  OBVIOUS
<1> HIDE DEF T, c
<1>5. PickInductive(T, c, S)
  BY <1>2, <1>3, <1>4 DEF PickInductive
<1>6. \A s \in SUBSET S : s \in T
  BY <1>5, PickInduct
<1>7. QED
  BY <1>6 DEF T

LEMMA SumsUpExists ==
  ASSUME NEW S, IsFiniteSet(S), NEW f, AllInts(f, S)
  PROVE  \E g \in [SUBSET S -> Int] : IsSum(g, f, S)
<1> DEFINE step == [x \in S |-> [v \in Int |-> f[x] + v]]
           c == [s \in SUBSET S |-> Some(s)]
<1>1. \A v \in Int : \A x \in S : step[x][v] \in Int
  BY DEF AllInts
<1>2. \A s \in SUBSET S : s # {} => c[s] \in s
  BY SomeIsIn
<1>3. PICK g \in [SUBSET S -> Int] : FoldsOver(g, S, 0, step, c)
  <2>1. 0 \in Int
    OBVIOUS
  <2> HIDE DEF step, c
  <2>2. QED
    BY <1>1, <1>2, <2>1, FoldExists
<1>4. ASSUME NEW s \in SUBSET S
      PROVE  g[s] = IF s = {} THEN 0 ELSE f[Some(s)] + g[s \ {Some(s)}]
  <2>1. CASE s = {}
    BY <1>3, <2>1 DEF FoldsOver
  <2>2. CASE s # {}
    <3>1. Some(s) \in S /\ c[s] = Some(s)
      BY <1>2, <2>2
    <3>2. g[s \ {Some(s)}] \in Int
      BY <1>3
    <3>3. step[Some(s)][g[s \ {Some(s)}]] = f[Some(s)] + g[s \ {Some(s)}]
      BY <3>1, <3>2
    <3>4. g[s] = step[c[s]][g[s \ {c[s]}]]
      BY <1>3, <2>2 DEF FoldsOver
    <3>5. QED
      BY <2>2, <3>1, <3>3, <3>4
  <2>3. QED
    BY <2>1, <2>2
<1>5. g = [s \in SUBSET S |-> g[s]]
  BY <1>3
<1>6. IsSum(g, f, S)
  BY <1>4, <1>5 DEF IsSum
<1>7. QED
  BY <1>3, <1>6

LEMMA SumIs ==
  ASSUME NEW S, IsFiniteSet(S), NEW f, AllInts(f, S)
  PROVE  \E g \in [SUBSET S -> Int] :
            SumsUp(g, f, S) /\ SumFunctionOnSet(f, S) = g[S]
<1>1. PICK h \in [SUBSET S -> Int] : IsSum(h, f, S)
  BY SumsUpExists
<1> DEFINE g == CHOOSE g : IsSum(g, f, S)
<1>2. IsSum(g, f, S)
  BY <1>1, Zenon
<1>3. SumFunctionOnSet(f, S) = g[S]
  BY Zenon DEF SumFunctionOnSet, FoldFunctionOnSet, MapThenFoldSet, Some, IsSum
<1> HIDE DEF g
<1>4. SumsUp(g, f, S) /\ SumsUp(h, f, S)
  BY <1>1, <1>2 DEF SumsUp, IsSum
<1>5. ASSUME NEW s \in SUBSET S
      PROVE  g[s] \in Int
  <2>1. SumsUp(g, f, s)
    BY <1>4 DEF SumsUp
  <2>2. g[s] = h[s]
    BY <1>4, <2>1, SumsAgree, FS_Subset
  <2>3. QED
    BY <1>1, <2>2
<1>6. g \in [SUBSET S -> Int]
  BY <1>2, <1>5 DEF IsSum
<1>7. QED
  BY <1>3, <1>4, <1>6

LEMMA SumEmpty == \A f : SumFunctionOnSet(f, {}) = 0
<1> SUFFICES ASSUME NEW f
             PROVE  SumFunctionOnSet(f, {}) = 0
  OBVIOUS
<1>1. IsFiniteSet({}) /\ AllInts(f, {})
  BY FS_EmptySet DEF AllInts
<1>2. QED
  BY <1>1, SumIs DEF SumsUp

LEMMA SumIsInt ==
  ASSUME NEW S, IsFiniteSet(S), NEW f, AllInts(f, S)
  PROVE  SumFunctionOnSet(f, S) \in Int
<1>1. PICK g \in [SUBSET S -> Int] : SumFunctionOnSet(f, S) = g[S]
  BY SumIs
<1>2. QED
  BY <1>1

\* The same numbers have the same sum.
LEMMA SumSame ==
  ASSUME NEW S, IsFiniteSet(S), NEW f, AllInts(f, S),
         NEW g, \A x \in S : g[x] = f[x]
  PROVE  SumFunctionOnSet(g, S) = SumFunctionOnSet(f, S)
<1>1. AllInts(g, S)
  BY DEF AllInts
<1>2. PICK F \in [SUBSET S -> Int] : SumsUp(F, f, S) /\ SumFunctionOnSet(f, S) = F[S]
  BY SumIs
<1>3. PICK G \in [SUBSET S -> Int] : SumsUp(G, g, S) /\ SumFunctionOnSet(g, S) = G[S]
  BY <1>1, SumIs
<1>4. SumsUp(G, f, S)
  <2> SUFFICES ASSUME NEW s \in SUBSET S
               PROVE  G[s] = IF s = {} THEN 0 ELSE f[Some(s)] + G[s \ {Some(s)}]
    BY DEF SumsUp
  <2>1. G[s] = IF s = {} THEN 0 ELSE g[Some(s)] + G[s \ {Some(s)}]
    BY <1>3 DEF SumsUp
  <2>2. s # {} => g[Some(s)] = f[Some(s)]
    BY SomeIsIn
  <2>3. QED
    BY <2>1, <2>2
<1>5. G[S] = F[S]
  BY <1>2, <1>4, SumsAgree
<1>6. QED
  BY <1>2, <1>3, <1>5

LEMMA SumTakesSome ==
  ASSUME NEW S, IsFiniteSet(S), S # {}, NEW f, AllInts(f, S)
  PROVE  SumFunctionOnSet(f, S) = f[Some(S)] + SumFunctionOnSet(f, S \ {Some(S)})
<1> DEFINE R == S \ {Some(S)}
<1>1. IsFiniteSet(R) /\ R \subseteq S /\ AllInts(f, R)
  BY FS_Subset DEF AllInts
<1>2. PICK F \in [SUBSET S -> Int] : SumsUp(F, f, S) /\ SumFunctionOnSet(f, S) = F[S]
  BY SumIs
<1> HIDE DEF R
<1>3. PICK G \in [SUBSET R -> Int] : SumsUp(G, f, R) /\ SumFunctionOnSet(f, R) = G[R]
  BY <1>1, SumIs
<1>4. G[R] = F[R]
  BY <1>1, <1>2, <1>3, SumsAgree
<1>5. F[S] = f[Some(S)] + F[R]
  BY <1>2 DEF SumsUp, R
<1>6. QED
  BY <1>2, <1>3, <1>4, <1>5 DEF R

\* Whichever is taken first.
LEMMA SumTakes ==
  ASSUME NEW S, IsFiniteSet(S), NEW f, AllInts(f, S), NEW y \in S
  PROVE  SumFunctionOnSet(f, S) = f[y] + SumFunctionOnSet(f, S \ {y})
<1> DEFINE N == {n \in Nat : \A s \in SUBSET S : Cardinality(s) = n =>
                    \A x \in s : SumFunctionOnSet(f, s) = f[x] + SumFunctionOnSet(f, s \ {x})}
<1>1. \A s \in SUBSET S : IsFiniteSet(s) /\ Cardinality(s) \in Nat /\ AllInts(f, s)
  BY FS_Subset, FS_CardinalityType DEF AllInts
<1>2. 0 \in N
  BY <1>1, FS_EmptySet
<1>3. \A n \in N : n + 1 \in N
  <2> SUFFICES ASSUME NEW n \in N, NEW s \in SUBSET S, Cardinality(s) = n + 1, NEW x \in s
               PROVE  SumFunctionOnSet(f, s) = f[x] + SumFunctionOnSet(f, s \ {x})
    OBVIOUS
  <2> DEFINE p == Some(s)
  <2>1. p \in s /\ SumFunctionOnSet(f, s) = f[p] + SumFunctionOnSet(f, s \ {p})
    BY <1>1, SomeIsIn, SumTakesSome
  <2> HIDE DEF p
  <2>2. CASE p = x
    BY <2>1, <2>2
  <2>3. CASE p # x
    <3>1. \A z \in s : s \ {z} \in SUBSET S /\ Cardinality(s \ {z}) = n
      <4> TAKE z \in s
      <4>1. Cardinality(s \ {z}) = Cardinality(s) - 1
        BY <1>1, FS_RemoveElement
      <4>2. QED
        BY <4>1
    <3>2. SumFunctionOnSet(f, s \ {p}) = f[x] + SumFunctionOnSet(f, (s \ {p}) \ {x})
      BY <2>1, <2>3, <3>1
    <3>3. SumFunctionOnSet(f, s \ {x}) = f[p] + SumFunctionOnSet(f, (s \ {x}) \ {p})
      BY <2>1, <2>3, <3>1
    <3>4. (s \ {p}) \ {x} = (s \ {x}) \ {p}
      OBVIOUS
    <3>5. PICK r \in Int : r = SumFunctionOnSet(f, (s \ {x}) \ {p})
      <4>1. SumFunctionOnSet(f, (s \ {x}) \ {p}) \in Int
        BY <1>1, SumIsInt
      <4>2. QED
        BY <4>1
    <3>6. f[x] \in Int /\ f[p] \in Int
      BY <2>1 DEF AllInts
    <3>7. SumFunctionOnSet(f, s \ {p}) = f[x] + r /\ SumFunctionOnSet(f, s \ {x}) = f[p] + r
      BY <3>2, <3>3, <3>4, <3>5
    <3>8. f[p] + (f[x] + r) = f[x] + (f[p] + r)
      BY <3>6
    <3>9. QED
      BY <2>1, <3>7, <3>8
  <2>4. QED
    BY <2>2, <2>3
<1>4. \A n \in Nat : n \in N
  <2>1. N \in SUBSET Nat
    OBVIOUS
  <2> HIDE DEF N
  <2>2. QED
    BY <1>2, <1>3, <2>1, NatInduct
<1>5. QED
  BY <1>1, <1>4

LEMMA SumAdds ==
  ASSUME NEW S, IsFiniteSet(S), NEW f, NEW x, x \notin S, AllInts(f, S \cup {x})
  PROVE  SumFunctionOnSet(f, S \cup {x}) = f[x] + SumFunctionOnSet(f, S)
<1>1. IsFiniteSet(S \cup {x}) /\ (S \cup {x}) \ {x} = S
  BY FS_AddElement
<1>2. QED
  BY <1>1, SumTakes

\* A sum in two parts.
LEMMA SumUnion ==
  ASSUME NEW S, IsFiniteSet(S), NEW R, IsFiniteSet(R), S \cap R = {},
         NEW f, AllInts(f, S \cup R)
  PROVE  SumFunctionOnSet(f, S \cup R) = SumFunctionOnSet(f, S) + SumFunctionOnSet(f, R)
<1> DEFINE T == {s \in SUBSET S :
                   SumFunctionOnSet(f, s \cup R) = SumFunctionOnSet(f, s) + SumFunctionOnSet(f, R)}
<1>1. \A s \in SUBSET S : IsFiniteSet(s) /\ AllInts(f, s) /\ SumFunctionOnSet(f, s) \in Int
  BY FS_Subset, SumIsInt DEF AllInts
<1>2. AllInts(f, R) /\ SumFunctionOnSet(f, R) \in Int
  BY SumIsInt DEF AllInts
<1>3. {} \in T
  <2>1. {} \cup R = R
    OBVIOUS
  <2>2. SumFunctionOnSet(f, {}) = 0
    BY SumEmpty
  <2>3. SumFunctionOnSet(f, {} \cup R) = SumFunctionOnSet(f, {}) + SumFunctionOnSet(f, R)
    BY <1>2, <2>1, <2>2
  <2>4. QED
    BY <2>3
<1>4. \A s \in T : \A x \in S \ s : s \cup {x} \in T
  <2> SUFFICES ASSUME NEW s \in T, NEW x \in S \ s
               PROVE  SumFunctionOnSet(f, (s \cup {x}) \cup R)
                         = SumFunctionOnSet(f, s \cup {x}) + SumFunctionOnSet(f, R)
    OBVIOUS
  <2>1. (s \cup {x}) \cup R = (s \cup R) \cup {x} /\ x \notin s \cup R
    OBVIOUS
  <2>2. IsFiniteSet(s \cup R) /\ AllInts(f, (s \cup R) \cup {x}) /\ AllInts(f, s \cup {x})
    BY <1>1, FS_Union DEF AllInts
  <2>3. SumFunctionOnSet(f, (s \cup R) \cup {x}) = f[x] + SumFunctionOnSet(f, s \cup R)
    BY <2>1, <2>2, SumAdds
  <2>4. SumFunctionOnSet(f, s \cup {x}) = f[x] + SumFunctionOnSet(f, s)
    BY <1>1, <2>2, SumAdds
  <2>5. f[x] \in Int /\ SumFunctionOnSet(f, s) \in Int
    BY <1>1 DEF AllInts
  <2>6. SumFunctionOnSet(f, s \cup R) = SumFunctionOnSet(f, s) + SumFunctionOnSet(f, R)
    OBVIOUS
  <2> DEFINE a == SumFunctionOnSet(f, s)
             b == SumFunctionOnSet(f, R)
  <2>7. f[x] + (a + b) = (f[x] + a) + b
    BY <1>2, <2>5
  <2>8. QED
    BY <2>1, <2>3, <2>4, <2>6, <2>7
<1>5. S \in T
  <2>1. T \in SUBSET SUBSET S
    OBVIOUS
  <2> HIDE DEF T
  <2>2. QED
    BY <1>3, <1>4, <2>1, SetInduct
<1>6. QED
  BY <1>5

\* A sum of sums.
LEMMA SumPlus ==
  ASSUME NEW S, IsFiniteSet(S), NEW f, AllInts(f, S), NEW g, AllInts(g, S),
         NEW h, \A x \in S : h[x] = f[x] + g[x]
  PROVE  SumFunctionOnSet(h, S) = SumFunctionOnSet(f, S) + SumFunctionOnSet(g, S)
<1> DEFINE T == {s \in SUBSET S :
                   SumFunctionOnSet(h, s) = SumFunctionOnSet(f, s) + SumFunctionOnSet(g, s)}
<1>1. AllInts(h, S)
  BY DEF AllInts
<1>2. \A s \in SUBSET S :
         /\ IsFiniteSet(s) /\ AllInts(f, s) /\ AllInts(g, s) /\ AllInts(h, s)
         /\ SumFunctionOnSet(f, s) \in Int /\ SumFunctionOnSet(g, s) \in Int
  BY <1>1, FS_Subset, SumIsInt DEF AllInts
<1>3. {} \in T
  <2>1. SumFunctionOnSet(h, {}) = 0 /\ SumFunctionOnSet(f, {}) = 0 /\ SumFunctionOnSet(g, {}) = 0
    BY SumEmpty
  <2>2. QED
    BY <2>1
<1>4. \A s \in T : \A x \in S \ s : s \cup {x} \in T
  <2> SUFFICES ASSUME NEW s \in T, NEW x \in S \ s
               PROVE  SumFunctionOnSet(h, s \cup {x})
                         = SumFunctionOnSet(f, s \cup {x}) + SumFunctionOnSet(g, s \cup {x})
    OBVIOUS
  <2>1. IsFiniteSet(s) /\ x \notin s /\ s \cup {x} \in SUBSET S
    BY <1>2
  <2>2. /\ SumFunctionOnSet(h, s \cup {x}) = h[x] + SumFunctionOnSet(h, s)
        /\ SumFunctionOnSet(f, s \cup {x}) = f[x] + SumFunctionOnSet(f, s)
        /\ SumFunctionOnSet(g, s \cup {x}) = g[x] + SumFunctionOnSet(g, s)
    BY <1>2, <2>1, SumAdds
  <2> DEFINE a == SumFunctionOnSet(f, s)
             b == SumFunctionOnSet(g, s)
  <2>3. a \in Int /\ b \in Int /\ f[x] \in Int /\ g[x] \in Int
    BY <1>2 DEF AllInts
  <2>4. SumFunctionOnSet(h, s) = a + b /\ h[x] = f[x] + g[x]
    OBVIOUS
  <2>5. (f[x] + g[x]) + (a + b) = (f[x] + a) + (g[x] + b)
    BY <2>3
  <2>6. QED
    BY <2>2, <2>4, <2>5
<1>5. S \in T
  <2>1. T \in SUBSET SUBSET S
    OBVIOUS
  <2> HIDE DEF T
  <2>2. QED
    BY <1>3, <1>4, <2>1, SetInduct
<1>6. QED
  BY <1>5

LEMMA SumNotNegative ==
  ASSUME NEW S, IsFiniteSet(S), NEW f, \A x \in S : f[x] \in Nat
  PROVE  SumFunctionOnSet(f, S) \in Nat
<1> DEFINE T == {s \in SUBSET S : SumFunctionOnSet(f, s) \in Nat}
<1>1. {} \in T
  BY SumEmpty
<1>2. \A s \in T : \A x \in S \ s : s \cup {x} \in T
  <2> SUFFICES ASSUME NEW s \in T, NEW x \in S \ s
               PROVE  SumFunctionOnSet(f, s \cup {x}) \in Nat
    OBVIOUS
  <2>1. IsFiniteSet(s) /\ x \notin s /\ AllInts(f, s \cup {x})
    BY FS_Subset DEF AllInts
  <2>2. SumFunctionOnSet(f, s \cup {x}) = f[x] + SumFunctionOnSet(f, s)
    BY <2>1, SumAdds
  <2>3. f[x] \in Nat /\ SumFunctionOnSet(f, s) \in Nat
    OBVIOUS
  <2>4. QED
    BY <2>2, <2>3
<1>3. S \in T
  <2>1. T \in SUBSET SUBSET S
    OBVIOUS
  <2> HIDE DEF T
  <2>2. QED
    BY <1>1, <1>2, <2>1, SetInduct
<1>4. QED
  BY <1>3

\* Leaving some of what is not negative out makes a sum no larger.
LEMMA SumOfFewer ==
  ASSUME NEW S, IsFiniteSet(S), NEW R \in SUBSET S, NEW f, \A x \in S : f[x] \in Nat
  PROVE  SumFunctionOnSet(f, R) <= SumFunctionOnSet(f, S)
<1>1. IsFiniteSet(R) /\ IsFiniteSet(S \ R) /\ R \cup (S \ R) = S /\ R \cap (S \ R) = {}
  BY FS_Subset
<1>2. AllInts(f, R \cup (S \ R))
  BY <1>1 DEF AllInts
<1>3. SumFunctionOnSet(f, R \cup (S \ R)) = SumFunctionOnSet(f, R) + SumFunctionOnSet(f, S \ R)
  BY <1>1, <1>2, SumUnion
<1>4. SumFunctionOnSet(f, R) \in Nat /\ SumFunctionOnSet(f, S \ R) \in Nat
  BY <1>1, SumNotNegative
<1>5. SumFunctionOnSet(f, S) = SumFunctionOnSet(f, R) + SumFunctionOnSet(f, S \ R)
  BY <1>1, <1>3
<1>6. QED
  BY <1>4, <1>5

\* What is 0 throughout adds up to 0, being equal to itself added to itself.
LEMMA SumOfZeros ==
  ASSUME NEW S, IsFiniteSet(S), NEW f, \A x \in S : f[x] = 0
  PROVE  SumFunctionOnSet(f, S) = 0
<1>1. AllInts(f, S) /\ \A x \in S : f[x] = f[x] + f[x]
  BY DEF AllInts
<1>2. SumFunctionOnSet(f, S) = SumFunctionOnSet(f, S) + SumFunctionOnSet(f, S)
  BY <1>1, SumPlus
<1>3. SumFunctionOnSet(f, S) \in Int
  BY <1>1, SumIsInt
<1>4. \A n \in Int : n = n + n => n = 0
  OBVIOUS
<1>5. QED
  BY <1>2, <1>3, <1>4, Zenon

\* Only what is not 0 counts.
LEMMA SumOfPart ==
  ASSUME NEW S, IsFiniteSet(S), NEW R \in SUBSET S, NEW f, AllInts(f, R),
         \A x \in S \ R : f[x] = 0
  PROVE  SumFunctionOnSet(f, S) = SumFunctionOnSet(f, R)
<1>1. IsFiniteSet(R) /\ IsFiniteSet(S \ R) /\ R \cap (S \ R) = {} /\ S = R \cup (S \ R)
  BY FS_Subset
<1>2. AllInts(f, R \cup (S \ R))
  BY DEF AllInts
<1>3. SumFunctionOnSet(f, R \cup (S \ R)) = SumFunctionOnSet(f, R) + SumFunctionOnSet(f, S \ R)
  BY <1>1, <1>2, SumUnion
<1>4. SumFunctionOnSet(f, S \ R) = 0
  BY <1>1, SumOfZeros
<1>5. SumFunctionOnSet(f, R) \in Int
  BY <1>1, SumIsInt
<1>6. SumFunctionOnSet(f, S) = SumFunctionOnSet(f, R) + 0
  BY <1>1, <1>3, <1>4
<1>7. QED
  BY <1>5, <1>6

\* The same number k times.
LEMMA SumOfSame ==
  ASSUME NEW a \in Int, NEW v \in Int, NEW f, NEW k \in Nat,
         \A x \in a..(a + k - 1) : f[x] = v
  PROVE  SumFunctionOnSet(f, a..(a + k - 1)) = k * v
<1> DEFINE N == {n \in Nat : n <= k => SumFunctionOnSet(f, a..(a + n - 1)) = n * v}
<1>1. 0 \in N
  <2>1. a..(a + 0 - 1) = {}
    OBVIOUS
  <2>2. SumFunctionOnSet(f, a..(a + 0 - 1)) = 0
    BY <2>1, SumEmpty
  <2>3. 0 * v = 0
    OBVIOUS
  <2>4. QED
    BY <2>2, <2>3
<1>2. \A n \in N : n + 1 \in N
  <2> SUFFICES ASSUME NEW n \in N, n + 1 <= k
               PROVE  SumFunctionOnSet(f, a..(a + (n + 1) - 1)) = (n + 1) * v
    OBVIOUS
  <2>1. n \in Nat
    OBVIOUS
  <2>2. a..(a + (n + 1) - 1) = (a..(a + n - 1)) \cup {a + n} /\ a + n \notin a..(a + n - 1)
    BY <2>1
  <2>3. IsFiniteSet(a..(a + n - 1))
    BY <2>1, FS_Interval
  <2>4. \A x \in (a..(a + n - 1)) \cup {a + n} : f[x] = v
    BY <2>1
  <2>5. SumFunctionOnSet(f, (a..(a + n - 1)) \cup {a + n})
           = f[a + n] + SumFunctionOnSet(f, a..(a + n - 1))
    BY <2>2, <2>3, <2>4, SumAdds DEF AllInts
  <2>6. SumFunctionOnSet(f, a..(a + n - 1)) = n * v
    BY <2>1
  <2>7. v + n * v = (n + 1) * v
    BY <2>1
  <2>8. QED
    BY <2>2, <2>4, <2>5, <2>6, <2>7
<1>3. \A n \in Nat : n \in N
  <2>1. N \in SUBSET Nat
    OBVIOUS
  <2> HIDE DEF N
  <2>2. QED
    BY <1>1, <1>2, <2>1, NatInduct
<1>4. QED
  BY <1>3

-----------------------------------------------------------------------------
\* The greatest of some integers.
LEMMA MaxIsIn ==
  ASSUME NEW S, IsFiniteSet(S), S \subseteq Int, S # {}
  PROVE  \E x \in S : \A y \in S : x >= y
<1> DEFINE T == {s \in SUBSET S : s # {} => \E x \in s : \A y \in s : x >= y}
<1>1. \A s \in T : \A x \in S \ s : s \cup {x} \in T
  <2> SUFFICES ASSUME NEW s \in T, NEW x \in S \ s
               PROVE  \E z \in s \cup {x} : \A y \in s \cup {x} : z >= y
    OBVIOUS
  <2>1. CASE s = {}
    BY <2>1
  <2>2. CASE s # {}
    <3>1. PICK z \in s : \A y \in s : z >= y
      BY <2>2
    <3>2. CASE z >= x
      BY <3>1, <3>2
    <3>3. CASE ~(z >= x)
      BY <3>1, <3>3
    <3>4. QED
      BY <3>2, <3>3
  <2>3. QED
    BY <2>1, <2>2
<1>2. {} \in T /\ T \in SUBSET SUBSET S
  OBVIOUS
<1> HIDE DEF T
<1>3. S \in T
  BY <1>1, <1>2, SetInduct
<1>4. QED
  BY <1>3 DEF T
=============================================================================
