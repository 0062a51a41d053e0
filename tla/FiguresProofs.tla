-------------------------------- MODULE FiguresProofs --------------------------------
(***************************************************************************)
(* The figures of any interview and of any organization: whatever number   *)
(* of answers with whatever utterances, whatever the model replied, and    *)
(* whatever rows the tables have, the three properties of Figures hold.    *)
(*                                                                         *)
(* The figures are computed by sums, extremes, counts and sorts of finite  *)
(* data, so most of what follows is about these.  Facts about all finite   *)
(* sets are proved by FiniteMinimal: a set of counterexamples has a least  *)
(* one.                                                                    *)
(***************************************************************************)
EXTENDS Figures, FiniteSetTheorems, TLAPS

--------------------------------------------------------------------------------
(* Sums over finite sets.                                                    *)

(* Among the subsets of a finite set, some have a least one.                 *)
LEMMA FiniteMinimal ==
    ASSUME NEW S, IsFiniteSet(S), NEW B \in SUBSET SUBSET S, B # {}
    PROVE  \E T \in B : \A U \in B : U \subseteq T => U = T
  <1> DEFINE R == StrictSubsetOrdering(S)
  <1>1. B \subseteq FiniteSubsetsOf(S)
    BY FS_FiniteSubsetsOfFinite
  <1>2. IsWellFoundedOn(R, FiniteSubsetsOf(S))
    BY FS_StrictSubsetOrderingWellFounded
  <1>3. PICK T \in B : \A U \in B : ~ (<<U, T>> \in R)
    <2> HIDE DEF R
    <2> QED BY <1>1, <1>2, WFMin
  <1> QED BY <1>3 DEF StrictSubsetOrdering

Chosen(s) == CHOOSE x \in s : TRUE

Folded(f, g, S) ==
    g = [s \in SUBSET S |-> IF s = {} THEN 0 ELSE f[Chosen(s)] + g[s \ {Chosen(s)}]]

(* The fold of the library, as a function of the subsets that it visits.     *)
LEMMA SumIs ==
    ASSUME NEW f, NEW S
    PROVE  SumOver(f, S) = (CHOOSE g : Folded(f, g, S))[S]
  BY DEF SumOver, MapThenSumSet, MapThenFoldSet, Folded, Chosen

(* What that function is at one subset.                                      *)
LEMMA FoldedAt ==
    ASSUME NEW f, NEW g, NEW S, Folded(f, g, S), NEW s \in SUBSET S
    PROVE  g[s] = IF s = {} THEN 0 ELSE f[Chosen(s)] + g[s \ {Chosen(s)}]
  BY DEF Folded

(* Any two such functions agree where both are defined.                      *)
LEMMA FoldsAgree ==
    ASSUME NEW f, NEW g, NEW h, NEW S, NEW T, IsFiniteSet(S),
           Folded(f, g, S), Folded(f, h, T)
    PROVE  \A s \in SUBSET (S \cap T) : g[s] = h[s]
  <1> DEFINE B == {s \in SUBSET (S \cap T) : g[s] # h[s]}
  <1> SUFFICES ASSUME B # {} PROVE FALSE
    OBVIOUS
  <1>1. B \in SUBSET SUBSET S
    OBVIOUS
  <1>2. PICK s \in B : \A t \in B : t \subseteq s => t = s
    <2> HIDE DEF B
    <2> QED BY <1>1, FiniteMinimal
  <1>3. s \in SUBSET S /\ s \in SUBSET T /\ g[s] # h[s]
    OBVIOUS
  <1>4. /\ g[s] = IF s = {} THEN 0 ELSE f[Chosen(s)] + g[s \ {Chosen(s)}]
        /\ h[s] = IF s = {} THEN 0 ELSE f[Chosen(s)] + h[s \ {Chosen(s)}]
    BY <1>3, FoldedAt
  <1>5. s # {} /\ Chosen(s) \in s
    BY <1>3, <1>4 DEF Chosen
  <1>6. s \ {Chosen(s)} \in SUBSET (S \cap T) /\ s \ {Chosen(s)} \subseteq s /\ s \ {Chosen(s)} # s
    BY <1>3, <1>5
  <1>7. g[s \ {Chosen(s)}] = h[s \ {Chosen(s)}]
    BY <1>2, <1>6
  <1> QED BY <1>3, <1>4, <1>7

(* There is one for every finite set.                                        *)
LEMMA FoldExists ==
    ASSUME NEW f, NEW S, IsFiniteSet(S)
    PROVE  \E g : Folded(f, g, S)
  <1> DEFINE B == {T \in SUBSET S : ~ \E g : Folded(f, g, T)}
  <1> SUFFICES ASSUME B # {} PROVE FALSE
    OBVIOUS
  <1>1. B \in SUBSET SUBSET S
    OBVIOUS
  <1>2. PICK T \in B : \A U \in B : U \subseteq T => U = T
    <2> HIDE DEF B
    <2> QED BY <1>1, FiniteMinimal
  <1> DEFINE G(U) == CHOOSE g : Folded(f, g, U)
             g == [s \in SUBSET T |->
                      IF s = {} THEN 0 ELSE f[Chosen(s)] + G(s \ {Chosen(s)})[s \ {Chosen(s)}]]
  <1>3. \A U \in SUBSET T : U # T => Folded(f, G(U), U)
    <2> SUFFICES ASSUME NEW U \in SUBSET T, U # T PROVE Folded(f, G(U), U)
      OBVIOUS
    <2>1. \E h : Folded(f, h, U)
      BY <1>2
    <2> QED BY <2>1
  <1>4. \A s \in SUBSET T : s # {} => Chosen(s) \in s
    BY DEF Chosen
  <1> HIDE DEF G
  <1>5. ASSUME NEW s \in SUBSET T, s # T PROVE g[s] = G(s)[s]
    <2>1. CASE s = {}
      BY <2>1, <1>3, <1>5, FoldedAt
    <2>2. CASE s # {}
      <3> DEFINE u == s \ {Chosen(s)}
      <3>1. u \in SUBSET s /\ u \in SUBSET T /\ u # T
        BY <2>2, <1>4, <1>5
      <3>2. Folded(f, G(u), u) /\ Folded(f, G(s), s)
        BY <1>3, <1>5, <3>1
      <3>3. IsFiniteSet(u) /\ u \in SUBSET (u \cap s)
        BY <3>1, <1>2, FS_Subset
      <3>4. G(u)[u] = G(s)[u]
        <4> HIDE DEF u
        <4> QED BY <3>2, <3>3, FoldsAgree
      <3>5. G(s)[s] = f[Chosen(s)] + G(s)[u]
        <4> DEFINE h == G(s)
        <4>1. Folded(f, h, s) /\ s \in SUBSET s
          BY <3>2
        <4> HIDE DEF h
        <4>2. h[s] = IF s = {} THEN 0 ELSE f[Chosen(s)] + h[s \ {Chosen(s)}]
          BY <4>1, FoldedAt
        <4> QED BY <2>2, <4>2 DEF h
      <3> QED BY <3>4, <3>5, <2>2
    <2> QED BY <2>1, <2>2
  <1>6. Folded(f, g, T)
    <2>1. ASSUME NEW s \in SUBSET T, s # {} PROVE g[s] = f[Chosen(s)] + g[s \ {Chosen(s)}]
      <3>1. s \ {Chosen(s)} \in SUBSET T /\ s \ {Chosen(s)} # T
        BY <1>4, <2>1
      <3>2. g[s \ {Chosen(s)}] = G(s \ {Chosen(s)})[s \ {Chosen(s)}]
        BY <3>1, <1>5
      <3> QED BY <3>2, <2>1
    <2>2. {} \in SUBSET T /\ g[{}] = 0
      OBVIOUS
    <2>3. g = [s \in SUBSET T |-> g[s]]
      OBVIOUS
    <2>4. \A s \in SUBSET T : g[s] = IF s = {} THEN 0 ELSE f[Chosen(s)] + g[s \ {Chosen(s)}]
      BY <2>1, <2>2
    <2> HIDE DEF g
    <2> QED BY <2>3, <2>4 DEF Folded
  <1> HIDE DEF g
  <1> QED BY <1>2, <1>6

(* The sum over a set is what it was without an element, and that element.   *)
LEMMA SumEmpty ==
    ASSUME NEW f
    PROVE  SumOver(f, {}) = 0
  <1>1. PICK g : Folded(f, g, {})
    BY FoldExists, FS_EmptySet
  <1>2. Folded(f, CHOOSE k : Folded(f, k, {}), {})
    BY <1>1
  <1> QED BY <1>2, SumIs, FoldedAt

(* The sum over a set is the chosen element's value and the sum of the rest. *)
LEMMA SumChosen ==
    ASSUME NEW f, NEW S, IsFiniteSet(S), S # {}
    PROVE  /\ Chosen(S) \in S
           /\ SumOver(f, S) = f[Chosen(S)] + SumOver(f, S \ {Chosen(S)})
  <1> DEFINE T == S \ {Chosen(S)}
             g == CHOOSE k : Folded(f, k, S)
             h == CHOOSE k : Folded(f, k, T)
  <1>1. Chosen(S) \in S
    BY DEF Chosen
  <1>2. IsFiniteSet(T) /\ T \in SUBSET S /\ T \in SUBSET (S \cap T)
    BY FS_Subset
  <1>3. Folded(f, g, S) /\ Folded(f, h, T)
    BY <1>2, FoldExists
  <1>4. SumOver(f, S) = g[S] /\ SumOver(f, T) = h[T]
    BY SumIs
  <1> HIDE DEF g, h
  <1>5. g[S] = f[Chosen(S)] + g[T]
    BY <1>3, FoldedAt
  <1>6. g[T] = h[T]
    <2> HIDE DEF T
    <2> QED BY <1>2, <1>3, FoldsAgree
  <1> QED BY <1>1, <1>4, <1>5, <1>6

(* It does not matter which element is taken out first.                      *)
LEMMA SumElement ==
    ASSUME NEW f, NEW S, IsFiniteSet(S), \A x \in S : f[x] \in Int
    PROVE  /\ SumOver(f, S) \in Int
           /\ \A x \in S : SumOver(f, S) = f[x] + SumOver(f, S \ {x})
  <1> DEFINE OK(T) == /\ SumOver(f, T) \in Int
                      /\ \A x \in T : SumOver(f, T) = f[x] + SumOver(f, T \ {x})
             B == {T \in SUBSET S : ~OK(T)}
  <1> SUFFICES ASSUME B # {} PROVE FALSE
    OBVIOUS
  <1>1. PICK T \in B : \A U \in B : U \subseteq T => U = T
    <2>1. B \in SUBSET SUBSET S
      OBVIOUS
    <2> HIDE DEF B
    <2> QED BY <2>1, FiniteMinimal
  <1>2. T \in SUBSET S /\ ~OK(T) /\ IsFiniteSet(T)
    BY <1>1, FS_Subset
  <1>3. \A U \in SUBSET T : U # T => OK(U)
    BY <1>1, <1>2
  <1>4. T # {}
    <2>1. OK({})
      BY SumEmpty
    <2> HIDE DEF OK
    <2> QED BY <2>1, <1>2
  <1> DEFINE y == Chosen(T)
  <1>5. y \in T /\ SumOver(f, T) = f[y] + SumOver(f, T \ {y})
    BY <1>2, <1>4, SumChosen
  <1> HIDE DEF y
  <1>6. OK(T \ {y}) /\ f[y] \in Int
    BY <1>3, <1>5, <1>2
  <1>7. SumOver(f, T) \in Int
    BY <1>5, <1>6
  <1>8. ASSUME NEW x \in T PROVE SumOver(f, T) = f[x] + SumOver(f, T \ {x})
    <2>1. CASE x = y
      BY <2>1, <1>5
    <2>2. CASE x # y
      <3>1. x \in T \ {y} /\ y \in T \ {x} /\ (T \ {y}) \ {x} = (T \ {x}) \ {y} /\ f[x] \in Int
        BY <2>2, <1>5, <1>2
      <3>2. OK(T \ {x}) /\ OK(T \ {y}) /\ OK((T \ {y}) \ {x})
        BY <1>3, <1>5
      <3>3. SumOver(f, T \ {y}) = f[x] + SumOver(f, (T \ {y}) \ {x})
        BY <3>1, <3>2
      <3>4. SumOver(f, T \ {x}) = f[y] + SumOver(f, (T \ {y}) \ {x})
        BY <3>1, <3>2
      <3>5. SumOver(f, (T \ {y}) \ {x}) \in Int
        BY <3>2
      <3> QED BY <3>1, <3>3, <3>4, <3>5, <1>5, <1>6
    <2> QED BY <2>1, <2>2
  <1> QED BY <1>2, <1>7, <1>8

(* Induction over the subsets of a finite set, of a property given as the    *)
(* set of subsets that have it.                                              *)
LEMMA FiniteInduction ==
    ASSUME NEW S, IsFiniteSet(S), NEW P \in SUBSET SUBSET S, {} \in P,
           \A T \in P : \A x \in S \ T : T \cup {x} \in P
    PROVE  S \in P
  <1> DEFINE B == (SUBSET S) \ P
  <1> SUFFICES ASSUME B # {} PROVE FALSE
    OBVIOUS
  <1>1. PICK T \in B : \A U \in B : U \subseteq T => U = T
    <2>1. B \in SUBSET SUBSET S
      OBVIOUS
    <2> HIDE DEF B
    <2> QED BY <2>1, FiniteMinimal
  <1>2. PICK x \in T : TRUE
    BY <1>1
  <1>3. T \ {x} \in P /\ x \in S \ (T \ {x}) /\ T = (T \ {x}) \cup {x}
    BY <1>1, <1>2
  <1> QED BY <1>1, <1>3

(* A sum of integers is an integer.                                          *)
LEMMA SumType ==
    ASSUME NEW f, NEW S, IsFiniteSet(S), \A x \in S : f[x] \in Int
    PROVE  SumOver(f, S) \in Int
  BY SumElement

(* A new element adds its value.                                             *)
LEMMA SumAdded ==
    ASSUME NEW f, NEW S, IsFiniteSet(S), NEW x, x \notin S,
           \A y \in S \cup {x} : f[y] \in Int
    PROVE  SumOver(f, S \cup {x}) = f[x] + SumOver(f, S)
  <1>1. IsFiniteSet(S \cup {x}) /\ x \in S \cup {x} /\ (S \cup {x}) \ {x} = S
    BY FS_AddElement
  <1> QED BY <1>1, SumElement

(* The sum depends only on the values summed.                                *)
LEMMA SumAgrees ==
    ASSUME NEW f, NEW g, NEW S, IsFiniteSet(S),
           \A x \in S : f[x] \in Int /\ g[x] = f[x]
    PROVE  SumOver(g, S) = SumOver(f, S)
  <1> DEFINE P == {T \in SUBSET S : SumOver(g, T) = SumOver(f, T)}
  <1>1. {} \in P
    BY SumEmpty
  <1>2. ASSUME NEW T \in P, NEW x \in S \ T PROVE T \cup {x} \in P
    <2>1. IsFiniteSet(T) /\ T \in SUBSET S
      BY FS_Subset
    <2>2. /\ SumOver(f, T \cup {x}) = f[x] + SumOver(f, T)
          /\ SumOver(g, T \cup {x}) = g[x] + SumOver(g, T)
      BY <2>1, SumAdded
    <2> QED BY <2>2
  <1> HIDE DEF P
  <1>3. P \in SUBSET SUBSET S
    BY DEF P
  <1>4. S \in P
    BY <1>1, <1>2, <1>3, FiniteInduction
  <1> QED BY <1>4 DEF P

(* The sum grows with its values.                                            *)
LEMMA SumMonotone ==
    ASSUME NEW f, NEW g, NEW S, IsFiniteSet(S),
           \A x \in S : f[x] \in Int /\ g[x] \in Int /\ f[x] <= g[x]
    PROVE  SumOver(f, S) <= SumOver(g, S)
  <1> DEFINE P == {T \in SUBSET S : SumOver(f, T) <= SumOver(g, T)}
  <1>1. {} \in P
    BY SumEmpty
  <1>2. ASSUME NEW T \in P, NEW x \in S \ T PROVE T \cup {x} \in P
    <2>1. IsFiniteSet(T) /\ T \in SUBSET S
      BY FS_Subset
    <2>2. /\ SumOver(f, T \cup {x}) = f[x] + SumOver(f, T)
          /\ SumOver(g, T \cup {x}) = g[x] + SumOver(g, T)
      BY <2>1, SumAdded
    <2>3. SumOver(f, T) \in Int /\ SumOver(g, T) \in Int /\ f[x] \in Int /\ g[x] \in Int
      BY <2>1, SumType
    <2> QED BY <2>2, <2>3
  <1> HIDE DEF P
  <1>3. P \in SUBSET SUBSET S
    BY DEF P
  <1>4. S \in P
    BY <1>1, <1>2, <1>3, FiniteInduction
  <1> QED BY <1>4 DEF P

(* A sum lies between as many times its least and its greatest value.        *)
LEMMA SumBounds ==
    ASSUME NEW f, NEW S, IsFiniteSet(S), NEW a \in Int, NEW b \in Int,
           \A x \in S : f[x] \in a..b
    PROVE  a * Cardinality(S) <= SumOver(f, S) /\ SumOver(f, S) <= b * Cardinality(S)
  <1> DEFINE P == {T \in SUBSET S : /\ a * Cardinality(T) <= SumOver(f, T)
                                   /\ SumOver(f, T) <= b * Cardinality(T)}
  <1>1. {} \in P
    BY SumEmpty, FS_EmptySet
  <1>2. ASSUME NEW T \in P, NEW x \in S \ T PROVE T \cup {x} \in P
    <2>1. IsFiniteSet(T) /\ T \in SUBSET S
      BY FS_Subset
    <2>2. SumOver(f, T \cup {x}) = f[x] + SumOver(f, T)
      BY <2>1, SumAdded
    <2>3. SumOver(f, T) \in Int /\ f[x] \in a..b /\ Cardinality(T) \in Nat
      BY <2>1, SumType, FS_CardinalityType
    <2>4. Cardinality(T \cup {x}) = Cardinality(T) + 1
      BY <2>1, FS_AddElement
    <2>5. /\ a * (Cardinality(T) + 1) = a * Cardinality(T) + a
          /\ b * (Cardinality(T) + 1) = b * Cardinality(T) + b
      BY <2>3
    <2>6. a * Cardinality(T) \in Int /\ b * Cardinality(T) \in Int
      BY <2>3
    <2> QED BY <2>2, <2>3, <2>4, <2>5, <2>6
  <1> HIDE DEF P
  <1>3. P \in SUBSET SUBSET S
    BY DEF P
  <1>4. S \in P
    BY <1>1, <1>2, <1>3, FiniteInduction
  <1> QED BY <1>4 DEF P

(* Disjoint sets are counted together by summing their cardinalities.        *)
LEMMA SumOfCounts ==
    ASSUME NEW A, NEW S, IsFiniteSet(S), \A x \in S : IsFiniteSet(A[x]),
           \A x, y \in S : x # y => A[x] \cap A[y] = {}
    PROVE  /\ IsFiniteSet(UNION {A[x] : x \in S})
           /\ SumOver([x \in S |-> Cardinality(A[x])], S) = Cardinality(UNION {A[x] : x \in S})
  <1> DEFINE f == [x \in S |-> Cardinality(A[x])]
             All(T) == UNION {A[x] : x \in T}
             P == {T \in SUBSET S : IsFiniteSet(All(T)) /\ SumOver(f, T) = Cardinality(All(T))}
  <1>0. \A x \in S : f[x] \in Int /\ f[x] = Cardinality(A[x])
    BY FS_CardinalityType
  <1> HIDE DEF f
  <1>1. {} \in P
    <2>1. All({}) = {}
      OBVIOUS
    <2> QED BY <2>1, SumEmpty, FS_EmptySet
  <1>2. ASSUME NEW T \in P, NEW x \in S \ T PROVE T \cup {x} \in P
    <2>1. IsFiniteSet(T) /\ T \in SUBSET S
      BY FS_Subset
    <2>2. SumOver(f, T \cup {x}) = f[x] + SumOver(f, T)
      BY <2>1, <1>0, SumAdded
    <2>3. All(T \cup {x}) = A[x] \cup All(T) /\ A[x] \cap All(T) = {}
      BY <2>1
    <2>4. IsFiniteSet(A[x]) /\ IsFiniteSet(All(T)) /\ SumOver(f, T) = Cardinality(All(T))
      OBVIOUS
    <2> HIDE DEF All
    <2>5. /\ IsFiniteSet(A[x] \cup All(T))
          /\ Cardinality(A[x] \cup All(T)) = Cardinality(A[x]) + Cardinality(All(T)) - Cardinality({})
      BY <2>3, <2>4, FS_Union
    <2>6. /\ Cardinality({}) = 0
          /\ Cardinality(A[x]) \in Nat
          /\ Cardinality(All(T)) \in Nat
      BY <2>4, FS_EmptySet, FS_CardinalityType
    <2>7. IsFiniteSet(All(T \cup {x}))
      BY <2>3, <2>5
    <2>8. Cardinality(All(T \cup {x})) = Cardinality(A[x]) + Cardinality(All(T))
      <3>1. Cardinality(All(T \cup {x})) = Cardinality(A[x] \cup All(T))
        BY <2>3, Zenon
      <3> QED BY <3>1, <2>5, <2>6
    <2>9. f[x] = Cardinality(A[x])
      BY <1>0
    <2>10. SumOver(f, T \cup {x}) = Cardinality(All(T \cup {x}))
      BY <2>8, <2>9, <2>2, <2>4
    <2> QED BY <2>1, <2>7, <2>10
  <1> HIDE DEF P
  <1>3. P \in SUBSET SUBSET S
    BY DEF P
  <1>4. S \in P
    BY <1>1, <1>2, <1>3, FiniteInduction
  <1> QED BY <1>4 DEF P, f

--------------------------------------------------------------------------------
(* Marks, scores and means.                                                  *)

(* Extremes of a finite set. *)
LEMMA MaxOf ==
    ASSUME NEW S \in SUBSET Int, IsFiniteSet(S), S # {}
    PROVE  Max(S) \in S /\ \A x \in S : x <= Max(S)
  <1> DEFINE P == {T \in SUBSET S : T = {} \/ \E m \in T : \A x \in T : x <= m}
  <1>1. {} \in P
    OBVIOUS
  <1>2. ASSUME NEW T \in P, NEW y \in S \ T PROVE T \cup {y} \in P
    <2>1. CASE T = {}
      BY <2>1
    <2>2. ASSUME NEW m \in T, \A x \in T : x <= m PROVE T \cup {y} \in P
      <3>1. CASE m <= y
        BY <2>2, <3>1
      <3>2. CASE y <= m
        BY <2>2, <3>2
      <3> QED BY <3>1, <3>2
    <2> QED BY <2>1, <2>2
  <1> HIDE DEF P
  <1>3. P \in SUBSET SUBSET S
    BY DEF P
  <1>4. S \in P
    BY <1>1, <1>2, <1>3, FiniteInduction
  <1>5. \E m \in S : \A x \in S : m >= x
    BY <1>4 DEF P
  <1> QED BY <1>5 DEF Max

(* The same of the least element.                                            *)
LEMMA MinOf ==
    ASSUME NEW S \in SUBSET Int, IsFiniteSet(S), S # {}
    PROVE  Min(S) \in S /\ \A x \in S : Min(S) <= x
  <1> DEFINE P == {T \in SUBSET S : T = {} \/ \E m \in T : \A x \in T : m <= x}
  <1>1. {} \in P
    OBVIOUS
  <1>2. ASSUME NEW T \in P, NEW y \in S \ T PROVE T \cup {y} \in P
    <2>1. CASE T = {}
      BY <2>1
    <2>2. ASSUME NEW m \in T, \A x \in T : m <= x PROVE T \cup {y} \in P
      <3>1. CASE y <= m
        BY <2>2, <3>1
      <3>2. CASE m <= y
        BY <2>2, <3>2
      <3> QED BY <3>1, <3>2
    <2> QED BY <2>1, <2>2
  <1> HIDE DEF P
  <1>3. P \in SUBSET SUBSET S
    BY DEF P
  <1>4. S \in P
    BY <1>1, <1>2, <1>3, FiniteInduction
  <1>5. \E m \in S : \A x \in S : m <= x
    BY <1>4 DEF P
  <1> QED BY <1>5 DEF Min

(* Extremes of two numbers.                                                  *)
LEMMA Extremes ==
    ASSUME NEW a \in Int, NEW b \in Int
    PROVE  /\ Max({a, b}) = IF a <= b THEN b ELSE a
           /\ Min({a, b}) = IF a <= b THEN a ELSE b
  <1>1. {a, b} \in SUBSET Int /\ IsFiniteSet({a, b}) /\ {a, b} # {}
    <2>1. {a, b} = {a} \cup {b}
      OBVIOUS
    <2>2. IsFiniteSet({a} \cup {b})
      BY FS_Singleton, FS_AddElement
    <2> QED BY <2>1, <2>2
  <1>2. Max({a, b}) \in {a, b} /\ \A x \in {a, b} : x <= Max({a, b})
    BY <1>1, MaxOf
  <1>3. Min({a, b}) \in {a, b} /\ \A x \in {a, b} : Min({a, b}) <= x
    BY <1>1, MinOf
  <1> QED BY <1>2, <1>3

--------------------------------------------------------------------------------

(* A bounded mark lies in its range, and is itself if it was there.          *)
LEMMA BoundedIs ==
    ASSUME NEW n \in Int
    PROVE  Bounded(n) \in 0..100 /\ (n \in 0..100 => Bounded(n) = n)
  <1>1. Min({100, n}) \in Int /\ Min({100, n}) = IF 100 <= n THEN 100 ELSE n
    BY Extremes
  <1>2. Max({0, Min({100, n})}) = IF 0 <= Min({100, n}) THEN Min({100, n}) ELSE 0
    BY <1>1, Extremes
  <1> QED BY <1>1, <1>2 DEF Bounded

(* Integer division, by the inequalities that define it.                     *)
LEMMA Quotient ==
    ASSUME NEW x \in Int, NEW m \in Int, m > 0
    PROVE  x \div m \in Int /\ m * (x \div m) <= x /\ x < m * (x \div m) + m
  <1>1. x \div m \in Int
    OBVIOUS
  <1>2. m * (x \div m) <= x /\ x < m * (x \div m) + m
    OBVIOUS
  <1> QED BY <1>1, <1>2

(* A rounded mean lies between the bounds of what it is the mean of. *)
LEMMA RoundedMean ==
    ASSUME NEW n \in Nat, n > 0, NEW s \in Int, NEW a \in Int, NEW b \in Int,
           a * n <= s, s <= b * n
    PROVE  (2 * s + n) \div (2 * n) \in a..b
  <1> DEFINE m == 2 * n
             x == 2 * s + n
             q == x \div m
  <1>1. m \in Int /\ m > 0 /\ x \in Int
    OBVIOUS
  <1>2. q \in Int /\ m * q <= x /\ x < m * q + m
    <2> HIDE DEF m, x
    <2> QED BY <1>1, Quotient
  <1> HIDE DEF q
  <1>3. a <= q
    <2> SUFFICES ASSUME q + 1 <= a PROVE FALSE
      BY <1>2
    <2>1. n * (q + 1) <= n * a
      BY <1>2
    <2>2. n * (q + 1) = n * q + n /\ n * a = a * n /\ m * q = 2 * (n * q)
      BY <1>2
    <2>3. n * q \in Int /\ a * n \in Int
      BY <1>2
    <2> QED BY <1>2, <2>1, <2>2, <2>3
  <1>4. q <= b
    <2> SUFFICES ASSUME b + 1 <= q PROVE FALSE
      BY <1>2
    <2>1. n * (b + 1) <= n * q
      BY <1>2
    <2>2. n * (b + 1) = n * b + n /\ n * b = b * n /\ m * q = 2 * (n * q)
      BY <1>2
    <2>3. n * q \in Int /\ b * n \in Int
      BY <1>2
    <2> QED BY <1>2, <2>1, <2>2, <2>3
  <1> QED BY <1>2, <1>3, <1>4 DEF q

(* The mean of scores lies between the least and the greatest of them. *)
LEMMA AverageBetween ==
    ASSUME NEW D, IsFiniteSet(D), D # {}, NEW f \in [D -> 0..100]
    PROVE  /\ average(f) \in 0..100
           /\ average(f) \in Min({f[d] : d \in D})..Max({f[d] : d \in D})
  <1> DEFINE V == {f[d] : d \in D}
             n == Cardinality(D)
             a == Min(V)
             b == Max(V)
  <1>1. V \in SUBSET Int /\ IsFiniteSet(V) /\ V # {}
    <2>1. V \in SUBSET (0..100)
      OBVIOUS
    <2>2. V # {}
      OBVIOUS
    <2>3. IsFiniteSet(0..100)
      <3>1. 0 \in Int /\ 100 \in Int
        OBVIOUS
      <3> QED BY <3>1, FS_Interval, Zenon
    <2> HIDE DEF V
    <2>4. IsFiniteSet(V)
      BY <2>1, <2>3, FS_Subset, Zenon
    <2>5. V \in SUBSET Int
      BY <2>1
    <2> QED BY <2>2, <2>4, <2>5
  <1>2. /\ a \in V /\ \A x \in V : a <= x
        /\ b \in V /\ \A x \in V : x <= b
    <2> HIDE DEF V
    <2> QED BY <1>1, MaxOf, MinOf
  <1>3. a \in 0..100 /\ b \in 0..100 /\ \A d \in D : f[d] \in a..b
    BY <1>2
  <1>4. n \in Nat /\ n > 0
    BY FS_CardinalityType, FS_EmptySet
  <1>5. Total(f) \in Int /\ DOMAIN f = D
    BY SumType DEF Total
  <1>6. a * n <= Total(f) /\ Total(f) <= b * n
    <2>1. a \in Int /\ b \in Int
      BY <1>3
    <2> HIDE DEF a, b
    <2> QED BY <2>1, <1>3, <1>5, SumBounds DEF Total
  <1> DEFINE v == (2 * Total(f) + n) \div (2 * n)
  <1>7. v \in a..b
    <2>1. a \in Int /\ b \in Int
      BY <1>3
    <2> HIDE DEF a, b, n
    <2> QED BY <2>1, <1>4, <1>5, <1>6, RoundedMean
  <1>8. average(f) = Bounded(v)
    BY <1>4, <1>5 DEF average
  <1>9. v \in 0..100
    <2> HIDE DEF a, b, v
    <2> QED BY <1>3, <1>7
  <1> HIDE DEF a, b, v
  <1>10. average(f) = v
    BY <1>8, <1>9, BoundedIs
  <1> QED BY <1>7, <1>9, <1>10 DEF a, b

--------------------------------------------------------------------------------

(* There are finitely many dimensions, and some.                             *)
LEMMA DimensionsFinite ==
    /\ IsFiniteSet(SCORE_DIMENSIONS) /\ SCORE_DIMENSIONS # {}
    /\ IsFiniteSet(QUESTION_DIMENSIONS) /\ QUESTION_DIMENSIONS # {}
  <1> DEFINE some == {"knowledge"} \cup {"communication"} \cup {"relevance"}
             more == some \cup {"jobFit"} \cup {"problemSolving"} \cup {"confidence"}
  <1>1. IsFiniteSet(some)
    BY FS_Singleton, FS_AddElement
  <1>2. IsFiniteSet(more)
    <2> HIDE DEF some
    <2> QED BY <1>1, FS_AddElement
  <1>3. SCORE_DIMENSIONS = more /\ QUESTION_DIMENSIONS = some
    BY DEF SCORE_DIMENSIONS, QUESTION_DIMENSIONS
  <1>4. "knowledge" \in SCORE_DIMENSIONS /\ "knowledge" \in QUESTION_DIMENSIONS
    BY DEF SCORE_DIMENSIONS, QUESTION_DIMENSIONS
  <1> HIDE DEF some, more
  <1>5. IsFiniteSet(SCORE_DIMENSIONS) /\ IsFiniteSet(QUESTION_DIMENSIONS)
    BY <1>1, <1>2, <1>3, Zenon
  <1> QED BY <1>4, <1>5

(* clampScore returns a score, whatever number it is given.                  *)
LEMMA ClampBounds ==
    ASSUME NEW tenths \in Int
    PROVE  clampScore(tenths) \in 0..100
  <1>1. (tenths + 5) \div 10 \in Int
    OBVIOUS
  <1> QED BY <1>1, BoundedIs DEF clampScore

(* The marks of an analysis, and its score between them. *)
IsAnalysis(a) ==
    /\ a \in Analyses
    /\ a.score \in Min({a.dimensionScores[d] : d \in QUESTION_DIMENSIONS})
                 ..Max({a.dimensionScores[d] : d \in QUESTION_DIMENSIONS})

(* Clamped marks are scores.                                                 *)
LEMMA ClampedMarks ==
    ASSUME NEW D, NEW marks \in [D -> Int \cup {Malformed}], \A d \in D : isScore(marks[d])
    PROVE  [d \in D |-> clampScore(marks[d])] \in [D -> 0..100]
  <1> SUFFICES ASSUME NEW d \in D PROVE clampScore(marks[d]) \in 0..100
    OBVIOUS
  <1>1. marks[d] \in Int
    BY DEF isScore
  <1> QED BY <1>1, ClampBounds

(* The analysis of a usable entry is one.                                    *)
LEMMA AnalysisIs ==
    ASSUME NEW entry, entry.marks \in [QUESTION_DIMENSIONS -> Int \cup {Malformed}], Usable(entry)
    PROVE  IsAnalysis(Analysis(entry))
  <1> DEFINE marks == [d \in QUESTION_DIMENSIONS |-> clampScore(entry.marks[d])]
  <1>1. marks \in [QUESTION_DIMENSIONS -> 0..100]
    BY ClampedMarks DEF Usable
  <1>2. Analysis(entry) = [score |-> average(marks), dimensionScores |-> marks]
    BY DEF Analysis
  <1> HIDE DEF marks
  <1>3. /\ average(marks) \in 0..100
        /\ average(marks) \in Min({marks[d] : d \in QUESTION_DIMENSIONS})
                              ..Max({marks[d] : d \in QUESTION_DIMENSIONS})
    BY <1>1, DimensionsFinite, AverageBetween
  <1> QED BY <1>1, <1>2, <1>3 DEF IsAnalysis, Analyses

(* Zero lies between nothing but zeros.                                      *)
LEMMA ZeroBetween ==
    ASSUME NEW D, D # {}
    PROVE  0 \in Min({0 : d \in D})..Max({0 : d \in D})
  <1>1. {0 : d \in D} = {0, 0}
    OBVIOUS
  <1>2. Min({0, 0}) = 0 /\ Max({0, 0}) = 0
    BY Extremes
  <1>3. Min({0 : d \in D}) = 0 /\ Max({0 : d \in D}) = 0
    BY <1>1, <1>2, Zenon
  <1> QED BY <1>3

(* So is the analysis of an answer without speech.                           *)
LEMMA NoAnswerIs == IsAnalysis(noAnswer)
  <1> DEFINE zeros == [d \in QUESTION_DIMENSIONS |-> 0]
  <1>1. noAnswer = [score |-> 0, dimensionScores |-> zeros]
    BY DEF noAnswer
  <1>2. noAnswer \in Analyses
    BY DEF noAnswer, Analyses
  <1>3. {zeros[d] : d \in QUESTION_DIMENSIONS} = {0 : d \in QUESTION_DIMENSIONS}
    OBVIOUS
  <1> HIDE DEF zeros
  <1>4. 0 \in Min({zeros[d] : d \in QUESTION_DIMENSIONS})..Max({zeros[d] : d \in QUESTION_DIMENSIONS})
    BY <1>3, ZeroBetween, DimensionsFinite, Zenon
  <1>5. noAnswer.score = 0 /\ noAnswer.dimensionScores = zeros
    BY <1>1
  <1> QED BY <1>2, <1>4, <1>5 DEF IsAnalysis

(* An evaluation put together from an overall score, scores and an analysis  *)
(* of every question.                                                        *)
Whole(ids, overall, r, scores, analysis) ==
    [overallScore |-> overall, recommendation |-> r, scores |-> scores,
     perQuestion |-> {[questionId |-> q, analysis |-> analysis[q]] : q \in ids}]

(* Such an evaluation is an evaluation, and so told from Failed.             *)
LEMMA WholeIsTyped ==
    ASSUME NEW ids, NEW scores \in [SCORE_DIMENSIONS -> 0..100],
           NEW overall \in 0..100, NEW r \in Recommendations,
           NEW analysis, \A q \in ids : IsAnalysis(analysis[q])
    PROVE  Whole(ids, overall, r, scores, analysis) \in Evaluations(ids)
  <1> DEFINE all == {[questionId |-> q, analysis |-> analysis[q]] : q \in ids}
  <1>1. \A q \in ids : analysis[q] \in Analyses
    BY DEF IsAnalysis
  <1>2. all \in SUBSET [questionId : ids, analysis : Analyses]
    BY <1>1
  <1>3. Whole(ids, overall, r, scores, analysis)
          = [overallScore |-> overall, recommendation |-> r, scores |-> scores, perQuestion |-> all]
    BY DEF Whole
  <1> HIDE DEF all
  <1> QED BY <1>2, <1>3 DEF Evaluations

(* Such an evaluation is sound if its parts are.                             *)
LEMMA WholeIsSound ==
    ASSUME NEW answers, NEW scores \in [SCORE_DIMENSIONS -> 0..100], NEW overall, NEW r,
           overall \in Min({scores[d] : d \in SCORE_DIMENSIONS})
                      ..Max({scores[d] : d \in SCORE_DIMENSIONS}),
           NEW analysis,
           \A q \in DOMAIN answers : IsAnalysis(analysis[q]),
           \A q \in DOMAIN answers : ~Spoke(answers[q]) => analysis[q] = noAnswer,
           (\A q \in DOMAIN answers : ~Spoke(answers[q])) => overall = 0 /\ r = "strong_no_hire"
    PROVE  IsSound(answers, Whole(DOMAIN answers, overall, r, scores, analysis))
  <1> DEFINE e == Whole(DOMAIN answers, overall, r, scores, analysis)
             marks(a) == {a.dimensionScores[d] : d \in QUESTION_DIMENSIONS}
  <1>1. /\ e.overallScore = overall /\ e.recommendation = r /\ e.scores = scores
        /\ e.perQuestion = {[questionId |-> q, analysis |-> analysis[q]] : q \in DOMAIN answers}
    BY DEF Whole
  <1> HIDE DEF e
  <1>3. {e.scores[d] : d \in SCORE_DIMENSIONS} = {scores[d] : d \in SCORE_DIMENSIONS}
    BY <1>1, Zenon
  <1>4. {scores[d] : d \in SCORE_DIMENSIONS} \subseteq 0..100
    OBVIOUS
  <1>5. ASSUME NEW q \in DOMAIN answers
        PROVE  /\ Cardinality({p \in e.perQuestion : p.questionId = q}) = 1
               /\ \A p \in e.perQuestion : p.questionId = q =>
                     /\ marks(p.analysis) \subseteq 0..100
                     /\ p.analysis.score \in Min(marks(p.analysis))..Max(marks(p.analysis))
                     /\ ~Spoke(answers[q]) => marks(p.analysis) = {0}
    <2> DEFINE p0 == [questionId |-> q, analysis |-> analysis[q]]
    <2>1. {p \in e.perQuestion : p.questionId = q} = {p0}
      BY <1>1
    <2>2. Cardinality({p0}) = 1
      BY FS_Singleton
    <2>3. Cardinality({p \in e.perQuestion : p.questionId = q}) = 1
      BY <2>1, <2>2, Zenon
    <2>4. ASSUME NEW p \in e.perQuestion, p.questionId = q PROVE p.analysis = analysis[q]
      BY <2>1, <2>4
    <2> DEFINE a == analysis[q]
    <2>5. IsAnalysis(a) /\ (~Spoke(answers[q]) => a = noAnswer)
      OBVIOUS
    <2> HIDE DEF a
    <2>6. marks(a) \subseteq 0..100
      BY <2>5 DEF IsAnalysis, Analyses
    <2>7. a.score \in Min(marks(a))..Max(marks(a))
      BY <2>5 DEF IsAnalysis
    <2>8. marks(noAnswer) = {0}
      BY DimensionsFinite DEF noAnswer
    <2>9. ~Spoke(answers[q]) => marks(a) = {0}
      <3> HIDE DEF marks
      <3> QED BY <2>5, <2>8, Zenon
    <2>10. \A p \in e.perQuestion : p.questionId = q => p.analysis = a
      BY <2>4 DEF a
    <2> HIDE DEF marks
    <2> QED BY <2>3, <2>6, <2>7, <2>9, <2>10, Zenon
  <1> DEFINE S == {e.scores[d] : d \in SCORE_DIMENSIONS}
  <1>6. S \subseteq 0..100 /\ e.overallScore \in Min(S)..Max(S)
    <2>1. S \subseteq 0..100
      BY <1>3, <1>4
    <2>2. e.overallScore \in Min(S)..Max(S)
      BY <1>1, <1>3, Zenon
    <2> QED BY <2>1, <2>2
  <1>7. (\A q \in DOMAIN answers : ~Spoke(answers[q])) =>
            e.overallScore = 0 /\ e.recommendation = "strong_no_hire"
    BY <1>1
  <1>8. IsSound(answers, e)
    BY <1>5, <1>6, <1>7, Zenon DEF IsSound
  <1> QED BY <1>8 DEF e

(* The entry that is used for a question is one of the reply's.              *)
LEMMA EntryIs ==
    ASSUME NEW reply, IsReply(reply), NEW id, Entries(reply, id) # {}
    PROVE  /\ EntryFor(reply, id).marks \in [QUESTION_DIMENSIONS -> Int \cup {Malformed}]
           /\ Max(Entries(reply, id)) \in Entries(reply, id)
  <1> DEFINE E == Entries(reply, id)
             n == Len(reply.perQuestion)
  <1>1. E \subseteq 1..n /\ E \subseteq DOMAIN reply.perQuestion
    BY DEF IsReply, Entries
  <1>2. E \subseteq Int /\ IsFiniteSet(E)
    <2>1. 1..n \subseteq Int
      OBVIOUS
    <2>2. n \in Int
      BY DEF IsReply
    <2>3. IsFiniteSet(E)
      <3>1. 1 \in Int
        OBVIOUS
      <3>2. IsFiniteSet(1..n)
        BY <3>1, <2>2, FS_Interval, Zenon
      <3> HIDE DEF E
      <3> QED BY <3>2, <1>1, FS_Subset, Zenon
    <2> QED BY <2>3, <1>1, <2>1
  <1>3. Max(E) \in E
    <2> HIDE DEF E
    <2> QED BY <1>2, MaxOf DEF E
  <1> QED BY <1>1, <1>3 DEF EntryFor, IsReply

(* The prompt says of every question whether somebody spoke.                 *)
LEMMA QuestionsAre ==
    ASSUME NEW answers, \A q \in DOMAIN answers : answers[q] \in AnswerInput
    PROVE  PromptQuestions(answers)
             = {[questionId |-> q, hasSpeech |-> Spoke(answers[q])] : q \in DOMAIN answers}
  <1> DEFINE said(q) == countWords(Text(answers[q])) > 0
  <1>1. \A q \in DOMAIN answers : said(q) = Spoke(answers[q])
    <2> SUFFICES ASSUME NEW q \in DOMAIN answers PROVE said(q) <=> Spoke(answers[q])
      BY DEF Spoke
    <2>1. Text(answers[q]) \in Nat \cup {None}
      BY DEF AnswerInput, Text
    <2> QED BY <2>1, NoneAssumption DEF countWords, Spoke
  <1>2. PromptQuestions(answers) = {[questionId |-> q, hasSpeech |-> said(q)] : q \in DOMAIN answers}
    BY DEF PromptQuestions
  <1> HIDE DEF said
  <1>3. \A q \in DOMAIN answers :
            [questionId |-> q, hasSpeech |-> said(q)] = [questionId |-> q, hasSpeech |-> Spoke(answers[q])]
    BY <1>1, Zenon
  <1> QED BY <1>2, <1>3

(* A reply that is accepted is stored as an evaluation of every question, and *)
(* soundly when somebody spoke.                                               *)
LEMMA NormalisedIs ==
    ASSUME NEW answers, \A q \in DOMAIN answers : answers[q] \in AnswerInput,
           NEW reply, IsReply(reply), Acceptable(reply, PromptQuestions(answers))
    PROVE  /\ normalise(reply, PromptQuestions(answers)) \in Evaluations(DOMAIN answers)
           /\ (\E q \in DOMAIN answers : Spoke(answers[q])) =>
                 IsSound(answers, normalise(reply, PromptQuestions(answers)))
  <1> DEFINE D == DOMAIN answers
             questions == PromptQuestions(answers)
  <1>0. questions = {[questionId |-> q, hasSpeech |-> Spoke(answers[q])] : q \in D}
    BY QuestionsAre
  <1> HIDE DEF questions
  <1>a. Acceptable(reply, questions)
    BY DEF questions
  <1> DEFINE scores == [d \in SCORE_DIMENSIONS |-> clampScore(reply.scores[d])]
             analysis == [q \in D |-> IF Spoke(answers[q]) THEN Analysis(EntryFor(reply, q)) ELSE noAnswer]
  <1>3. scores \in [SCORE_DIMENSIONS -> 0..100]
    <2>1. /\ reply.scores \in [SCORE_DIMENSIONS -> Int \cup {Malformed}]
          /\ \A d \in SCORE_DIMENSIONS : isScore(reply.scores[d])
      BY <1>a DEF Acceptable, IsReply
    <2> QED BY <2>1, ClampedMarks
  <1>4. {[questionId |-> q.questionId, analysis |->
            IF q.hasSpeech THEN Analysis(EntryFor(reply, q.questionId)) ELSE noAnswer] :
            q \in questions}
          = {[questionId |-> q, analysis |-> analysis[q]] : q \in D}
    <2> DEFINE A(u) == IF u.hasSpeech THEN Analysis(EntryFor(reply, u.questionId)) ELSE noAnswer
    <2>1. ASSUME NEW u \in questions
          PROVE  u.questionId \in D /\ analysis[u.questionId] = A(u)
      <3>1. PICK q \in D : u = [questionId |-> q, hasSpeech |-> Spoke(answers[q])]
        BY <1>0
      <3>2. u.questionId = q /\ u.hasSpeech = Spoke(answers[q])
        BY <3>1
      <3> QED BY <3>2
    <2>2. ASSUME NEW q \in D
          PROVE  \E u \in questions : u.questionId = q /\ analysis[q] = A(u)
      <3> DEFINE u == [questionId |-> q, hasSpeech |-> Spoke(answers[q])]
      <3>1. u \in questions /\ u.questionId = q
        BY <1>0
      <3> HIDE DEF u
      <3> QED BY <3>1, <2>1
    <2>3. {[questionId |-> u.questionId, analysis |-> A(u)] : u \in questions}
            = {[questionId |-> q, analysis |-> analysis[q]] : q \in D}
      <3> HIDE DEF analysis, A
      <3> DEFINE L == {[questionId |-> u.questionId, analysis |-> A(u)] : u \in questions}
                 R == {[questionId |-> q, analysis |-> analysis[q]] : q \in D}
      <3>1. ASSUME NEW p \in L PROVE p \in R
        <4>1. PICK u \in questions : p = [questionId |-> u.questionId, analysis |-> A(u)]
          OBVIOUS
        <4>2. u.questionId \in D /\ p = [questionId |-> u.questionId, analysis |-> analysis[u.questionId]]
          BY <4>1, <2>1
        <4> QED BY <4>2
      <3>2. ASSUME NEW p \in R PROVE p \in L
        <4>1. PICK q \in D : p = [questionId |-> q, analysis |-> analysis[q]]
          OBVIOUS
        <4>2. PICK u \in questions : u.questionId = q /\ analysis[q] = A(u)
          BY <2>2
        <4>3. p = [questionId |-> u.questionId, analysis |-> A(u)]
          BY <4>1, <4>2
        <4> QED BY <4>3
      <3> HIDE DEF L, R
      <3>3. L = R
        BY <3>1, <3>2
      <3> QED BY <3>3 DEF L, R
    <2> QED BY <2>3
  <1>5. normalise(reply, questions) = Whole(D, average(scores), reply.recommendation, scores, analysis)
    BY <1>4, <1>a, Zenon DEF normalise, Whole
  <1>6. ASSUME NEW q \in D PROVE IsAnalysis(analysis[q])
    <2>1. CASE Spoke(answers[q])
      <3> DEFINE pq == [questionId |-> q, hasSpeech |-> Spoke(answers[q])]
      <3>1. pq \in questions /\ pq.questionId = q /\ pq.hasSpeech
        BY <1>0, <2>1
      <3>2. Entries(reply, q) # {} /\ Usable(EntryFor(reply, q))
        BY <3>1, <1>a DEF Acceptable
      <3>3. IsAnalysis(Analysis(EntryFor(reply, q)))
        BY <3>2, EntryIs, AnalysisIs
      <3> QED BY <3>3, <2>1
    <2>2. CASE ~Spoke(answers[q])
      BY <2>2, NoAnswerIs
    <2> QED BY <2>1, <2>2
  <1>7. \A q \in D : ~Spoke(answers[q]) => analysis[q] = noAnswer
    OBVIOUS
  <1>9. /\ average(scores) \in 0..100
        /\ average(scores) \in Min({scores[d] : d \in SCORE_DIMENSIONS})
                               ..Max({scores[d] : d \in SCORE_DIMENSIONS})
    <2> HIDE DEF scores
    <2> QED BY <1>3, DimensionsFinite, AverageBetween
  <1>10. reply.recommendation \in Recommendations
    BY <1>a DEF Acceptable
  <1> HIDE DEF scores, analysis
  <1>11. normalise(reply, questions) \in Evaluations(D)
    BY <1>3, <1>5, <1>6, <1>9, <1>10, WholeIsTyped
  <1>12. ASSUME NEW q \in D, Spoke(answers[q])
         PROVE  IsSound(answers, normalise(reply, questions))
    BY <1>3, <1>5, <1>6, <1>7, <1>9, <1>12, WholeIsSound
  <1> QED BY <1>11, <1>12 DEF questions

(* Whatever the model replied, what is stored is sound, if it is stored. *)
LEMMA EvaluationIs ==
    ASSUME NEW answers, DOMAIN answers # {}, \A q \in DOMAIN answers : answers[q] \in AnswerInput,
           NEW reply, IsReply(reply), Evaluation(answers, reply) # Failed
    PROVE  IsSound(answers, Evaluation(answers, reply))
  <1> DEFINE D == DOMAIN answers
             questions == PromptQuestions(answers)
  <1>0. questions = {[questionId |-> q, hasSpeech |-> Spoke(answers[q])] : q \in D}
    BY QuestionsAre
  <1> HIDE DEF questions
  <1>3. CASE \A q \in questions : ~q.hasSpeech
    <2> DEFINE zeros == [d \in SCORE_DIMENSIONS |-> 0]
               analysis == [q \in D |-> noAnswer]
    <2>1. \A q \in D : ~Spoke(answers[q])
      <3> SUFFICES ASSUME NEW q \in D PROVE ~Spoke(answers[q])
        OBVIOUS
      <3>1. [questionId |-> q, hasSpeech |-> Spoke(answers[q])] \in questions
        BY <1>0
      <3> QED BY <3>1, <1>3
    <2>2. {[questionId |-> q.questionId, analysis |-> noAnswer] : q \in questions}
            = {[questionId |-> q, analysis |-> analysis[q]] : q \in D}
      <3>1. \A q \in questions : q.questionId \in D /\ analysis[q.questionId] = noAnswer
        BY <1>0
      <3>2. ASSUME NEW q \in D
            PROVE  \E u \in questions : u.questionId = q /\ analysis[q] = noAnswer
        <4>1. [questionId |-> q, hasSpeech |-> Spoke(answers[q])] \in questions
          BY <1>0
        <4> QED BY <4>1
      <3> HIDE DEF analysis
      <3> QED BY <3>1, <3>2, Zenon
    <2>3. Evaluation(answers, reply) = noSpeechEvaluation(questions)
      BY <1>3 DEF Evaluation, questions
    <2>4. noSpeechEvaluation(questions) = Whole(D, 0, "strong_no_hire", zeros, analysis)
      BY <2>2, Zenon DEF noSpeechEvaluation, Whole
    <2>5. zeros \in [SCORE_DIMENSIONS -> 0..100] /\ 0 \in 0..100
          /\ "strong_no_hire" \in Recommendations
      BY DEF Recommendations
    <2>6. 0 \in Min({zeros[d] : d \in SCORE_DIMENSIONS})..Max({zeros[d] : d \in SCORE_DIMENSIONS})
      <3>1. {zeros[d] : d \in SCORE_DIMENSIONS} = {0 : d \in SCORE_DIMENSIONS}
        OBVIOUS
      <3> HIDE DEF zeros
      <3> QED BY <3>1, ZeroBetween, DimensionsFinite, Zenon
    <2>7. \A q \in D : analysis[q] = noAnswer /\ IsAnalysis(analysis[q])
      BY NoAnswerIs
    <2> HIDE DEF zeros, analysis
    <2> QED BY <2>1, <2>3, <2>4, <2>5, <2>6, <2>7, WholeIsSound
  <1>4. CASE ~ \A q \in questions : ~q.hasSpeech
    <2>1. Evaluation(answers, reply) = normalise(reply, questions)
      BY <1>4 DEF Evaluation, questions
    <2>2. Acceptable(reply, questions)
      BY <2>1 DEF normalise
    <2>3. PICK q \in D : Spoke(answers[q])
      BY <1>0, <1>4
    <2> QED BY <2>1, <2>2, <2>3, NormalisedIs DEF questions
  <1> QED BY <1>3, <1>4

(* The questions of a finite set, one after another, each once. *)
LEMMA SequenceOfSet ==
    ASSUME NEW S, IsFiniteSet(S)
    PROVE  /\ Cardinality(S) \in Nat
           /\ SetToSeq(S) \in [1..Cardinality(S) -> S]
           /\ \A x \in S : \E k \in 1..Cardinality(S) : SetToSeq(S)[k] = x
  <1> DEFINE n == Cardinality(S)
             s == SetToSeq(S)
  <1>1. n \in Nat /\ \E f \in [1..n -> S] : IsInjective(f)
    <2>1. n \in Nat /\ Bijection(1..n, S) # {}
      BY FS_CardinalityType DEF ExistsBijection
    <2> QED BY <2>1 DEF Bijection, Injection
  <1>2. s \in [1..n -> S] /\ IsInjective(s)
    BY <1>1 DEF SetToSeq
  <1>3. s \in Surjection(1..n, S)
    <2>1. s \in Injection(1..n, S)
      BY <1>2 DEF Injection
    <2>2. 1 \in Int /\ n \in Int
      BY <1>1
    <2>3. IsFiniteSet(1..n) /\ Cardinality(1..n) = IF 1 > n THEN 0 ELSE n - 1 + 1
      BY <2>2, FS_Interval, Zenon
    <2>4. Cardinality(1..n) = n
      BY <1>1, <2>3
    <2> HIDE DEF n, s
    <2>5. Cardinality(1..n) = Cardinality(S) <=> s \in Surjection(1..n, S)
      BY <2>1, FS_Injection
    <2> QED BY <2>4, <2>5 DEF n
  <1> QED BY <1>1, <1>2, <1>3 DEF Surjection

(* The marks of the development provider are scores.                         *)
LEMMA ScoreIs ==
    ASSUME NEW v \in 0..1000
    PROVE  isScore(v)
  BY MalformedAssumption DEF isScore

(* The reply of the development provider is never refused. *)
LEMMA MockAccepted ==
    ASSUME NEW answers, IsFiniteSet(DOMAIN answers),
           \A q \in DOMAIN answers : answers[q] \in AnswerInput,
           Failed \notin Evaluations(DOMAIN answers)
    PROVE  normalise(mockResult(SetToSeq(DOMAIN answers)), PromptQuestions(answers)) # Failed
  <1> DEFINE D == DOMAIN answers
             n == Cardinality(D)
             ids == SetToSeq(D)
             reply == mockResult(ids)
             said == [i \in 1..n |-> [questionId |-> ids[i], feedback |-> TRUE,
                        marks |-> [knowledge |-> 700 + 50 * ((i - 1) % 3), communication |-> 800,
                                   relevance |-> 850 - 100 * ((i - 1) % 2)]]]
  <1>1. n \in Nat /\ ids \in [1..n -> D] /\ \A q \in D : \E k \in 1..n : ids[k] = q
    BY SequenceOfSet
  <1> HIDE DEF n, ids, D
  <1>2. reply = [recommendation |-> "hire", texts |-> TRUE,
                 scores |-> [knowledge |-> 760, communication |-> 820, relevance |-> 850,
                             jobFit |-> 720, problemSolving |-> 700, confidence |-> 780],
                 perQuestion |-> said]
    BY <1>1 DEF mockResult
  <1>3. reply.perQuestion = said
    BY <1>2
  <1>4. ASSUME NEW i \in 1..n
        PROVE  /\ said[i].questionId = ids[i] /\ said[i].feedback
               /\ said[i].marks \in [QUESTION_DIMENSIONS -> Int]
               /\ \A d \in QUESTION_DIMENSIONS : said[i].marks[d] \in 0..1000
    <2>1. (i - 1) % 3 \in 0..2 /\ (i - 1) % 2 \in 0..1
      BY <1>1
    <2>2. 700 + 50 * ((i - 1) % 3) \in 0..1000 /\ 850 - 100 * ((i - 1) % 2) \in 0..1000
      BY <2>1
    <2> DEFINE k == 700 + 50 * ((i - 1) % 3)
               r == 850 - 100 * ((i - 1) % 2)
               marks == [knowledge |-> k, communication |-> 800, relevance |-> r]
    <2>3. said[i] = [questionId |-> ids[i], feedback |-> TRUE, marks |-> marks]
      OBVIOUS
    <2>4. k \in 0..1000 /\ r \in 0..1000
      BY <2>2
    <2> HIDE DEF k, r, said
    <2>5. DOMAIN marks = QUESTION_DIMENSIONS /\ \A d \in QUESTION_DIMENSIONS : marks[d] \in 0..1000
      BY <2>4 DEF QUESTION_DIMENSIONS
    <2>6. marks = [d \in QUESTION_DIMENSIONS |-> marks[d]]
      BY <2>5
    <2> HIDE DEF marks
    <2>7. marks \in [QUESTION_DIMENSIONS -> Int]
      BY <2>5, <2>6
    <2> QED BY <2>3, <2>5, <2>7
  <1> HIDE DEF said
  <1>5. DOMAIN said = 1..n /\ said \in Seq(Range(said)) /\ Len(said) = n
    <2>1. DOMAIN said = 1..n /\ said = [k \in 1..n |-> said[k]]
      BY DEF said
    <2>2. \A k \in 1..n : said[k] \in Range(said)
      BY <2>1 DEF Range
    <2> QED BY <1>1, <2>1, <2>2
  <1>6. /\ reply.recommendation \in Recommendations /\ reply.texts
        /\ reply.scores \in [SCORE_DIMENSIONS -> Int]
        /\ \A d \in SCORE_DIMENSIONS : reply.scores[d] \in 0..1000
    BY <1>2 DEF Recommendations, SCORE_DIMENSIONS
  <1> HIDE DEF reply
  <1>7. IsReply(reply)
    BY <1>1, <1>3, <1>4, <1>5, <1>6 DEF IsReply
  <1>8. ASSUME NEW q \in D
        PROVE  Entries(reply, q) # {} /\ Usable(EntryFor(reply, q))
    <2>1. PICK k \in 1..n : ids[k] = q
      BY <1>1
    <2>2. k \in Entries(reply, q)
      BY <2>1, <1>3, <1>4, <1>5 DEF Entries
    <2>3. Max(Entries(reply, q)) \in DOMAIN reply.perQuestion
      BY <2>2, <1>7, EntryIs DEF Entries
    <2>4. PICK i \in 1..n : EntryFor(reply, q) = said[i]
      BY <2>3, <1>3, <1>5 DEF EntryFor
    <2> DEFINE marks == said[i].marks
    <2>0. said[i].feedback /\ \A d \in QUESTION_DIMENSIONS : marks[d] \in 0..1000
      BY <1>4
    <2> HIDE DEF marks
    <2>5. \A d \in QUESTION_DIMENSIONS : isScore(marks[d])
      BY <2>0, ScoreIs, Zenon
    <2>6. Usable(said[i])
      BY <2>0, <2>5 DEF Usable, marks
    <2> QED BY <2>2, <2>4, <2>6
  <1>9. \A q \in PromptQuestions(answers) : q.questionId \in D
    BY DEF PromptQuestions, D
  <1>10. \A d \in SCORE_DIMENSIONS : isScore(reply.scores[d])
    BY <1>6, ScoreIs, Zenon
  <1>11. Acceptable(reply, PromptQuestions(answers))
    BY <1>6, <1>8, <1>9, <1>10 DEF Acceptable
  <1>12. normalise(reply, PromptQuestions(answers)) \in Evaluations(D)
    BY <1>7, <1>11, NormalisedIs DEF D
  <1> QED BY <1>12 DEF reply, ids, D

(* A figure is of an interview or of an organization. *)
IsFigure ==
    \/ figure = [kind |-> "none"]
    \/ \E i \in Interviews :
          figure = [kind |-> "evaluation", answers |-> i.answers, reply |-> i.reply,
                    metrics |-> computeSpeechMetrics(MetricsInput(i.answers)),
                    evaluation |-> Evaluation(i.answers, i.reply)]
    \/ \E o \in Overviews :
          figure = [kind |-> "overview", org |-> o.org, now |-> o.now,
                    days |-> Dashboard!period(o.days),
                    overview |-> Dashboard!getOverview(
                                     o.org, Dashboard!period(o.days), o.now, o.date),
                    jobs |-> Dashboard!withApplicantInfo(o.org)]

(* Every figure is one of these.                                             *)
LEMMA FigureIs == Spec => []IsFigure
  <1>1. Init => IsFigure
    BY DEF Init, IsFigure
  <1>2. ASSUME IsFigure, [Next]_vars PROVE IsFigure'
    <2>1. CASE evaluate
      BY <2>1, Zenon DEF evaluate, IsFigure
    <2>2. CASE overview
      BY <2>2, Zenon DEF overview, IsFigure
    <2>3. CASE Forget
      BY <2>3, Zenon DEF Forget, IsFigure
    <2>4. CASE UNCHANGED vars
      BY <1>2, <2>4, Zenon DEF vars, IsFigure
    <2> QED BY <1>2, <2>1, <2>2, <2>3, <2>4 DEF Next
  <1> QED BY <1>1, <1>2, PTL DEF Spec

(* What is stored of an interview is sound, whatever the model replied.      *)
THEOREM EvaluationsAreSound == Spec => []EvaluationIsSound
  <1>1. ASSUME IsFigure PROVE EvaluationIsSound
    <2> SUFFICES ASSUME figure.kind = "evaluation"
                 PROVE  /\ figure.evaluation # Failed => IsSound(figure.answers, figure.evaluation)
                        /\ normalise(mockResult(SetToSeq(DOMAIN figure.answers)),
                                     PromptQuestions(figure.answers)) # Failed
      BY DEF EvaluationIsSound
    <2>1. PICK i \in Interviews :
              /\ figure.answers = i.answers
              /\ figure.evaluation = Evaluation(i.answers, i.reply)
      BY <1>1 DEF IsFigure
    <2> DEFINE answers == i.answers
    <2>2. /\ DOMAIN answers # {} /\ IsFiniteSet(DOMAIN answers)
          /\ \A q \in DOMAIN answers : answers[q] \in AnswerInput
          /\ IsReply(i.reply)
          /\ Failed \notin Evaluations(DOMAIN answers)
      BY InterviewsAssumption
    <2> HIDE DEF answers
    <2>3. Evaluation(answers, i.reply) # Failed => IsSound(answers, Evaluation(answers, i.reply))
      BY <2>2, EvaluationIs
    <2>4. normalise(mockResult(SetToSeq(DOMAIN answers)), PromptQuestions(answers)) # Failed
      BY <2>2, MockAccepted
    <2>5. figure.answers = answers /\ figure.evaluation = Evaluation(answers, i.reply)
      BY <2>1 DEF answers
    <2> QED BY <2>3, <2>4, <2>5, Zenon
  <1> QED BY <1>1, FigureIs, PTL

--------------------------------------------------------------------------------
(* The tables of an organization.                                            *)

(* A finite set in the order of a relation.                                  *)
StrictOrder(R, S) ==
    /\ \A x \in S : <<x, x>> \notin R
    /\ \A x, y, z \in S : <<x, y>> \in R /\ <<y, z>> \in R => <<x, z>> \in R
    /\ \A x, y \in S : x # y => <<x, y>> \in R \/ <<y, x>> \in R

(* Any finite set with such a relation can be enumerated in its order.       *)
LEMMA Enumerated ==
    ASSUME NEW S, IsFiniteSet(S), NEW R, StrictOrder(R, S)
    PROVE  /\ Cardinality(S) \in Nat
           /\ \E q \in [1..Cardinality(S) -> S] :
                 /\ \A k, l \in 1..Cardinality(S) : k < l => <<q[k], q[l]>> \in R
                 /\ \A x \in S : \E k \in 1..Cardinality(S) : q[k] = x
  <1> DEFINE n == Cardinality(S)
             below(x) == {y \in S : <<y, x>> \in R}
             rank == [x \in S |-> Cardinality(below(x)) + 1]
  <1>1. n \in Nat
    BY FS_CardinalityType
  <1>2. ASSUME NEW x \in S
        PROVE  IsFiniteSet(below(x)) /\ rank[x] \in 1..n
    <2>1. below(x) \in SUBSET (S \ {x})
      BY DEF StrictOrder
    <2>2. IsFiniteSet(S \ {x}) /\ Cardinality(S \ {x}) = n - 1
      BY FS_RemoveElement
    <2> DEFINE b == below(x)
    <2> HIDE DEF below
    <2>3. IsFiniteSet(b) /\ Cardinality(b) <= n - 1
      BY <2>1, <2>2, FS_Subset
    <2>4. Cardinality(b) \in Nat
      BY <2>3, FS_CardinalityType
    <2> QED BY <1>1, <2>3, <2>4
  <1>3. ASSUME NEW x \in S, NEW y \in S, <<x, y>> \in R
        PROVE  rank[x] < rank[y]
    <2>1. below(x) \in SUBSET below(y) /\ x \in below(y) /\ x \notin below(x)
      BY <1>3 DEF StrictOrder
    <2> DEFINE b == below(x)
               d == below(y)
    <2>2. IsFiniteSet(b) /\ IsFiniteSet(d)
      BY <1>2
    <2>3. rank[x] = Cardinality(b) + 1 /\ rank[y] = Cardinality(d) + 1
      OBVIOUS
    <2>4. b \in SUBSET d /\ b # d
      BY <2>1
    <2> HIDE DEF b, d
    <2>5. Cardinality(b) <= Cardinality(d) /\ (Cardinality(d) = Cardinality(b) => d = b)
      BY <2>2, <2>4, FS_Subset
    <2>6. Cardinality(b) \in Nat /\ Cardinality(d) \in Nat
      BY <2>2, FS_CardinalityType
    <2> QED BY <2>3, <2>4, <2>5, <2>6
  <1> HIDE DEF rank, n, below
  <1>4. rank \in Injection(S, 1..n)
    <2>1. rank \in [S -> 1..n]
      BY <1>2 DEF rank
    <2>2. ASSUME NEW x \in S, NEW y \in S, rank[x] = rank[y] PROVE x = y
      <3>1. rank[x] \in Int /\ rank[y] \in Int
        BY <1>2, <1>1
      <3>2. ~ (<<x, y>> \in R) /\ ~ (<<y, x>> \in R)
        BY <1>3, <2>2, <3>1
      <3> QED BY <3>2 DEF StrictOrder
    <2> QED BY <2>1, <2>2 DEF Injection, IsInjective
  <1>5. rank \in Surjection(S, 1..n)
    <2>1. 1 \in Int /\ n \in Int
      BY <1>1
    <2>2. IsFiniteSet(1..n) /\ Cardinality(1..n) = IF 1 > n THEN 0 ELSE n - 1 + 1
      BY <2>1, FS_Interval, Zenon
    <2>3. Cardinality(1..n) = Cardinality(S)
      BY <1>1, <2>2 DEF n
    <2> QED BY <1>4, <2>2, <2>3, FS_Injection
  <1> DEFINE q == [k \in 1..n |-> CHOOSE x \in S : rank[x] = k]
  <1>6. \A k \in 1..n : q[k] \in S /\ rank[q[k]] = k
    BY <1>5 DEF Surjection
  <1>7. q \in [1..n -> S]
    BY <1>6
  <1> HIDE DEF q
  <1>8. ASSUME NEW k \in 1..n, NEW l \in 1..n, k < l PROVE <<q[k], q[l]>> \in R
    <2>1. q[k] # q[l]
      BY <1>6, <1>8
    <2>2. ~ (<<q[l], q[k]>> \in R)
      BY <1>3, <1>6, <1>8
    <2> QED BY <1>6, <2>1, <2>2 DEF StrictOrder
  <1>9. ASSUME NEW x \in S PROVE \E k \in 1..n : q[k] = x
    <2>1. rank[x] \in 1..n /\ rank[q[rank[x]]] = rank[x] /\ q[rank[x]] \in S
      BY <1>2, <1>6
    <2> QED BY <2>1, <1>4 DEF Injection, IsInjective
  <1> QED BY <1>1, <1>7, <1>8, <1>9 DEF n

(* The instance of Dashboard counts and adds like Figures.                   *)
LEMMA DashboardCounts ==
    ASSUME NEW S
    PROVE  Dashboard!Cardinality(S) = Cardinality(S) /\ Dashboard!Min(S) = Min(S)
  <1>1. Dashboard!Cardinality(S) = Cardinality(S)
    BY Zenon DEF Cardinality, Dashboard!Cardinality
  <1>2. Dashboard!Min(S) = Min(S)
    BY Zenon DEF Min, Dashboard!Min
  <1> QED BY <1>1, <1>2

(* ... and adds like it.                                                     *)
LEMMA DashboardAdds ==
    ASSUME NEW f
    PROVE  Dashboard!Total(f) = Total(f)
  BY Zenon DEF Total, SumOver, MapThenSumSet, MapThenFoldSet, Dashboard!Total, Dashboard!SumOver,
         Dashboard!MapThenSumSet, Dashboard!MapThenFoldSet

(* The newest rows of a table: each once, as many as asked for or there are. *)
LEMMA NewestIs ==
    ASSUME NEW table, NEW rows, rows \subseteq DOMAIN table, IsTable(table), NEW n \in Nat
    PROVE  LET m == Min({n, Cardinality(rows)}) IN
           /\ m \in Nat /\ m <= n
           /\ Dashboard!Newest(table, rows, n) \in [1..m -> rows]
           /\ IsInjective(Dashboard!Newest(table, rows, n))
           /\ Len(Dashboard!Newest(table, rows, n)) = m
  <1> DEFINE N == Cardinality(rows)
             m == Min({n, N})
             at(r) == table[r].created
             num == SetToSeq(rows)
             place(r) == CHOOSE k \in 1..N : num[k] = r
             R == {p \in rows \X rows : \/ at(p[1]) > at(p[2])
                                        \/ at(p[1]) = at(p[2]) /\ place(p[1]) < place(p[2])}
  <1>1. IsFiniteSet(rows) /\ \A r \in rows : at(r) \in Int
    BY FS_Subset DEF IsTable
  <1>2. N \in Nat /\ num \in [1..N -> rows] /\ \A r \in rows : \E k \in 1..N : num[k] = r
    BY <1>1, SequenceOfSet
  <1>3. \A r \in rows : place(r) \in Int /\ num[place(r)] = r
    <2> HIDE DEF N, num
    <2>1. \A r \in rows : place(r) \in 1..N /\ num[place(r)] = r
      BY <1>2
    <2> QED BY <2>1, <1>2
  <1>4. m \in Nat /\ m <= n /\ m <= N
    <2>1. N \in Int /\ n \in Int
      BY <1>2
    <2> HIDE DEF N
    <2>2. m = IF n <= N THEN n ELSE N
      BY <2>1, Extremes, Zenon
    <2> QED BY <1>2, <2>2
  <1> HIDE DEF N, at, num, place
  <1>5. StrictOrder(R, rows)
    <2>1. \A x, y \in rows : <<x, y>> \in R <=>
              \/ at(x) > at(y)
              \/ at(x) = at(y) /\ place(x) < place(y)
      OBVIOUS
    <2> HIDE DEF R
    <2>2. \A x \in rows : <<x, x>> \notin R
      BY <1>1, <1>3, <2>1
    <2>3. \A x, y, z \in rows : <<x, y>> \in R /\ <<y, z>> \in R => <<x, z>> \in R
      BY <1>1, <1>3, <2>1
    <2>4. ASSUME NEW x \in rows, NEW y \in rows, x # y
          PROVE  <<x, y>> \in R \/ <<y, x>> \in R
      <3>1. place(x) # place(y)
        BY <1>3, <2>4
      <3> QED BY <1>1, <1>3, <2>1, <3>1
    <2> QED BY <2>2, <2>3, <2>4 DEF StrictOrder
  <1>6. \E q \in [1..m -> rows] : Dashboard!IsNewest(q, table, rows)
    <2>1. \A x, y \in rows : <<x, y>> \in R => at(x) >= at(y)
      BY <1>1
    <2> HIDE DEF R, m
    <2>2. PICK p \in [1..N -> rows] :
              /\ \A k, l \in 1..N : k < l => <<p[k], p[l]>> \in R
              /\ \A x \in rows : \E k \in 1..N : p[k] = x
      BY <1>1, <1>5, Enumerated DEF N
    <2> DEFINE q == [k \in 1..m |-> p[k]]
    <2>3. q \in [1..m -> rows] /\ \A k \in 1..m : k \in 1..N /\ k \in Int
      BY <1>2, <1>4
    <2>4. IsInjective(q)
      <3> SUFFICES ASSUME NEW k \in 1..m, NEW l \in 1..m, k < l PROVE q[k] # q[l]
        BY <2>3 DEF IsInjective
      <3> QED BY <1>5, <2>2, <2>3 DEF StrictOrder
    <2>5. \A k, l \in 1..m : k < l => at(q[k]) >= at(q[l])
      BY <2>1, <2>2, <2>3
    <2>6. ASSUME NEW r \in rows
          PROVE  r \in Range(q) \/ \A k \in 1..m : at(q[k]) >= at(r)
      <3>1. PICK l \in 1..N : p[l] = r
        BY <2>2
      <3>2. CASE l <= m
        <4>1. l \in 1..m /\ q[l] = r
          BY <3>1, <3>2, <1>2, <1>4
        <4> QED BY <4>1, <2>3 DEF Range
      <3>3. CASE l > m
        <4> SUFFICES ASSUME NEW k \in 1..m PROVE at(q[k]) >= at(r)
          OBVIOUS
        <4>1. k < l
          BY <3>3, <1>2, <1>4
        <4> QED BY <4>1, <3>1, <2>1, <2>2, <2>3
      <3> QED BY <3>2, <3>3, <1>2, <1>4
    <2> QED BY <2>3, <2>4, <2>5, <2>6 DEF Dashboard!IsNewest, Dashboard!IsInjective, Dashboard!Range, IsInjective, Range, at
  <1> DEFINE q == Dashboard!Newest(table, rows, n)
  <1>7. Dashboard!Min({n, Dashboard!Cardinality(rows)}) = m
    BY DashboardCounts, Zenon DEF N
  <1>8. q \in [1..m -> rows] /\ IsInjective(q)
    <2> DEFINE F == [1..m -> rows]
    <2>1. q = CHOOSE f \in F : Dashboard!IsNewest(f, table, rows)
      BY <1>7, Zenon DEF Dashboard!Newest
    <2> HIDE DEF q, F
    <2>2. \E f \in F : Dashboard!IsNewest(f, table, rows)
      BY <1>6 DEF F
    <2>3. q \in F /\ Dashboard!IsNewest(q, table, rows)
      BY <2>1, <2>2
    <2> QED BY <2>3 DEF F, Dashboard!IsNewest, Dashboard!IsInjective, IsInjective
  <1> HIDE DEF q, m
  <1>9. Len(q) = m
    <2>1. DOMAIN q = 1..m /\ q = [k \in 1..m |-> q[k]]
      BY <1>8
    <2>2. q \in Seq(rows)
      BY <1>4, <1>8, <2>1
    <2> QED BY <1>4, <2>1, <2>2
  <1> QED BY <1>4, <1>8, <1>9 DEF m, N, q

(* The cards and tables of an overview.                                      *)
OfStage(org, s) == {c \in DOMAIN org.candidates : org.candidates[c].stage = s}
StagesOf(org) == {org.candidates[c].stage : c \in DOMAIN org.candidates}

Parts(org, o, days, now, date) ==
    /\ o.candidates.value = Cardinality(DOMAIN org.candidates)
    /\ o.candidates.trend = Dashboard!trend(Dashboard!Created(org.candidates), days, now, date)
    /\ o.interviewsCompleted.value = Cardinality(DOMAIN org.summaries)
    /\ o.interviewsCompleted.trend = Dashboard!trend(Dashboard!Created(org.summaries), days, now, date)
    /\ o.interviewsPending.value = Cardinality({i \in DOMAIN org.interviews :
           org.interviews[i].status \notin {"completed", "cancelled"}})
    /\ o.inScreening.value = Cardinality(OfStage(org, "screening"))
    /\ o.candidatesByStage = [s \in StagesOf(org) |-> Cardinality(OfStage(org, s))]
    /\ o.aiSummary.candidatesReadyToAdvance = Dashboard!readyToAdvance(org)
    /\ o.aiSummary.strongestOpenReq = Dashboard!strongestOpenReq(org)
    /\ o.openJobs = Dashboard!getOpenJobsTable(org)

(* An overview consists of these.                                            *)
LEMMA OverviewParts ==
    ASSUME NEW org, NEW days, NEW now, NEW date
    PROVE  Parts(org, Dashboard!getOverview(org, days, now, date), days, now, date)
  <1> DEFINE o == Dashboard!getOverview(org, days, now, date)
             pending == Dashboard!Pending(org.interviews)
             stage(s) == Dashboard!CountOf(org.candidates, LAMBDA c : c.stage = s)
  <1>1. /\ o.candidates.value = Dashboard!Cardinality(DOMAIN org.candidates)
        /\ o.candidates.trend = Dashboard!trend(Dashboard!Created(org.candidates), days, now, date)
        /\ o.interviewsCompleted.value = Dashboard!Cardinality(DOMAIN org.summaries)
        /\ o.interviewsCompleted.trend = Dashboard!trend(Dashboard!Created(org.summaries), days, now, date)
        /\ o.interviewsPending.value = pending
        /\ o.inScreening.value = stage("screening")
        /\ o.candidatesByStage = [s \in StagesOf(org) |-> stage(s)]
        /\ o.aiSummary = Dashboard!getAiSummary(org, pending)
        /\ o.openJobs = Dashboard!getOpenJobsTable(org)
    BY DEF Dashboard!getOverview, StagesOf
  <1>2. ASSUME NEW s PROVE stage(s) = Cardinality(OfStage(org, s))
    BY DashboardCounts, Zenon DEF Dashboard!CountOf, Dashboard!Having, OfStage
  <1>3. pending = Cardinality({i \in DOMAIN org.interviews :
                      org.interviews[i].status \notin {"completed", "cancelled"}})
    BY DashboardCounts, Zenon DEF Dashboard!Pending, Dashboard!CountOf, Dashboard!Having
  <1>4. /\ Dashboard!getAiSummary(org, pending).candidatesReadyToAdvance = Dashboard!readyToAdvance(org)
        /\ Dashboard!getAiSummary(org, pending).strongestOpenReq = Dashboard!strongestOpenReq(org)
    BY DEF Dashboard!getAiSummary
  <1> HIDE DEF o, pending, stage
  <1>5. [s \in StagesOf(org) |-> stage(s)] = [s \in StagesOf(org) |-> Cardinality(OfStage(org, s))]
    BY <1>2, Zenon
  <1> QED BY <1>1, <1>2, <1>3, <1>4, <1>5, DashboardCounts, Zenon DEF o, Parts

(* The rows of the table of jobs.                                            *)
JobRows(org, rows, jobs, m) ==
    /\ DOMAIN rows = 1..m /\ DOMAIN jobs = 1..m
    /\ \A k \in 1..m : jobs[k] \in DOMAIN org.jobs
    /\ \A k, l \in 1..m : k # l => jobs[k] # jobs[l]
    /\ \A k \in 1..m :
          /\ rows[k].job = jobs[k]
          /\ rows[k].applicants = Cardinality(Dashboard!Applicants(org, jobs[k]))
          /\ rows[k].screening = Cardinality({c \in Dashboard!Applicants(org, jobs[k]) :
                                    org.candidates[c].stage = "screening"})
          /\ rows[k].interviews = Cardinality({i \in DOMAIN org.interviews :
                                    org.interviews[i].job = jobs[k]})

(* The table of jobs consists of those.                                      *)
LEMMA OpenJobsAre ==
    ASSUME NEW org, IsOrganization(org)
    PROVE  \E m \in Nat : \E jobs : JobRows(org, Dashboard!getOpenJobsTable(org), jobs, m)
  <1> DEFINE jobs == Dashboard!Newest(org.jobs, DOMAIN org.jobs, OpenJobsShown)
             rows == Dashboard!getOpenJobsTable(org)
             m == Min({OpenJobsShown, Cardinality(DOMAIN org.jobs)})
  <1>1. m \in Nat /\ jobs \in [1..m -> DOMAIN org.jobs] /\ IsInjective(jobs)
    BY NewestIs, ShownAssumption DEF IsOrganization
  <1>2. rows = [k \in DOMAIN jobs |->
            [job |-> jobs[k],
             applicants |-> Dashboard!Cardinality(Dashboard!Applicants(org, jobs[k])),
             screening |-> Dashboard!Cardinality({c \in Dashboard!Applicants(org, jobs[k]) :
                                           org.candidates[c].stage = "screening"}),
             interviews |-> Dashboard!Cardinality({i \in DOMAIN org.interviews :
                                           org.interviews[i].job = jobs[k]})]]
    BY DEF Dashboard!getOpenJobsTable, Dashboard!CountOf, Dashboard!Having
  <1> HIDE DEF jobs, rows, m
  <1>3. DOMAIN rows = 1..m /\ DOMAIN jobs = 1..m
    BY <1>1, <1>2
  <1>4. ASSUME NEW k \in 1..m
        PROVE  /\ rows[k].job = jobs[k]
               /\ rows[k].applicants = Dashboard!Cardinality(Dashboard!Applicants(org, jobs[k]))
               /\ rows[k].screening = Dashboard!Cardinality({c \in Dashboard!Applicants(org, jobs[k]) :
                                         org.candidates[c].stage = "screening"})
               /\ rows[k].interviews = Dashboard!Cardinality({i \in DOMAIN org.interviews :
                                         org.interviews[i].job = jobs[k]})
    BY <1>2, <1>3
  <1>5. \A k \in 1..m :
               /\ rows[k].job = jobs[k]
               /\ rows[k].applicants = Cardinality(Dashboard!Applicants(org, jobs[k]))
               /\ rows[k].screening = Cardinality({c \in Dashboard!Applicants(org, jobs[k]) :
                                         org.candidates[c].stage = "screening"})
               /\ rows[k].interviews = Cardinality({i \in DOMAIN org.interviews :
                                         org.interviews[i].job = jobs[k]})
    BY <1>4, DashboardCounts, Zenon
  <1>6. /\ \A k \in 1..m : jobs[k] \in DOMAIN org.jobs
        /\ \A k, l \in 1..m : k # l => jobs[k] # jobs[l]
    BY <1>1 DEF IsInjective
  <1>7. JobRows(org, rows, jobs, m)
    BY <1>3, <1>5, <1>6, Zenon DEF JobRows
  <1> QED BY <1>1, <1>7 DEF rows

(* Disjoint sets are counted together by adding their cardinalities.         *)
Parted(A, B) ==
    /\ IsFiniteSet(DOMAIN A) /\ IsFiniteSet(B)
    /\ \A x \in DOMAIN A : A[x] \subseteq B
    /\ \A x, y \in DOMAIN A : x # y => A[x] \cap A[y] = {}
CountsOf(f, A) == DOMAIN f = DOMAIN A /\ \A x \in DOMAIN A : f[x] = Cardinality(A[x])

(* The counts of disjoint parts add up to that of their union.               *)
LEMMA Partitioned ==
    ASSUME NEW A, NEW B, NEW f, Parted(A, B), CountsOf(f, A)
    PROVE  /\ Total(f) = Cardinality(UNION {A[x] : x \in DOMAIN A})
           /\ Total(f) \in Nat /\ Total(f) <= Cardinality(B)
  <1> DEFINE S == DOMAIN A
  <1>0. /\ IsFiniteSet(S) /\ IsFiniteSet(B)
        /\ \A x \in S : A[x] \subseteq B
        /\ \A x, y \in S : x # y => A[x] \cap A[y] = {}
        /\ DOMAIN f = S /\ \A x \in S : f[x] = Cardinality(A[x])
    BY DEF Parted, CountsOf
  <1> HIDE DEF S
  <1> DEFINE g == [x \in S |-> Cardinality(A[x])]
             U == UNION {A[x] : x \in S}
  <1>1. \A x \in S : IsFiniteSet(A[x]) /\ Cardinality(A[x]) \in Int
    BY <1>0, FS_Subset, FS_CardinalityType
  <1>2. IsFiniteSet(U) /\ SumOver(g, S) = Cardinality(U)
    BY <1>0, <1>1, SumOfCounts
  <1>3. SumOver(f, S) = SumOver(g, S)
    <2>1. \A x \in S : g[x] \in Int /\ f[x] = g[x]
      BY <1>0, <1>1
    <2> HIDE DEF g
    <2> QED BY <1>0, <2>1, SumAgrees
  <1>4. U \in SUBSET B
    BY <1>0
  <1> HIDE DEF g, U
  <1>5. Cardinality(U) \in Nat /\ Cardinality(U) <= Cardinality(B)
    BY <1>0, <1>2, <1>4, FS_Subset, FS_CardinalityType
  <1> QED BY <1>0, <1>2, <1>3, <1>5 DEF Total, U, S

(* Two disjoint sets are counted together.                                   *)
LEMMA DisjointUnion ==
    ASSUME NEW S, NEW T, IsFiniteSet(S), IsFiniteSet(T), S \cap T = {}
    PROVE  IsFiniteSet(S \cup T) /\ Cardinality(S \cup T) = Cardinality(S) + Cardinality(T)
  <1>1. /\ IsFiniteSet(S \cup T)
        /\ Cardinality(S \cup T) = Cardinality(S) + Cardinality(T) - Cardinality(S \cap T)
    BY FS_Union
  <1>2. Cardinality(S \cap T) = Cardinality({})
    BY Zenon
  <1>3. Cardinality(S) \in Int /\ Cardinality(T) \in Int /\ Cardinality({}) = 0
    BY FS_CardinalityType, FS_EmptySet
  <1> QED BY <1>1, <1>2, <1>3

(* A function with a finite domain has finitely many values.                 *)
LEMMA ImageFinite ==
    ASSUME NEW f, IsFiniteSet(DOMAIN f)
    PROVE  IsFiniteSet({f[x] : x \in DOMAIN f})
  <1> DEFINE V == {f[x] : x \in DOMAIN f}
             g == [x \in DOMAIN f |-> f[x]]
  <1>1. g \in Surjection(DOMAIN f, V)
    BY DEF Surjection
  <1> HIDE DEF g, V
  <1> QED BY <1>1, FS_Surjection DEF V

(* Every candidate is in one stage, and counted there.                       *)
LEMMA StagesAddUp ==
    ASSUME NEW org, IsOrganization(org)
    PROVE  Cardinality(DOMAIN org.candidates)
             = Total([s \in StagesOf(org) |-> Cardinality(OfStage(org, s))])
  <1> DEFINE C == DOMAIN org.candidates
             S == StagesOf(org)
             A == [s \in S |-> OfStage(org, s)]
             f == [s \in S |-> Cardinality(OfStage(org, s))]
             h == [c \in C |-> org.candidates[c].stage]
  <1>1. IsFiniteSet(C)
    BY DEF IsOrganization, IsTable
  <1>2. IsFiniteSet(S)
    <2>1. DOMAIN h = C /\ S = {h[c] : c \in DOMAIN h}
      BY DEF StagesOf
    <2> HIDE DEF h, C, S
    <2> QED BY <1>1, <2>1, ImageFinite, Zenon
  <1>3. \A s \in S : A[s] \subseteq C
    BY DEF OfStage
  <1>4. \A s, t \in S : s # t => A[s] \cap A[t] = {}
    BY DEF OfStage
  <1>5. UNION {A[s] : s \in S} = C
    <2>1. UNION {A[s] : s \in S} \subseteq C
      BY <1>3
    <2>2. ASSUME NEW c \in C PROVE c \in UNION {A[s] : s \in S}
      <3>1. org.candidates[c].stage \in S /\ c \in A[org.candidates[c].stage]
        BY DEF StagesOf, OfStage
      <3> QED BY <3>1
    <2> HIDE DEF C
    <2> QED BY <2>1, <2>2
  <1>6. DOMAIN A = S /\ DOMAIN f = S /\ \A s \in S : f[s] = Cardinality(A[s])
    OBVIOUS
  <1> HIDE DEF A, S, f, C
  <1>a. Parted(A, C) /\ CountsOf(f, A)
    BY <1>1, <1>2, <1>3, <1>4, <1>6 DEF Parted, CountsOf
  <1>7. Total(f) = Cardinality(UNION {A[s] : s \in S})
    BY <1>6, <1>a, Partitioned
  <1> QED BY <1>5, <1>7, Zenon DEF f, S, C

(* Whoever is ready for the next stage is a candidate, counted once.         *)
LEMMA ReadyAreInterviewed ==
    ASSUME NEW org, IsOrganization(org)
    PROVE  Dashboard!readyToAdvance(org)
             <= Cardinality({c \in DOMAIN org.candidates : org.candidates[c].stage = "interview"})
  <1> DEFINE C == DOMAIN org.candidates
             R == {c \in C : /\ org.candidates[c].stage = "interview"
                             /\ \E i \in Dashboard!Recommended(org) : org.interviews[i].candidate = c}
             T == {c \in C : org.candidates[c].stage = "interview"}
  <1>1. Dashboard!readyToAdvance(org) = Cardinality(R)
    BY DashboardCounts, Zenon DEF Dashboard!readyToAdvance
  <1>2. R \in SUBSET T /\ T \in SUBSET C
    OBVIOUS
  <1>3. IsFiniteSet(C)
    BY DEF IsOrganization, IsTable
  <1> HIDE DEF R, T, C
  <1>4. Cardinality(R) <= Cardinality(T)
    BY <1>2, <1>3, FS_Subset
  <1> QED BY <1>1, <1>4 DEF T, C

(* The rows of the table count different candidates and interviews.          *)
LEMMA RowsWithin ==
    ASSUME NEW org, IsOrganization(org), NEW rows, NEW jobs, NEW m \in Nat,
           JobRows(org, rows, jobs, m)
    PROVE  /\ Total([k \in DOMAIN rows |-> rows[k].screening]) <= Cardinality(OfStage(org, "screening"))
           /\ Total([k \in DOMAIN rows |-> rows[k].interviews]) \in Nat
           /\ Total([k \in DOMAIN rows |-> rows[k].interviews]) <= Cardinality(DOMAIN org.interviews)
  <1> DEFINE C == DOMAIN org.candidates
             I == DOMAIN org.interviews
             K == 1..m
             screening == [k \in DOMAIN rows |-> rows[k].screening]
             interviews == [k \in DOMAIN rows |-> rows[k].interviews]
  <1>1. IsFiniteSet(C) /\ IsFiniteSet(I)
    BY DEF IsOrganization, IsTable
  <1>2. IsFiniteSet(K)
    <2>1. 1 \in Int /\ m \in Int
      OBVIOUS
    <2> QED BY <2>1, FS_Interval, Zenon
  <1>3. \A k, l \in K : k # l => jobs[k] # jobs[l]
    BY DEF JobRows
  <1>4. Total(screening) <= Cardinality(OfStage(org, "screening"))
    <2> DEFINE A == [k \in K |-> {c \in Dashboard!Applicants(org, jobs[k]) :
                                     org.candidates[c].stage = "screening"}]
               B == OfStage(org, "screening")
    <2>1. DOMAIN A = K /\ DOMAIN screening = K /\ \A k \in K : screening[k] = Cardinality(A[k])
      BY DEF JobRows
    <2>2. \A j : Dashboard!Applicants(org, j) = {c \in C : org.candidates[c].job = j}
      BY DEF Dashboard!Applicants, Dashboard!Having
    <2>3. \A k \in K : A[k] \subseteq B
      BY <2>2 DEF OfStage
    <2>4. \A k, l \in K : k # l => A[k] \cap A[l] = {}
      BY <1>3, <2>2
    <2>5. B \in SUBSET C
      BY DEF OfStage
    <2> HIDE DEF A, B, K, screening, C
    <2>6. IsFiniteSet(B)
      BY <1>1, <2>5, FS_Subset
    <2>7. Parted(A, B) /\ CountsOf(screening, A)
      BY <1>2, <2>1, <2>3, <2>4, <2>6 DEF Parted, CountsOf
    <2> QED BY <2>7, Partitioned DEF B
  <1>5. Total(interviews) \in Nat /\ Total(interviews) <= Cardinality(I)
    <2> DEFINE A == [k \in K |-> {i \in I : org.interviews[i].job = jobs[k]}]
    <2>1. DOMAIN A = K /\ DOMAIN interviews = K /\ \A k \in K : interviews[k] = Cardinality(A[k])
      BY DEF JobRows
    <2>2. \A k \in K : A[k] \subseteq I
      OBVIOUS
    <2>3. \A k, l \in K : k # l => A[k] \cap A[l] = {}
      BY <1>3
    <2> HIDE DEF A, K, I, interviews
    <2>4. Parted(A, I) /\ CountsOf(interviews, A)
      BY <1>1, <1>2, <2>1, <2>2, <2>3 DEF Parted, CountsOf
    <2> QED BY <2>4, Partitioned
  <1> QED BY <1>4, <1>5

(* Every interview is completed and summarized, cancelled or pending.        *)
LEMMA InterviewsAccounted ==
    ASSUME NEW org, IsOrganization(org)
    PROVE  LET I == DOMAIN org.interviews
               completed == Cardinality(DOMAIN org.summaries)
               pending == Cardinality({i \in I : org.interviews[i].status \notin {"completed", "cancelled"}})
               cancelled == Cardinality({i \in I : org.interviews[i].status = "cancelled"})
           IN  /\ completed \in Nat /\ pending \in Nat /\ cancelled \in Nat /\ Cardinality(I) \in Nat
               /\ Cardinality(I) <= completed + pending + cancelled
  <1> DEFINE I == DOMAIN org.interviews
             s == DOMAIN org.summaries
             done == {i \in I : org.interviews[i].status = "completed"}
             gone == {i \in I : org.interviews[i].status = "cancelled"}
             open == {i \in I : org.interviews[i].status \notin {"completed", "cancelled"}}
             rest == open \cup gone
  <1>1. I = rest \cup done /\ open \cap gone = {} /\ rest \cap done = {}
    OBVIOUS
  <1>2. done \in SUBSET I /\ gone \in SUBSET I /\ open \in SUBSET I
    OBVIOUS
  <1>3. done \in SUBSET s
    BY DEF IsOrganization
  <1>4. IsFiniteSet(I) /\ IsFiniteSet(s)
    BY DEF IsOrganization, IsTable
  <1> HIDE DEF done, gone, open, s, I
  <1>5. IsFiniteSet(done) /\ IsFiniteSet(gone) /\ IsFiniteSet(open)
    BY <1>2, <1>4, FS_Subset
  <1>6. Cardinality(done) <= Cardinality(s)
    BY <1>3, <1>4, FS_Subset
  <1>7. IsFiniteSet(rest) /\ Cardinality(rest) = Cardinality(open) + Cardinality(gone)
    BY <1>1, <1>5, DisjointUnion
  <1> HIDE DEF rest
  <1>8. Cardinality(rest \cup done) = Cardinality(rest) + Cardinality(done)
    BY <1>1, <1>5, <1>7, DisjointUnion
  <1>a. Cardinality(I) = Cardinality(rest \cup done)
    BY <1>1, Zenon
  <1>9. /\ Cardinality(open) \in Nat /\ Cardinality(gone) \in Nat
        /\ Cardinality(done) \in Nat /\ Cardinality(s) \in Nat /\ Cardinality(I) \in Nat
    BY <1>4, <1>5, FS_CardinalityType
  <1>10. Cardinality(I) <= Cardinality(s) + Cardinality(open) + Cardinality(gone)
    BY <1>6, <1>7, <1>8, <1>9, <1>a
  <1> QED BY <1>9, <1>10 DEF open, gone, s, I

(* The cards and the tables of an overview count the same rows.              *)
LEMMA CountsDoAgree ==
    ASSUME NEW org, IsOrganization(org), NEW o, NEW days, NEW now, NEW date,
           Parts(org, o, days, now, date)
    PROVE  CountsAgree(org, o)
  <1> DEFINE t == Total([k \in DOMAIN o.openJobs |-> o.openJobs[k].interviews])
             s == Total([k \in DOMAIN o.openJobs |-> o.openJobs[k].screening])
             n == Cardinality(DOMAIN org.interviews)
             gone == Cardinality({i \in DOMAIN org.interviews : org.interviews[i].status = "cancelled"})
  <1>1. o.candidates.value = Total(o.candidatesByStage)
    BY StagesAddUp, Zenon DEF Parts
  <1>2. o.aiSummary.candidatesReadyToAdvance <=
            Cardinality({c \in DOMAIN org.candidates : org.candidates[c].stage = "interview"})
    BY ReadyAreInterviewed, Zenon DEF Parts
  <1>3. s <= o.inScreening.value /\ t \in Nat /\ t <= n
    <2>1. o.openJobs = Dashboard!getOpenJobsTable(org) /\ o.inScreening.value = Cardinality(OfStage(org, "screening"))
      BY DEF Parts
    <2>2. PICK m \in Nat : \E jobs : JobRows(org, o.openJobs, jobs, m)
      BY <2>1, OpenJobsAre, Zenon
    <2> HIDE DEF n
    <2> QED BY <2>1, <2>2, RowsWithin, Zenon DEF n
  <1>4. /\ o.interviewsCompleted.value \in Nat /\ o.interviewsPending.value \in Nat
        /\ n \in Nat /\ gone \in Nat
        /\ n <= o.interviewsCompleted.value + o.interviewsPending.value + gone
    BY InterviewsAccounted, Zenon DEF Parts
  <1> HIDE DEF t, s, n, gone
  <1>5. o.interviewsCompleted.value + o.interviewsPending.value >= t - gone
    BY <1>3, <1>4
  <1> QED BY <1>1, <1>2, <1>3, <1>5, Zenon DEF CountsAgree, t, s, gone

--------------------------------------------------------------------------------
(* Trends.                                                                   *)

IsColumn(times) == IsFiniteSet(DOMAIN times) /\ \A r \in DOMAIN times : times[r] \in Int

(* Rows of a day of the last two periods. *)
Selected(times, days, now) ==
    LET seen == {r \in DOMAIN times : times[r] >= now - 2 * days}
    IN  [r \in seen |-> times[r]]

(* An even number of half days is so many days.                              *)
LEMMA Half ==
    ASSUME NEW t \in Int
    PROVE  t \div 2 \in Int /\ 2 * (t \div 2) <= t /\ t <= 2 * (t \div 2) + 1
  OBVIOUS

(* A point of the sparkline counts the rows of its day.                      *)
LEMMA BucketIs ==
    ASSUME NEW times, IsColumn(times), NEW days \in Int, NEW now \in Int, NEW date,
           NEW p \in Nat, p < days
    PROVE  Dashboard!bucket(Selected(times, days, now), 2 * p, now, date)
             = OnDays(times, (now \div 2) - p, (now \div 2) - p)
  <1> DEFINE at == Selected(times, days, now)
             today == now \div 2
             L == {r \in DOMAIN at : at[r] \div 2 = today - p}
             R == {r \in DOMAIN times : times[r] \div 2 \in (today - p)..(today - p)}
  <1>1. Dashboard!DaysBack(2 * p, date) = p
    <2>1. (2 * p) % 2 = 0 /\ (2 * p) \div 2 = p
      OBVIOUS
    <2> QED BY <2>1 DEF Dashboard!DaysBack
  <1>2. Dashboard!bucket(at, 2 * p, now, date) = Dashboard!Cardinality(L)
    BY <1>1, Zenon DEF Dashboard!bucket, Dashboard!CountOf, Dashboard!Having, Dashboard!Day
  <1>3. today \in Int /\ 2 * today <= now /\ now <= 2 * today + 1
    BY Half
  <1> HIDE DEF today
  <1>4. ASSUME NEW r \in L PROVE r \in R
    BY <1>3, <1>4 DEF IsColumn, Selected
  <1>5. ASSUME NEW r \in R PROVE r \in L
    <2>1. r \in DOMAIN times /\ times[r] \in Int /\ times[r] \div 2 = today - p
      BY <1>3 DEF IsColumn
    <2>2. 2 * (today - p) <= times[r]
      BY <2>1, Half
    <2>3. times[r] >= now - 2 * days
      BY <1>3, <2>1, <2>2
    <2> QED BY <2>1, <2>3 DEF Selected
  <1> HIDE DEF at, L, R
  <1>6. L = R
    BY <1>4, <1>5
  <1> QED BY <1>2, <1>6, DashboardCounts, Zenon DEF OnDays, at, R, today

(* The counts of days one after another add up to that of all of them.       *)
LEMMA DaysAddUp ==
    ASSUME NEW times, IsColumn(times), NEW n \in Nat, NEW first \in Int,
           NEW f, DOMAIN f = 1..n, \A i \in 1..n : f[i] = OnDays(times, first + i, first + i)
    PROVE  Total(f) = OnDays(times, first + 1, first + n)
  <1> DEFINE K == 1..n
             rows(a, b) == {r \in DOMAIN times : times[r] \div 2 \in a..b}
             A == [i \in K |-> rows(first + i, first + i)]
             B == DOMAIN times
             all == rows(first + 1, first + n)
  <1>1. IsFiniteSet(B) /\ \A r \in B : times[r] \in Int /\ times[r] \div 2 \in Int
    BY DEF IsColumn
  <1>2. IsFiniteSet(K)
    <2>1. 1 \in Int /\ n \in Int
      OBVIOUS
    <2> QED BY <2>1, FS_Interval, Zenon
  <1>3. DOMAIN A = K /\ \A i \in K : A[i] = rows(first + i, first + i)
    OBVIOUS
  <1>a. \A i \in K : \A r : r \in A[i] <=> r \in B /\ times[r] \div 2 = first + i
    BY <1>1
  <1>4. Parted(A, B)
    <2> HIDE DEF A
    <2>1. \A i, j \in K : i # j => A[i] \cap A[j] = {}
      BY <1>a
    <2>2. \A i \in K : A[i] \subseteq B
      BY <1>a
    <2> HIDE DEF K, B
    <2> QED BY <1>1, <1>2, <1>3, <2>1, <2>2 DEF Parted
  <1>5. CountsOf(f, A)
    <2> HIDE DEF A, rows
    <2>1. \A i \in K : f[i] = Cardinality(rows(first + i, first + i))
      BY Zenon DEF OnDays, rows
    <2> HIDE DEF K
    <2> QED BY <1>3, <2>1 DEF CountsOf, K
  <1>6. UNION {A[i] : i \in DOMAIN A} = all
    <2> DEFINE U == UNION {A[i] : i \in DOMAIN A}
    <2>1. ASSUME NEW r \in U PROVE r \in all
      <3>1. PICK i \in K : r \in A[i]
        BY <1>3
      <3> HIDE DEF A
      <3>2. r \in B /\ times[r] \div 2 = first + i
        BY <1>a, <3>1
      <3> QED BY <3>2
    <2>2. ASSUME NEW r \in all PROVE r \in U
      <3> DEFINE i == times[r] \div 2 - first
      <3>1. r \in B /\ times[r] \div 2 \in Int /\ i \in K /\ times[r] \div 2 = first + i
        BY <1>1
      <3> HIDE DEF A, i
      <3>2. r \in A[i]
        BY <1>a, <3>1
      <3> QED BY <3>1, <3>2, <1>3
    <2> HIDE DEF U, all
    <2> QED BY <2>1, <2>2 DEF U
  <1> HIDE DEF A, B, K, all
  <1>7. Total(f) = Cardinality(UNION {A[i] : i \in DOMAIN A})
    BY <1>4, <1>5, Partitioned
  <1> QED BY <1>6, <1>7, Zenon DEF OnDays, all

(* A trend of whole days counts the rows of exactly its days.                *)
LEMMA TrendIs ==
    ASSUME NEW times, IsColumn(times), NEW days \in Nat, days % 2 = 0, NEW now \in Int, NEW date
    PROVE  TrendIsOfItsDays(Dashboard!trend(times, days, now, date), times, days, now)
  <1> DEFINE n == days \div 2
             today == now \div 2
             at == Selected(times, days, now)
             sparkline == [i \in 1..n |-> Dashboard!bucket(at, days - 2 * i, now, date)]
             previous == [i \in 1..n |-> Dashboard!bucket(at, 2 * days - 2 * i, now, date)]
  <1>1. Dashboard!trend(times, days, now, date)
          = [delta |-> Dashboard!Total(sparkline) - Dashboard!Total(previous), sparkline |-> sparkline]
    BY Zenon DEF Dashboard!trend, Selected
  <1>2. n \in Nat /\ days = 2 * n
    OBVIOUS
  <1>3. today \in Int
    OBVIOUS
  <1> HIDE DEF n, today
  <1>4. \A i \in 1..n : sparkline[i] = OnDays(times, (today - n) + i, (today - n) + i)
    <2> SUFFICES ASSUME NEW i \in 1..n
                 PROVE  sparkline[i] = OnDays(times, (today - n) + i, (today - n) + i)
      OBVIOUS
    <2> DEFINE p == n - i
    <2>1. p \in Nat /\ p < days /\ days - 2 * i = 2 * p
          /\ today - p = (today - n) + i
      BY <1>2, <1>3
    <2> HIDE DEF p
    <2>2. Dashboard!bucket(at, 2 * p, now, date) = OnDays(times, today - p, today - p)
      <3> HIDE DEF at
      <3> QED BY <2>1, BucketIs DEF today, at
    <2> HIDE DEF at
    <2>3. sparkline[i] = Dashboard!bucket(at, days - 2 * i, now, date)
      OBVIOUS
    <2> QED BY <2>1, <2>2, <2>3, Zenon
  <1>5. \A i \in 1..n : previous[i] = OnDays(times, (today - 2 * n) + i, (today - 2 * n) + i)
    <2> SUFFICES ASSUME NEW i \in 1..n
                 PROVE  previous[i] = OnDays(times, (today - 2 * n) + i, (today - 2 * n) + i)
      OBVIOUS
    <2> DEFINE p == 2 * n - i
    <2>1. p \in Nat /\ p < days /\ 2 * days - 2 * i = 2 * p
          /\ today - p = (today - 2 * n) + i
      BY <1>2, <1>3
    <2> HIDE DEF p
    <2>2. Dashboard!bucket(at, 2 * p, now, date) = OnDays(times, today - p, today - p)
      <3> HIDE DEF at
      <3> QED BY <2>1, BucketIs DEF today, at
    <2> HIDE DEF at
    <2>3. previous[i] = Dashboard!bucket(at, 2 * days - 2 * i, now, date)
      OBVIOUS
    <2> QED BY <2>1, <2>2, <2>3, Zenon
  <1>6. DOMAIN sparkline = 1..n /\ DOMAIN previous = 1..n
    OBVIOUS
  <1>7. Len(sparkline) = n
    <2>1. \A i \in 1..n : sparkline[i] \in Range(sparkline)
      BY <1>6 DEF Range
    <2>2. sparkline = [i \in 1..n |-> sparkline[i]]
      OBVIOUS
    <2> HIDE DEF sparkline
    <2>3. sparkline \in Seq(Range(sparkline))
      BY <1>2, <1>6, <2>1, <2>2
    <2> QED BY <1>2, <1>6, <2>3
  <1> HIDE DEF sparkline, previous
  <1>8. Total(sparkline) = OnDays(times, (today - n) + 1, (today - n) + n)
    <2>1. today - n \in Int
      BY <1>2, <1>3
    <2> QED BY <1>2, <1>4, <1>6, <2>1, DaysAddUp
  <1>9. Total(previous) = OnDays(times, (today - 2 * n) + 1, (today - 2 * n) + n)
    <2>1. today - 2 * n \in Int
      BY <1>2, <1>3
    <2> QED BY <1>2, <1>5, <1>6, <2>1, DaysAddUp
  <1>10. /\ (today - n) + n = today /\ (today - 2 * n) + n = today - n
         /\ (today - n) + 1 = today - n + 1 /\ (today - 2 * n) + 1 = today - 2 * n + 1
         /\ \A i \in 1..n : (today - n) + i = today - n + i
    BY <1>2, <1>3
  <1> DEFINE trend == Dashboard!trend(times, days, now, date)
  <1>11. trend.sparkline = sparkline /\ trend.delta = Total(sparkline) - Total(previous)
    BY <1>1, DashboardAdds
  <1> HIDE DEF trend
  <1>12. trend.delta = OnDays(times, today - n + 1, today) - OnDays(times, today - 2 * n + 1, today - n)
    BY <1>8, <1>9, <1>10, <1>11, Zenon
  <1>13. Len(trend.sparkline) = n
         /\ \A i \in 1..n : trend.sparkline[i] = OnDays(times, today - n + i, today - n + i)
    BY <1>4, <1>7, <1>11, Zenon
  <1> QED BY <1>12, <1>13, Zenon DEF TrendIsOfItsDays, trend, n, today

--------------------------------------------------------------------------------
(* Jobs.                                                                     *)

(* A finite set has a first element in a total order with ties.              *)
LEMMA FirstExists ==
    ASSUME NEW S, IsFiniteSet(S), S # {}, NEW R,
           \A x, y \in S : <<x, y>> \in R \/ <<y, x>> \in R,
           \A x, y, z \in S : <<x, y>> \in R /\ <<y, z>> \in R => <<x, z>> \in R
    PROVE  \E x \in S : \A y \in S : <<x, y>> \in R
  <1> DEFINE P == {T \in SUBSET S : T = {} \/ \E x \in T : \A y \in T : <<x, y>> \in R}
  <1>1. {} \in P
    OBVIOUS
  <1>2. ASSUME NEW T \in P, NEW z \in S \ T PROVE T \cup {z} \in P
    <2>1. CASE T = {}
      BY <2>1
    <2>2. ASSUME NEW x \in T, \A y \in T : <<x, y>> \in R PROVE T \cup {z} \in P
      <3>1. CASE <<x, z>> \in R
        BY <2>2, <3>1
      <3>2. CASE <<z, x>> \in R
        <4>1. <<z, z>> \in R
          OBVIOUS
        <4>2. \A y \in T : <<z, y>> \in R
          BY <2>2, <3>2
        <4> QED BY <4>1, <4>2
      <3> QED BY <3>1, <3>2
    <2> QED BY <2>1, <2>2
  <1> HIDE DEF P
  <1>3. P \in SUBSET SUBSET S
    BY DEF P
  <1>4. S \in P
    BY <1>1, <1>2, <1>3, FiniteInduction
  <1> QED BY <1>4 DEF P

ApplicantsOf(org, j) == Cardinality(Dashboard!Applicants(org, j))

(* A job has finitely many applicants.                                       *)
LEMMA ApplicantsFinite ==
    ASSUME NEW org, IsOrganization(org), NEW j
    PROVE  /\ Dashboard!Applicants(org, j) \subseteq DOMAIN org.candidates
           /\ ApplicantsOf(org, j) \in Nat
  <1>1. Dashboard!Applicants(org, j) \in SUBSET DOMAIN org.candidates
    BY DEF Dashboard!Applicants, Dashboard!Having
  <1>2. IsFiniteSet(DOMAIN org.candidates)
    BY DEF IsOrganization, IsTable
  <1> QED BY <1>1, <1>2, FS_Subset, FS_CardinalityType DEF ApplicantsOf

(* The strongest open job is open and has the most applicants.               *)
LEMMA StrongestIs ==
    ASSUME NEW org, IsOrganization(org), Dashboard!strongestOpenReq(org) # None
    PROVE  /\ Dashboard!strongestOpenReq(org) \in DOMAIN org.jobs
           /\ org.jobs[Dashboard!strongestOpenReq(org)].status = "open"
           /\ \A j \in DOMAIN org.jobs : org.jobs[j].status = "open" =>
                 ApplicantsOf(org, j) <= ApplicantsOf(org, Dashboard!strongestOpenReq(org))
  <1> DEFINE open == {j \in DOMAIN org.jobs : org.jobs[j].status = "open"}
             n(j) == ApplicantsOf(org, j)
             above(j, k) == Dashboard!Above(org, j, k)
             R == {p \in open \X open : above(p[1], p[2])}
             best == Dashboard!strongestOpenReq(org)
  <1>1. best = IF open = {} THEN None ELSE CHOOSE j \in open : \A k \in open : above(j, k)
    BY Zenon DEF Dashboard!strongestOpenReq, Dashboard!Having
  <1>a. \A j, k \in open : above(j, k) <=>
            n(j) > n(k) \/ (n(j) = n(k) /\ org.jobs[j].created >= org.jobs[k].created)
    <2>1. \A j : Dashboard!Cardinality(Dashboard!Applicants(org, j)) = n(j)
      BY DashboardCounts, Zenon DEF ApplicantsOf
    <2> HIDE DEF n
    <2> QED BY <2>1 DEF Dashboard!Above
  <1>2. IsFiniteSet(open)
    <2>1. open \in SUBSET DOMAIN org.jobs
      OBVIOUS
    <2> HIDE DEF open
    <2> QED BY <2>1, FS_Subset DEF IsOrganization, IsTable
  <1>3. \A j \in open : n(j) \in Nat /\ org.jobs[j].created \in Int
    BY ApplicantsFinite DEF IsOrganization, IsTable
  <1> HIDE DEF n, above
  <1>4. \A j, k \in open : <<j, k>> \in R <=> above(j, k)
    OBVIOUS
  <1>5. /\ \A x, y \in open : <<x, y>> \in R \/ <<y, x>> \in R
        /\ \A x, y, z \in open : <<x, y>> \in R /\ <<y, z>> \in R => <<x, z>> \in R
    <2> HIDE DEF R, open
    <2> QED BY <1>3, <1>4, <1>a
  <1>6. open # {}
    BY <1>1
  <1>7. \E j \in open : \A k \in open : above(j, k)
    <2> HIDE DEF R, open, above
    <2> QED BY <1>2, <1>4, <1>5, <1>6, FirstExists
  <1>8. best \in open /\ \A k \in open : above(best, k)
    <2> HIDE DEF open, above, best
    <2> QED BY <1>1, <1>6, <1>7
  <1>9. \A k \in open : n(k) <= n(best)
    <2> HIDE DEF best, open
    <2> QED BY <1>3, <1>8, <1>a
  <1> HIDE DEF best
  <1> QED BY <1>8, <1>9 DEF best, n

(* The jobs of the overview agree with the list of jobs.                     *)
LEMMA JobsDoAgree ==
    ASSUME NEW org, IsOrganization(org), NEW o, NEW days, NEW now, NEW date,
           Parts(org, o, days, now, date)
    PROVE  JobsAgree(org, o, Dashboard!withApplicantInfo(org))
  <1> DEFINE jobs == Dashboard!withApplicantInfo(org)
             best == o.aiSummary.strongestOpenReq
  <1>1. ASSUME NEW j \in DOMAIN org.jobs
        PROVE  /\ jobs[j].applicantsCount = ApplicantsOf(org, j)
               /\ Len(jobs[j].recentApplicants) = Min({RecentShown, ApplicantsOf(org, j)})
    <2> DEFINE rows == Dashboard!Applicants(org, j)
    <2>1. /\ jobs[j].applicantsCount = Dashboard!Cardinality(rows)
          /\ jobs[j].recentApplicants = Dashboard!Newest(org.candidates, rows, RecentShown)
      BY DEF Dashboard!withApplicantInfo
    <2>2. rows \subseteq DOMAIN org.candidates /\ IsTable(org.candidates) /\ RecentShown \in Nat
      BY ApplicantsFinite, ShownAssumption DEF IsOrganization
    <2> HIDE DEF rows, jobs
    <2>3. Len(Dashboard!Newest(org.candidates, rows, RecentShown)) = Min({RecentShown, Cardinality(rows)})
      BY <2>2, NewestIs
    <2> QED BY <2>1, <2>3, DashboardCounts, Zenon DEF ApplicantsOf, rows
  <1> HIDE DEF jobs
  <1>2. ASSUME NEW k \in DOMAIN o.openJobs
        PROVE  /\ jobs[o.openJobs[k].job].applicantsCount = o.openJobs[k].applicants
               /\ Len(jobs[o.openJobs[k].job].recentApplicants)
                    = Min({RecentShown, jobs[o.openJobs[k].job].applicantsCount})
    <2>1. o.openJobs = Dashboard!getOpenJobsTable(org)
      BY DEF Parts
    <2>2. PICK m \in Nat : \E js : JobRows(org, o.openJobs, js, m)
      BY <2>1, OpenJobsAre, Zenon
    <2>3. PICK js : JobRows(org, o.openJobs, js, m)
      BY <2>2
    <2>4. o.openJobs[k].job \in DOMAIN org.jobs
          /\ o.openJobs[k].applicants = ApplicantsOf(org, o.openJobs[k].job)
      BY <2>3 DEF JobRows, ApplicantsOf
    <2> QED BY <1>1, <2>4, Zenon
  <1>3. ASSUME best # None
        PROVE  /\ org.jobs[best].status = "open"
               /\ \A j \in DOMAIN org.jobs :
                     org.jobs[j].status = "open" => jobs[j].applicantsCount <= jobs[best].applicantsCount
    <2>1. best = Dashboard!strongestOpenReq(org)
      BY DEF Parts
    <2> HIDE DEF best
    <2>2. /\ best \in DOMAIN org.jobs /\ org.jobs[best].status = "open"
          /\ \A j \in DOMAIN org.jobs : org.jobs[j].status = "open" =>
                 ApplicantsOf(org, j) <= ApplicantsOf(org, best)
      BY <1>3, <2>1, StrongestIs, Zenon
    <2> QED BY <1>1, <2>2
  <1> QED BY <1>2, <1>3, Zenon DEF JobsAgree, jobs

(* A period is a number of half days, whatever the query asks for.           *)
LEMMA PeriodIs ==
    ASSUME NEW days \in Int \cup {None}
    PROVE  Dashboard!period(days) \in 1..180
  BY DEF Dashboard!period

(* Whatever the organization and the period, the figures of its overview agree. *)
THEOREM OverviewsAgree == Spec => []OverviewAgrees
  <1>1. ASSUME IsFigure PROVE OverviewAgrees
    <2> SUFFICES ASSUME figure.kind = "overview"
                 PROVE  OverviewAgrees
      BY DEF OverviewAgrees
    <2>1. PICK i \in Overviews :
              /\ figure.org = i.org /\ figure.now = i.now
              /\ figure.days = Dashboard!period(i.days)
              /\ figure.overview = Dashboard!getOverview(i.org, Dashboard!period(i.days), i.now, i.date)
              /\ figure.jobs = Dashboard!withApplicantInfo(i.org)
      BY <1>1 DEF IsFigure
    <2> DEFINE org == i.org
               days == Dashboard!period(i.days)
               now == i.now
               o == Dashboard!getOverview(org, days, now, i.date)
    <2>2. IsOrganization(org) /\ now \in Int /\ days \in Nat
      <3>1. i.days \in Int \cup {None} /\ IsOrganization(i.org) /\ i.now \in Int
        BY OverviewsAssumption
      <3>2. Dashboard!period(i.days) \in 1..180
        BY <3>1, PeriodIs, Zenon
      <3> QED BY <3>1, <3>2
    <2>3. /\ figure.org = org /\ figure.now = now /\ figure.days = days
          /\ figure.overview = o /\ figure.jobs = Dashboard!withApplicantInfo(org)
      BY <2>1
    <2> HIDE DEF org, days, now
    <2>4. Parts(org, o, days, now, i.date)
      BY OverviewParts
    <2> HIDE DEF o
    <2>5. CountsAgree(org, o) /\ JobsAgree(org, o, Dashboard!withApplicantInfo(org))
      BY <2>2, <2>4, CountsDoAgree, JobsDoAgree, Zenon
    <2> DEFINE created(table) == [r \in DOMAIN table |-> table[r].created]
    <2>6. ASSUME NEW table, IsTable(table), days % 2 = 0
          PROVE  TrendIsOfItsDays(Dashboard!trend(Dashboard!Created(table), days, now, i.date),
                                  created(table), days, now)
      <3>1. Dashboard!Created(table) = created(table)
        BY Zenon DEF Dashboard!Created
      <3> DEFINE times == created(table)
      <3>2. IsColumn(times)
        BY <2>6 DEF IsColumn, IsTable
      <3> HIDE DEF times
      <3>3. TrendIsOfItsDays(Dashboard!trend(times, days, now, i.date), times, days, now)
        BY <2>2, <2>6, <3>2, TrendIs
      <3> QED BY <3>1, <3>3, Zenon DEF times
    <2>7. IsTable(org.candidates) /\ IsTable(org.summaries)
      BY <2>2 DEF IsOrganization
    <2>8. /\ o.candidates.trend = Dashboard!trend(Dashboard!Created(org.candidates), days, now, i.date)
          /\ o.interviewsCompleted.trend = Dashboard!trend(Dashboard!Created(org.summaries), days, now, i.date)
      BY <2>4 DEF Parts
    <2>9. days % 2 = 0 =>
              /\ TrendIsOfItsDays(o.candidates.trend, created(org.candidates), days, now)
              /\ TrendIsOfItsDays(o.interviewsCompleted.trend, created(org.summaries), days, now)
      <3> HIDE DEF created
      <3> QED BY <2>6, <2>7, <2>8, Zenon
    <2> QED BY <2>3, <2>5, <2>9, Zenon DEF OverviewAgrees
  <1> QED BY <1>1, FigureIs, PTL

--------------------------------------------------------------------------------
(* Utterances, pauses and silences.                                          *)

Segment == [start : Int, end : Int]
Kept(segments) == {i \in DOMAIN segments : segments[i].end >= segments[i].start}

(* The utterances in order: each that is heard, at one place, from the first *)
(* to start to the last.                                                     *)
IsOrdered(s, segments, order, n) ==
    /\ n \in Nat /\ DOMAIN s = 1..n
    /\ order \in [1..n -> Kept(segments)]
    /\ \A k \in 1..n : s[k] = segments[order[k]]
    /\ \A i \in Kept(segments) : \E k \in 1..n : order[k] = i
    /\ \A k, l \in 1..n : k < l => order[k] # order[l] /\ s[k].start <= s[l].start
    /\ s = <<>> <=> n = 0

(* Ordered puts the utterances in that order.                                *)
LEMMA OrderedIs ==
    ASSUME NEW segments \in Seq(Segment)
    PROVE  \E order : IsOrdered(Ordered(segments), segments, order, Cardinality(Kept(segments)))
  <1> DEFINE kept == Kept(segments)
             n == Cardinality(kept)
             before(i, j) == \/ segments[i].start < segments[j].start
                             \/ segments[i].start = segments[j].start /\ i < j
             R == {p \in kept \X kept : before(p[1], p[2])}
             order == CHOOSE o \in [1..n -> kept] :
                          \A k, l \in DOMAIN o : k < l => before(o[k], o[l])
  <1>1. \A i \in kept : i \in Int /\ segments[i] \in Segment /\ segments[i].start \in Int
                        /\ i \in DOMAIN segments
    <2> SUFFICES ASSUME NEW i \in DOMAIN segments
                 PROVE  i \in Int /\ segments[i] \in Segment /\ segments[i].start \in Int
      BY DEF Kept
    <2>1. DOMAIN segments = 1..Len(segments) /\ Len(segments) \in Nat
      OBVIOUS
    <2>2. segments[i] \in Segment
      BY <2>1
    <2> QED BY <2>1, <2>2 DEF Segment
  <1>2. IsFiniteSet(kept)
    <2>1. kept \in SUBSET (1..Len(segments)) /\ 1 \in Int /\ Len(segments) \in Int
      BY DEF Kept
    <2>2. IsFiniteSet(1..Len(segments))
      BY <2>1, FS_Interval, Zenon
    <2> HIDE DEF kept
    <2> QED BY <2>1, <2>2, FS_Subset
  <1>3. Ordered(segments) = [k \in DOMAIN order |-> segments[order[k]]]
    BY Zenon DEF Ordered, Kept
  <1> HIDE DEF kept
  <1>4. \A i, j \in kept : <<i, j>> \in R <=> before(i, j)
    OBVIOUS
  <1>5. StrictOrder(R, kept)
    <2> HIDE DEF R
    <2>1. \A x \in kept : <<x, x>> \notin R
      BY <1>1, <1>4
    <2>2. \A x, y, z \in kept : <<x, y>> \in R /\ <<y, z>> \in R => <<x, z>> \in R
      BY <1>1, <1>4
    <2>3. \A x, y \in kept : x # y => <<x, y>> \in R \/ <<y, x>> \in R
      BY <1>1, <1>4
    <2> QED BY <2>1, <2>2, <2>3 DEF StrictOrder
  <1>6. n \in Nat /\ \E q \in [1..n -> kept] : \A k, l \in 1..n : k < l => <<q[k], q[l]>> \in R
    <2> HIDE DEF R
    <2> QED BY <1>2, <1>5, Enumerated
  <1> HIDE DEF n
  <1>7. order \in [1..n -> kept] /\ \A k, l \in 1..n : k < l => before(order[k], order[l])
    <2>1. PICK q \in [1..n -> kept] : \A k, l \in 1..n : k < l => <<q[k], q[l]>> \in R
      BY <1>6
    <2> HIDE DEF R, before
    <2>2. \A k, l \in DOMAIN q : k < l => before(q[k], q[l])
      BY <1>4, <2>1
    <2>3. order \in [1..n -> kept] /\ \A k, l \in DOMAIN order : k < l => before(order[k], order[l])
      BY <2>2
    <2> QED BY <2>3
  <1> DEFINE s == Ordered(segments)
  <1> HIDE DEF order, R
  <1>8. DOMAIN s = 1..n /\ \A k \in 1..n : s[k] = segments[order[k]]
    BY <1>3, <1>7
  <1> HIDE DEF s
  <1>9. \A k, l \in 1..n : k < l => order[k] # order[l] /\ s[k].start <= s[l].start
    <2> SUFFICES ASSUME NEW k \in 1..n, NEW l \in 1..n, k < l
                 PROVE  order[k] # order[l] /\ s[k].start <= s[l].start
      OBVIOUS
    <2>1. before(order[k], order[l]) /\ order[k] \in kept /\ order[l] \in kept
      BY <1>7
    <2> QED BY <1>1, <1>8, <2>1
  <1>10. \A i \in kept : \E k \in 1..n : order[k] = i
    <2>1. order \in Injection(1..n, kept)
      <3>1. \A k, l \in 1..n : order[k] = order[l] => k = l
        <4>1. \A k, l \in 1..n : k < l \/ l < k \/ k = l
          BY <1>6
        <4> QED BY <1>9, <4>1
      <3> QED BY <1>7, <3>1 DEF Injection, IsInjective
    <2>2. 1 \in Int /\ n \in Int
      BY <1>6
    <2>3. IsFiniteSet(1..n) /\ Cardinality(1..n) = IF 1 > n THEN 0 ELSE n - 1 + 1
      BY <2>2, FS_Interval, Zenon
    <2>4. Cardinality(1..n) = Cardinality(kept)
      BY <1>6, <2>3 DEF n
    <2>5. order \in Surjection(1..n, kept)
      BY <1>2, <2>1, <2>4, FS_Injection
    <2> QED BY <2>5 DEF Surjection
  <1>11. s = <<>> <=> n = 0
    <2>1. s = <<>> <=> DOMAIN s = {}
      BY <1>3 DEF s
    <2>2. 1..n = {} <=> n = 0
      BY <1>6
    <2> QED BY <1>8, <2>1, <2>2
  <1> QED BY <1>6, <1>7, <1>8, <1>9, <1>10, <1>11 DEF IsOrdered, n, kept, s

(* What the order of the utterances comes to.                                *)
InOrder(s, n, heard) ==
    /\ n \in Nat /\ DOMAIN s = 1..n
    /\ \A k \in 1..n : s[k].start \in Int /\ s[k].end \in Int /\ s[k].start <= s[k].end
    /\ heard = {s[k] : k \in 1..n}
    /\ \A k, l \in 1..n : k < l => s[k].start <= s[l].start
(* ... and of one speaker. *)
Apart(s, n) ==
    /\ \A k \in 1..n : s[k].start < s[k].end
    /\ \A k, l \in 1..n : k < l => s[k].end <= s[l].start

(* Ordered utterances start one after another; of one speaker they do not    *)
(* overlap.                                                                  *)
LEMMA InOrderIs ==
    ASSUME NEW segments \in Seq(Segment), NEW s, NEW order, NEW n, IsOrdered(s, segments, order, n)
    PROVE  /\ InOrder(s, n, Heard(segments))
           /\ OneSpeaker(segments) => Apart(s, n)
  <1> DEFINE kept == Kept(segments)
  <1>1. \A i \in kept : segments[i].start \in Int /\ segments[i].end \in Int
                        /\ segments[i].start <= segments[i].end
    <2> SUFFICES ASSUME NEW i \in DOMAIN segments, segments[i].end >= segments[i].start
                 PROVE  segments[i].start \in Int /\ segments[i].end \in Int
                        /\ segments[i].start <= segments[i].end
      BY DEF Kept
    <2>1. DOMAIN segments = 1..Len(segments) /\ Len(segments) \in Nat
      OBVIOUS
    <2>2. segments[i] \in Segment
      BY <2>1
    <2> QED BY <2>2 DEF Segment
  <1>2. /\ n \in Nat /\ DOMAIN s = 1..n
        /\ \A k \in 1..n : order[k] \in kept /\ s[k] = segments[order[k]]
        /\ \A i \in kept : \E k \in 1..n : order[k] = i
        /\ \A k, l \in 1..n : k < l => order[k] # order[l] /\ s[k].start <= s[l].start
    BY DEF IsOrdered
  <1>3. \A k \in 1..n : s[k].start \in Int /\ s[k].end \in Int /\ s[k].start <= s[k].end
    BY <1>1, <1>2
  <1>4. Heard(segments) = {s[k] : k \in 1..n}
    <2> DEFINE L == Heard(segments)
               R == {s[k] : k \in 1..n}
    <2>1. ASSUME NEW u \in L PROVE u \in R
      <3>1. PICK i \in kept : u = segments[i]
        BY DEF Heard, ToSet, Kept
      <3>2. PICK k \in 1..n : order[k] = i
        BY <1>2
      <3> QED BY <1>2, <3>1, <3>2
    <2>2. ASSUME NEW u \in R PROVE u \in L
      <3>1. PICK k \in 1..n : u = segments[order[k]]
        BY <1>2
      <3>2. order[k] \in DOMAIN segments /\ segments[order[k]].end >= segments[order[k]].start
        BY <1>2 DEF Kept
      <3> QED BY <3>1, <3>2 DEF Heard, ToSet
    <2> HIDE DEF L, R
    <2>3. L = R
      BY <2>1, <2>2
    <2> QED BY <2>3 DEF L, R
  <1>5. InOrder(s, n, Heard(segments))
    BY <1>2, <1>3, <1>4, Zenon DEF InOrder
  <1>6. ASSUME OneSpeaker(segments) PROVE Apart(s, n)
    <2>1. \A i, j \in kept : IF i = j THEN segments[i].start < segments[i].end
              ELSE segments[i].end <= segments[j].start \/ segments[j].end <= segments[i].start
      BY <1>6, Zenon DEF OneSpeaker, Kept
    <2> HIDE DEF kept
    <2>2. \A k \in 1..n : s[k].start < s[k].end
      BY <1>2, <2>1
    <2>3. ASSUME NEW k \in 1..n, NEW l \in 1..n, k < l PROVE s[k].end <= s[l].start
      <3>1. s[k].end <= s[l].start \/ s[l].end <= s[k].start
        BY <1>2, <2>1, <2>3
      <3>2. s[k].start <= s[l].start
        BY <1>2, <2>3
      <3> QED BY <3>1, <3>2, <1>3, <2>2
    <2> QED BY <2>2, <2>3 DEF Apart
  <1> QED BY <1>5, <1>6

--------------------------------------------------------------------------------

Pauses(s) == {i \in DOMAIN s \ {1} : s[i].start - s[i - 1].end >= LONG_PAUSE}

(* Silences, of the utterances that are heard.                               *)
Silent(heard) ==
    {u.end : u \in {v \in heard :
        /\ \E next \in heard : next.start >= v.end + LONG_PAUSE
        /\ \A o \in heard : o.start >= v.end + LONG_PAUSE \/ o.end <= v.end}}

(* Every silence is followed by a pause of its own.                          *)
LEMMA SilencesArePauses ==
    ASSUME NEW s, NEW n, NEW heard, InOrder(s, n, heard)
    PROVE  /\ IsFiniteSet(Pauses(s)) /\ IsFiniteSet(Silent(heard))
           /\ Cardinality(Silent(heard)) <= Cardinality(Pauses(s))
  <1> DEFINE S == Silent(heard)
             P == Pauses(s)
             later(e) == {i \in 1..n : s[i].start >= e + LONG_PAUSE}
             g == [e \in S |-> Min(later(e))]
  <1>1. /\ n \in Nat /\ DOMAIN s = 1..n
        /\ \A k \in 1..n : s[k].start \in Int /\ s[k].end \in Int /\ s[k].start <= s[k].end
        /\ heard = {s[k] : k \in 1..n}
        /\ \A k, l \in 1..n : k < l => s[k].start <= s[l].start
    BY DEF InOrder
  <1>2. LONG_PAUSE \in Nat
    BY DEF LONG_PAUSE
  <1>3. IsFiniteSet(1..n)
    <2>1. 1 \in Int /\ n \in Int
      BY <1>1
    <2> QED BY <2>1, FS_Interval, Zenon
  <1>4. ASSUME NEW e \in S
        PROVE  /\ e \in Int
               /\ \E k \in 1..n : s[k].end = e
               /\ \A k \in 1..n : s[k].start >= e + LONG_PAUSE \/ s[k].end <= e
               /\ later(e) # {}
    <2>1. PICK u \in heard : /\ e = u.end
                             /\ \E next \in heard : next.start >= u.end + LONG_PAUSE
                             /\ \A o \in heard : o.start >= u.end + LONG_PAUSE \/ o.end <= u.end
      BY DEF Silent
    <2>2. PICK k \in 1..n : u = s[k]
      BY <1>1
    <2>3. PICK l \in 1..n : s[l].start >= e + LONG_PAUSE
      BY <1>1, <2>1
    <2> QED BY <1>1, <2>1, <2>2, <2>3
  <1> HIDE DEF S
  <1>5. ASSUME NEW e \in S
        PROVE  /\ g[e] \in 2..n /\ s[g[e]].start >= e + LONG_PAUSE
               /\ \A i \in 1..n : s[i].start >= e + LONG_PAUSE => g[e] <= i
    <2> DEFINE F == later(e)
    <2>1. F \in SUBSET (1..n) /\ F # {}
      BY <1>4
    <2>2. \A i \in F : s[i].start >= e + LONG_PAUSE
      OBVIOUS
    <2>3. \A i \in 1..n : s[i].start >= e + LONG_PAUSE => i \in F
      OBVIOUS
    <2>4. g[e] = Min(F)
      OBVIOUS
    <2> HIDE DEF F, g
    <2>5. IsFiniteSet(F)
      BY <1>3, <2>1, FS_Subset
    <2>6. F \in SUBSET Int
      BY <2>1
    <2>7. Min(F) \in F /\ \A x \in F : Min(F) <= x
      BY <2>1, <2>5, <2>6, MinOf
    <2>8. g[e] # 1
      <3>1. PICK k \in 1..n : s[k].end = e
        BY <1>4
      <3>2. s[1].start <= e /\ s[1].start \in Int /\ e \in Int
        <4>1. 1 \in 1..n /\ (k = 1 \/ 1 < k)
          BY <1>1
        <4> QED BY <1>1, <1>4, <3>1, <4>1
      <3>3. s[1].start < e + LONG_PAUSE
        BY <1>2, <3>2 DEF LONG_PAUSE
      <3>4. 1 \notin F
        BY <2>2, <3>2, <3>3, <1>2
      <3> QED BY <2>4, <2>7, <3>4
    <2>9. g[e] \in F /\ \A x \in F : g[e] <= x
      BY <2>4, <2>7
    <2>10. g[e] \in 2..n
      <3> DEFINE i == g[e]
      <3>1. i \in 1..n /\ i # 1
        BY <2>1, <2>8, <2>9
      <3> HIDE DEF i
      <3>2. i \in 2..n
        BY <1>1, <3>1
      <3> QED BY <3>2 DEF i
    <2> QED BY <2>2, <2>3, <2>9, <2>10
  <1> HIDE DEF later
  <1>6. DOMAIN g = S
    OBVIOUS
  <1> HIDE DEF g
  <1>7. ASSUME NEW e \in S PROVE g[e] \in P
    <2> DEFINE i == g[e]
    <2>1. i \in 2..n /\ i \in 1..n /\ i - 1 \in 1..n /\ i \in Int /\ s[i].start >= e + LONG_PAUSE
      BY <1>1, <1>5
    <2>2. ~ (s[i - 1].start >= e + LONG_PAUSE)
      BY <1>5, <2>1
    <2> HIDE DEF i
    <2>3. s[i - 1].end <= e
      BY <1>4, <2>1, <2>2
    <2>4. s[i].start - s[i - 1].end >= LONG_PAUSE
      BY <1>1, <1>2, <1>4, <2>1, <2>3
    <2> QED BY <1>1, <2>1, <2>4 DEF Pauses, i
  <1>8. ASSUME NEW d \in S, NEW e \in S, d < e PROVE g[d] < g[e]
    <2>1. PICK k \in 1..n : s[k].end = e
      BY <1>4
    <2>2. s[k].start >= d + LONG_PAUSE
      BY <1>1, <1>4, <1>8, <2>1
    <2>3. g[d] <= k
      BY <1>5, <2>2
    <2>4. k < g[e]
      <3>1. s[k].start < e + LONG_PAUSE
        BY <1>1, <1>2, <1>4, <2>1 DEF LONG_PAUSE
      <3>2. g[e] \in 1..n /\ g[e] # k
        BY <1>1, <1>2, <1>4, <1>5, <3>1
      <3>3. ~ (g[e] < k)
        <4> SUFFICES ASSUME g[e] < k PROVE FALSE
          OBVIOUS
        <4>1. s[g[e]].start <= s[k].start
          BY <1>1, <3>2
        <4> QED BY <1>1, <1>2, <1>4, <1>5, <3>1, <3>2, <4>1
      <3> QED BY <1>1, <3>2, <3>3
    <2> QED BY <1>1, <1>5, <2>3, <2>4
  <1>9. g \in Injection(S, P)
    <2>1. \A d, e \in S : g[d] = g[e] => d = e
      <3> SUFFICES ASSUME NEW d \in S, NEW e \in S, g[d] = g[e] PROVE d = e
        OBVIOUS
      <3>1. d \in Int /\ e \in Int /\ g[d] \in Int /\ g[e] \in Int
        BY <1>1, <1>4, <1>5
      <3>2. ~ (d < e) /\ ~ (e < d)
        BY <1>8, <3>1
      <3> QED BY <3>1, <3>2
    <2>2. g \in [S -> P]
      <3>1. g = [e \in S |-> g[e]]
        BY <1>6 DEF g
      <3> QED BY <1>7, <3>1
    <2> QED BY <1>6, <2>1, <2>2 DEF Injection, IsInjective
  <1>10. IsFiniteSet(P)
    <2>1. P \in SUBSET (1..n)
      BY <1>1 DEF Pauses
    <2> HIDE DEF P
    <2> QED BY <1>3, <2>1, FS_Subset
  <1> HIDE DEF P
  <1>11. IsFiniteSet(S) /\ Cardinality(S) <= Cardinality(P)
    BY <1>9, <1>10, FS_Injection
  <1> QED BY <1>10, <1>11 DEF S, P

(* Of one speaker, every pause is a silence.                                 *)
LEMMA PausesAreSilences ==
    ASSUME NEW s, NEW n, NEW heard, InOrder(s, n, heard), Apart(s, n)
    PROVE  Cardinality(Pauses(s)) <= Cardinality(Silent(heard))
  <1> DEFINE S == Silent(heard)
             P == Pauses(s)
             h == [i \in P |-> s[i - 1].end]
  <1>1. /\ n \in Nat /\ DOMAIN s = 1..n
        /\ \A k \in 1..n : s[k].start \in Int /\ s[k].end \in Int /\ s[k].start < s[k].end
        /\ heard = {s[k] : k \in 1..n}
        /\ \A k, l \in 1..n : k < l => s[k].start <= s[l].start /\ s[k].end <= s[l].start
    BY DEF InOrder, Apart
  <1>2. LONG_PAUSE \in Nat
    BY DEF LONG_PAUSE
  <1>3. ASSUME NEW i \in P
        PROVE  /\ i \in 2..n /\ i \in 1..n /\ i - 1 \in 1..n /\ i \in Int
               /\ s[i].start >= s[i - 1].end + LONG_PAUSE
    <2>1. i \in 1..n /\ i # 1 /\ s[i].start - s[i - 1].end >= LONG_PAUSE
      BY <1>1 DEF Pauses
    <2>2. i \in 2..n /\ i - 1 \in 1..n
      BY <1>1, <2>1
    <2>3. s[i].start \in Int /\ s[i - 1].end \in Int
      BY <1>1, <2>1, <2>2
    <2> QED BY <1>2, <2>1, <2>2, <2>3
  <1> HIDE DEF P
  <1>4. ASSUME NEW i \in P PROVE h[i] \in S
    <2> DEFINE u == s[i - 1]
               next == s[i]
    <2>1. u \in heard /\ next \in heard /\ next.start >= u.end + LONG_PAUSE
      BY <1>1, <1>3
    <2>2. ASSUME NEW o \in heard PROVE o.start >= u.end + LONG_PAUSE \/ o.end <= u.end
      <3>1. PICK k \in 1..n : o = s[k]
        BY <1>1
      <3>2. CASE k >= i
        <4>1. s[i].start <= s[k].start
          BY <1>1, <1>3, <3>2
        <4> QED BY <1>1, <1>2, <1>3, <3>1, <4>1
      <3>3. CASE k = i - 1
        BY <3>1, <3>3, <1>1, <1>3
      <3>4. CASE k < i - 1
        <4>1. s[k].end <= s[i - 1].start /\ s[i - 1].start < s[i - 1].end
          BY <1>1, <1>3, <3>4
        <4> QED BY <1>1, <1>3, <3>1, <4>1
      <3> QED BY <1>1, <1>3, <3>2, <3>3, <3>4
    <2> HIDE DEF u, next
    <2>3. u.end \in S
      BY <2>1, <2>2 DEF Silent
    <2> QED BY <2>3 DEF u
  <1>5. \A i, j \in P : h[i] = h[j] => i = j
    <2>1. ASSUME NEW i \in P, NEW j \in P, i < j PROVE h[i] # h[j]
      <3>1. s[i - 1].end <= s[j - 1].start /\ s[j - 1].start < s[j - 1].end
        BY <1>1, <1>3, <2>1
      <3>2. s[i - 1].end \in Int /\ s[j - 1].start \in Int /\ s[j - 1].end \in Int
        BY <1>1, <1>3
      <3> QED BY <3>1, <3>2
    <2> HIDE DEF h
    <2> SUFFICES ASSUME NEW i \in P, NEW j \in P, h[i] = h[j] PROVE i = j
      OBVIOUS
    <2>2. ~ (i < j) /\ ~ (j < i)
      BY <2>1
    <2> QED BY <1>3, <2>2
  <1>6. h \in Injection(P, S)
    BY <1>4, <1>5 DEF Injection, IsInjective
  <1> HIDE DEF S, h
  <1>7. IsFiniteSet(S)
    BY SilencesArePauses DEF S
  <1>8. Cardinality(P) <= Cardinality(S)
    BY <1>6, <1>7, FS_Injection
  <1> QED BY <1>8 DEF P, S

(* ... and delay, speech and pauses follow each other.                       *)
LEMMA FollowEachOther ==
    ASSUME NEW s, NEW n, NEW heard, InOrder(s, n, heard), Apart(s, n), n > 0
    PROVE  s[1].start + Total([i \in DOMAIN s |-> Length(s[i])]) + LONG_PAUSE * Cardinality(Pauses(s))
             <= s[n].end
  <1> DEFINE len == [i \in DOMAIN s |-> Length(s[i])]
             spoken(k) == SumOver(len, 1..k)
             before(k) == {i \in Pauses(s) : i <= k}
             silent(k) == Cardinality(before(k))
             Fits(k) == s[1].start + spoken(k) + LONG_PAUSE * silent(k) <= s[k].end
             bad == {k \in 1..n : ~Fits(k)}
  <1>1. /\ n \in Nat /\ DOMAIN s = 1..n
        /\ \A k \in 1..n : s[k].start \in Int /\ s[k].end \in Int /\ s[k].start < s[k].end
        /\ \A k, l \in 1..n : k < l => s[k].end <= s[l].start
    BY DEF InOrder, Apart
  <1>2. \A k \in 1..n : len[k] \in Int /\ len[k] = s[k].end - s[k].start
    BY <1>1 DEF Length
  <1>3. IsFiniteSet(Pauses(s)) /\ \A k \in 1..n : IsFiniteSet(1..k) /\ IsFiniteSet(1..(k - 1))
    <2>1. ASSUME NEW k \in 1..n PROVE IsFiniteSet(1..k) /\ IsFiniteSet(1..(k - 1))
      <3>1. 1 \in Int /\ k \in Int /\ k - 1 \in Int
        BY <1>1
      <3> QED BY <3>1, FS_Interval, Zenon
    <2> QED BY <2>1, SilencesArePauses
  <1>4. \A k \in Int : IsFiniteSet(before(k)) /\ silent(k) \in Nat
    <2> SUFFICES ASSUME NEW k \in Int PROVE IsFiniteSet(before(k)) /\ silent(k) \in Nat
      OBVIOUS
    <2>1. before(k) \in SUBSET Pauses(s)
      OBVIOUS
    <2> HIDE DEF before
    <2>2. IsFiniteSet(before(k))
      BY <1>3, <2>1, FS_Subset
    <2> QED BY <2>2, FS_CardinalityType
  <1>5. Pauses(s) = {i \in 2..n : s[i].start - s[i - 1].end >= LONG_PAUSE}
    BY <1>1 DEF Pauses
  <1>6. \A k \in 1..n : spoken(k) \in Int
    <2> SUFFICES ASSUME NEW k \in 1..n PROVE spoken(k) \in Int
      OBVIOUS
    <2>1. \A i \in 1..k : len[i] \in Int
      BY <1>1, <1>2
    <2> HIDE DEF len
    <2> QED BY <1>3, <2>1, SumType
  <1>7. Fits(1)
    <2>1. spoken(1) = len[1]
      <3>1. 1..1 = {} \cup {1} /\ 1 \notin {} /\ 1 \in 1..n
        BY <1>1
      <3> HIDE DEF len
      <3>2. SumOver(len, {} \cup {1}) = len[1] + SumOver(len, {})
        BY <1>2, <3>1, FS_EmptySet, SumAdded
      <3>3. SumOver(len, 1..1) = SumOver(len, {} \cup {1})
        BY <3>1, Zenon
      <3> QED BY <1>2, <3>1, <3>2, <3>3, SumEmpty
    <2>2. silent(1) = 0
      <3>1. before(1) = {}
        BY <1>5
      <3> QED BY <3>1, FS_EmptySet, Zenon
    <2>3. LONG_PAUSE * 0 = 0 /\ 1 \in 1..n
      BY <1>1 DEF LONG_PAUSE
    <2> HIDE DEF spoken, silent, len
    <2> QED BY <1>1, <1>2, <2>1, <2>2, <2>3
  <1>8. ASSUME NEW k \in 2..n, Fits(k - 1) PROVE Fits(k)
    <2>0. k \in 1..n /\ k - 1 \in 1..n /\ k \in Int
      BY <1>1
    <2>1. spoken(k) = len[k] + spoken(k - 1)
      <3>1. 1..k = (1..(k - 1)) \cup {k} /\ k \notin 1..(k - 1)
        BY <2>0
      <3>2. \A i \in (1..(k - 1)) \cup {k} : len[i] \in Int
        BY <1>1, <1>2, <2>0
      <3> HIDE DEF len
      <3>3. SumOver(len, (1..(k - 1)) \cup {k}) = len[k] + SumOver(len, 1..(k - 1))
        BY <1>3, <2>0, <3>1, <3>2, SumAdded
      <3>4. SumOver(len, 1..k) = SumOver(len, (1..(k - 1)) \cup {k})
        BY <3>1, Zenon
      <3> QED BY <3>3, <3>4
    <2>2. s[k - 1].end <= s[k].start
      BY <1>1, <2>0
    <2> DEFINE x == spoken(k - 1)
               y == silent(k - 1)
    <2>a. /\ x \in Int /\ y \in Nat /\ spoken(k) = len[k] + x
          /\ s[1].start + x + LONG_PAUSE * y <= s[k - 1].end
      BY <1>4, <1>6, <1>8, <2>0, <2>1
    <2>b. /\ s[1].start \in Int /\ s[k].start \in Int /\ s[k].end \in Int /\ s[k - 1].end \in Int
          /\ len[k] = s[k].end - s[k].start
      BY <1>1, <1>2, <2>0
    <2>c. \A i : i \in Pauses(s) => i \in Int
      BY <1>5
    <2>3. CASE k \in Pauses(s)
      <3>1. s[k].start >= s[k - 1].end + LONG_PAUSE
        BY <1>5, <2>b, <2>3 DEF LONG_PAUSE
      <3>2. before(k) = before(k - 1) \cup {k} /\ k \notin before(k - 1)
        BY <2>c, <2>3, <2>0
      <3>3. silent(k) = y + 1
        <4> DEFINE T == before(k - 1)
        <4>1. IsFiniteSet(T) /\ k \notin T /\ before(k) = T \cup {k}
          BY <1>4, <2>0, <3>2
        <4> HIDE DEF T
        <4>2. Cardinality(T \cup {k}) = Cardinality(T) + 1
          BY <4>1, FS_AddElement
        <4> QED BY <4>1, <4>2, Zenon DEF T
      <3> HIDE DEF x, y, spoken, silent, len
      <3>4. s[1].start + (len[k] + x) + LONG_PAUSE * (y + 1) <= s[k].end
        BY <2>a, <2>b, <3>1 DEF LONG_PAUSE
      <3> QED BY <2>a, <3>3, <3>4, Zenon
    <2>4. CASE k \notin Pauses(s)
      <3>1. before(k) = before(k - 1)
        <4>1. \A i \in Pauses(s) : i <= k <=> i <= k - 1
          BY <2>c, <2>4, <2>0
        <4> QED BY <4>1
      <3>2. silent(k) = y
        BY <3>1, Zenon
      <3> HIDE DEF x, y, spoken, silent, len
      <3>4. s[1].start + (len[k] + x) + LONG_PAUSE * y <= s[k].end
        BY <2>a, <2>b, <2>2 DEF LONG_PAUSE
      <3> QED BY <2>a, <3>2, <3>4, Zenon
    <2> QED BY <2>3, <2>4
  <1> HIDE DEF Fits
  <1>9. bad = {}
    <2> SUFFICES ASSUME bad # {} PROVE FALSE
      OBVIOUS
    <2>1. bad \in SUBSET Int /\ bad \in SUBSET (1..n) /\ IsFiniteSet(1..n)
      BY <1>1, <1>3
    <2>2. \A k \in bad : k \in 1..n /\ ~Fits(k)
      OBVIOUS
    <2>3. \A k \in 1..n : k \notin bad => Fits(k)
      OBVIOUS
    <2> HIDE DEF bad
    <2>4. IsFiniteSet(bad)
      BY <2>1, FS_Subset
    <2>5. Min(bad) \in bad /\ \A k \in bad : Min(bad) <= k
      BY <2>1, <2>4, MinOf
    <2> DEFINE k == Min(bad)
    <2>6. k \in 1..n /\ ~Fits(k) /\ \A i \in bad : k <= i
      BY <2>2, <2>5
    <2> HIDE DEF k
    <2>7. k \in 2..n
      <3>1. k # 1
        BY <1>7, <2>6
      <3> QED BY <1>1, <2>6, <3>1
    <2>8. k - 1 \in 1..n /\ k - 1 \notin bad
      BY <1>1, <2>6, <2>7
    <2>9. Fits(k - 1)
      BY <2>3, <2>8
    <2> QED BY <1>8, <2>6, <2>7, <2>9
  <1>10. Fits(n)
    BY <1>1, <1>9
  <1>11. silent(n) = Cardinality(Pauses(s)) /\ spoken(n) = Total(len)
    <2>1. before(n) = Pauses(s)
      BY <1>1, <1>5
    <2>2. DOMAIN len = 1..n
      BY <1>1
    <2> HIDE DEF len, before
    <2> QED BY <2>1, <2>2, Zenon DEF Total
  <1> HIDE DEF silent, spoken, len
  <1> QED BY <1>10, <1>11 DEF Fits, len

--------------------------------------------------------------------------------
(* What is measured on an answer.                                            *)

(* Math.round, by the inequalities that define it.                           *)
LEMMA RoundedIs ==
    ASSUME NEW n \in Int, NEW m \in Int, m > 0
    PROVE  /\ Rounded(n, m) \in Int
           /\ 2 * (m * Rounded(n, m)) <= 2 * n + m
           /\ 2 * n < 2 * (m * Rounded(n, m)) + m
           /\ n >= 0 => Rounded(n, m) >= 0
  <1> DEFINE x == 2 * n + m
             y == 2 * m
             q == x \div y
  <1>1. x \in Int /\ y \in Int /\ y > 0
    OBVIOUS
  <1>2. q \in Int /\ y * q <= x /\ x < y * q + y
    <2> HIDE DEF x, y
    <2> QED BY <1>1, Quotient
  <1>3. Rounded(n, m) = q
    BY Zenon DEF Rounded
  <1> HIDE DEF q
  <1>4. y * q = 2 * (m * q) /\ m * q \in Int
    BY <1>2
  <1>5. n >= 0 => q >= 0
    <2> SUFFICES ASSUME n >= 0, q + 1 <= 0 PROVE FALSE
      BY <1>2
    <2>1. y * (q + 1) <= 0
      BY <1>1, <1>2
    <2>2. y * (q + 1) = y * q + y
      BY <1>1, <1>2
    <2> QED BY <1>2, <2>1, <2>2
  <1> QED BY <1>2, <1>3, <1>4, <1>5

(* round1 returns tenths, at most half a tenth away, and keeps what is       *)
(* tenths.                                                                   *)
LEMMA Round1Is ==
    ASSUME NEW t \in Int
    PROVE  /\ round1(t) \in Int /\ round1(t) <= t + 5
           /\ \E k \in Int : round1(t) = 10 * k
           /\ t >= 0 => round1(t) >= 0
           /\ \A k \in Int : t = 10 * k => round1(t) = t
  <1> DEFINE q == Rounded(t, 10)
  <1>1. /\ q \in Int /\ 2 * (10 * q) <= 2 * t + 10 /\ 2 * t < 2 * (10 * q) + 10
        /\ t >= 0 => q >= 0
    BY RoundedIs
  <1>2. round1(t) = 10 * q
    BY Zenon DEF round1
  <1> HIDE DEF q
  <1> QED BY <1>1, <1>2

(* A sum of natural numbers is one, and no less than any of them.            *)
LEMMA SumNat ==
    ASSUME NEW f, NEW S, IsFiniteSet(S), \A x \in S : f[x] \in Nat
    PROVE  SumOver(f, S) \in Nat /\ \A x \in S : f[x] <= SumOver(f, S)
  <1> DEFINE P == {T \in SUBSET S : SumOver(f, T) \in Nat}
  <1>1. {} \in P
    BY SumEmpty
  <1>2. ASSUME NEW T \in P, NEW x \in S \ T PROVE T \cup {x} \in P
    <2>1. IsFiniteSet(T) /\ x \notin T /\ \A y \in T \cup {x} : f[y] \in Int
      BY FS_Subset
    <2>2. SumOver(f, T \cup {x}) = f[x] + SumOver(f, T)
      BY <2>1, SumAdded
    <2> QED BY <2>2
  <1>3. P \in SUBSET SUBSET S
    OBVIOUS
  <1>4. \A T \in P : SumOver(f, T) \in Nat
    OBVIOUS
  <1>5. \A T \in SUBSET S : SumOver(f, T) \in Nat
    <2> SUFFICES ASSUME NEW T \in SUBSET S PROVE T \in P
      BY <1>4
    <2> DEFINE Q == P \cap SUBSET T
    <2>1. {} \in Q /\ Q \in SUBSET SUBSET T
      BY <1>1
    <2>2. \A U \in Q : \A x \in T \ U : U \cup {x} \in Q
      <3> SUFFICES ASSUME NEW U \in Q, NEW x \in T \ U PROVE U \cup {x} \in Q
        OBVIOUS
      <3>1. U \in P /\ x \in S \ U
        OBVIOUS
      <3> HIDE DEF P
      <3>2. U \cup {x} \in P
        BY <1>2, <3>1
      <3> QED BY <3>2
    <2>3. IsFiniteSet(T)
      BY FS_Subset
    <2> HIDE DEF Q, P
    <2>4. T \in Q
      BY <2>1, <2>2, <2>3, FiniteInduction
    <2> QED BY <2>4 DEF Q
  <1>6. ASSUME NEW x \in S PROVE f[x] <= SumOver(f, S)
    <2>1. SumOver(f, S) = f[x] + SumOver(f, S \ {x})
      BY SumElement
    <2>2. SumOver(f, S \ {x}) \in Nat
      BY <1>5
    <2> QED BY <2>1, <2>2
  <1> QED BY <1>5, <1>6

Times(s) == Total([i \in DOMAIN s |-> Length(s[i])])

(* What is measured on an answer whose utterances are in order.              *)
LEMMA MeasuredIs ==
    ASSUME NEW segments \in Seq(Segment), NEW words \in Nat \cup {None},
           NEW recording \in Nat \cup {None}
    PROVE  LET m == computeAnswerSpeechMetrics(
                        [words |-> words, segments |-> segments, recording |-> recording])
               s == Ordered(segments)
           IN  /\ m.wordCount \in Nat /\ m.recording = recording
               /\ Times(s) \in Nat /\ m.speaking = round1(Times(s))
               /\ m.speaking \in Nat /\ \E k \in Int : m.speaking = 10 * k
               /\ m.wordsPerMinute = wordsPerMinute(m.wordCount, m.speaking)
               /\ m.talkRatio = talkRatio(m.speaking, recording)
               /\ m.longPauses = Cardinality(Pauses(s))
               /\ m.responseDelay = IF s = <<>> THEN None ELSE round1(s[1].start)
  <1> DEFINE input == [words |-> words, segments |-> segments, recording |-> recording]
             m == computeAnswerSpeechMetrics(input)
             s == Ordered(segments)
             len == [i \in DOMAIN s |-> Length(s[i])]
  <1>1. PICK n, order : IsOrdered(s, segments, order, n)
    BY OrderedIs
  <1>2. InOrder(s, n, Heard(segments))
    BY <1>1, InOrderIs
  <1> HIDE DEF s
  <1>3. Times(s) \in Nat
    <2>1. /\ n \in Nat /\ DOMAIN s = 1..n
          /\ \A k \in 1..n : s[k].start \in Int /\ s[k].end \in Int /\ s[k].start <= s[k].end
      BY <1>2 DEF InOrder
    <2>2. DOMAIN len = 1..n /\ \A k \in 1..n : len[k] \in Nat
      BY <2>1 DEF Length
    <2>3. IsFiniteSet(1..n)
      <3>1. 1 \in Int /\ n \in Int
        BY <2>1
      <3> QED BY <3>1, FS_Interval, Zenon
    <2>4. Times(s) = Total(len)
      BY Zenon DEF Times
    <2> HIDE DEF len
    <2> QED BY <2>2, <2>3, <2>4, SumNat DEF Total
  <1>4. countWords(words) \in Nat
    BY NoneAssumption DEF countWords
  <1>5. round1(Times(s)) \in Nat /\ \E k \in Int : round1(Times(s)) = 10 * k
    <2> DEFINE t == Times(s)
    <2>1. t \in Int /\ t >= 0
      BY <1>3
    <2> HIDE DEF t
    <2>2. round1(t) \in Int /\ round1(t) >= 0 /\ \E k \in Int : round1(t) = 10 * k
      BY <2>1, Round1Is, Zenon
    <2>3. round1(t) \in Nat
      BY <2>2
    <2> QED BY <2>2, <2>3, Zenon DEF t
  <1>6. input.words = words /\ input.segments = segments /\ input.recording = recording
    OBVIOUS
  <1> HIDE DEF input
  <1>7. /\ m.wordCount = countWords(words) /\ m.recording = recording
        /\ m.speaking = round1(Times(s))
        /\ m.wordsPerMinute = wordsPerMinute(countWords(words), round1(Times(s)))
        /\ m.talkRatio = talkRatio(round1(Times(s)), recording)
        /\ m.longPauses = Quantify(DOMAIN s \ {1}, LAMBDA i : s[i].start - s[i - 1].end >= LONG_PAUSE)
        /\ m.responseDelay = IF s = <<>> THEN None ELSE round1(s[1].start)
    BY <1>6 DEF computeAnswerSpeechMetrics, s, Times
  <1>8. m.longPauses = Cardinality(Pauses(s))
    BY <1>7, Zenon DEF Quantify, Pauses
  <1> HIDE DEF m
  <1>9. m.wordCount \in Nat /\ m.speaking \in Nat /\ \E k \in Int : m.speaking = 10 * k
    BY <1>4, <1>5, <1>7
  <1> QED BY <1>3, <1>7, <1>8, <1>9, Zenon DEF m, s, input

(* A talk ratio is a percentage of a recording that has a length.            *)
LEMMA TalkRatioIs ==
    ASSUME NEW speaking \in Nat, NEW recording \in Nat \cup {None},
           talkRatio(speaking, recording) # None
    PROVE  LET r == Rounded(100 * speaking, recording)
           IN  /\ recording \in Nat /\ recording > 0
               /\ r \in Nat
               /\ talkRatio(speaking, recording) = IF 100 <= r THEN 100 ELSE r
               /\ talkRatio(speaking, recording) \in 0..100
  <1> DEFINE r == Rounded(100 * speaking, recording)
             v == talkRatio(speaking, recording)
  <1>1. recording \in Nat /\ recording > 0 /\ v = Min({100, r})
    BY DEF talkRatio
  <1>2. r \in Int /\ r >= 0
    <2>1. 100 * speaking \in Int /\ 100 * speaking >= 0 /\ recording \in Int
      BY <1>1
    <2> QED BY <1>1, <2>1, RoundedIs
  <1> HIDE DEF r, v
  <1>3. v = IF 100 <= r THEN 100 ELSE r
    BY <1>1, <1>2, Extremes
  <1> QED BY <1>1, <1>2, <1>3 DEF r, v

(* An answer is measured as it was heard, whatever its segments are.         *)
LEMMA AnswerIs ==
    ASSUME NEW segments \in Seq(Segment), NEW words \in Nat \cup {None},
           NEW recording \in Nat \cup {None}, NEW answer, answer.segments = segments
    PROVE  AnswerMeasured(answer, computeAnswerSpeechMetrics(
               [words |-> words, segments |-> segments, recording |-> recording]))
  <1> DEFINE input == [words |-> words, segments |-> segments, recording |-> recording]
             m == computeAnswerSpeechMetrics(input)
             s == Ordered(segments)
             heard == Heard(segments)
             silent == Silent(heard)
             pauses == Pauses(s)
             ends == {u.end : u \in heard}
  <1>1. /\ Times(s) \in Nat /\ m.speaking = round1(Times(s)) /\ m.speaking \in Nat
        /\ m.talkRatio = talkRatio(m.speaking, recording)
        /\ m.longPauses = Cardinality(pauses)
        /\ m.responseDelay = IF s = <<>> THEN None ELSE round1(s[1].start)
    BY MeasuredIs, Zenon
  <1>2. PICK order, n : IsOrdered(s, segments, order, n)
    BY OrderedIs
  <1>3. InOrder(s, n, heard) /\ (OneSpeaker(segments) => Apart(s, n)) /\ (s = <<>> <=> n = 0)
    <2>1. InOrder(s, n, heard) /\ (OneSpeaker(segments) => Apart(s, n))
      BY <1>2, InOrderIs
    <2> HIDE DEF s
    <2>2. s = <<>> <=> n = 0
      BY <1>2 DEF IsOrdered
    <2> QED BY <2>1, <2>2
  <1> HIDE DEF m, s, heard
  <1>4. /\ Silences(segments) = silent
        /\ IsFiniteSet(pauses) /\ IsFiniteSet(silent) /\ Cardinality(silent) <= Cardinality(pauses)
    <2>1. Silences(segments) = silent
      BY Zenon DEF Silences, Silent, heard
    <2> QED BY <1>3, <2>1, SilencesArePauses, Zenon
  <1>5. Cardinality(silent) \in Nat /\ Cardinality(pauses) \in Nat
    BY <1>4, FS_CardinalityType
  <1> HIDE DEF silent, pauses
  <1>6. m.talkRatio # None => m.talkRatio \in 0..100
    BY <1>1, TalkRatioIs, Zenon
  <1>7. m.longPauses >= Cardinality(Silences(segments))
    BY <1>1, <1>4, <1>5
  <1>8. ASSUME OneSpeaker(segments)
        PROVE  /\ m.longPauses = Cardinality(Silences(segments))
               /\ m.responseDelay # None =>
                     m.responseDelay + m.speaking + LONG_PAUSE * m.longPauses <= Max(ends) + 10
    <2>1. Apart(s, n)
      BY <1>3, <1>8
    <2>2. m.longPauses = Cardinality(Silences(segments))
      <3>1. Cardinality(pauses) <= Cardinality(silent)
        BY <1>3, <2>1, PausesAreSilences DEF pauses, silent
      <3> QED BY <1>1, <1>4, <1>5, <3>1
    <2>3. ASSUME m.responseDelay # None
          PROVE  m.responseDelay + m.speaking + LONG_PAUSE * m.longPauses <= Max(ends) + 10
      <3>1. s # <<>> /\ m.responseDelay = round1(s[1].start)
        BY <1>1, <2>3
      <3>2. /\ n \in Nat /\ n > 0 /\ 1 \in 1..n /\ n \in 1..n
            /\ s[1].start \in Int /\ s[n].end \in Int
            /\ heard = {s[k] : k \in 1..n}
            /\ \A k \in 1..n : s[k].end \in Int
        BY <1>3, <3>1 DEF InOrder
      <3> DEFINE t == Times(s)
                 p == Cardinality(pauses)
                 d == s[1].start
                 e == s[n].end
      <3>3. d + t + LONG_PAUSE * p <= e
        BY <1>3, <2>1, <3>2, FollowEachOther DEF Times, pauses
      <3>4. e <= Max(ends) /\ Max(ends) \in Int
        <4>1. ends = {s[k].end : k \in 1..n}
          BY <3>2
        <4> DEFINE f == [k \in 1..n |-> s[k].end]
        <4>2. DOMAIN f = 1..n /\ ends = {f[k] : k \in DOMAIN f}
          BY <4>1
        <4>3. IsFiniteSet(1..n)
          <5>1. 1 \in Int /\ n \in Int
            BY <3>2
          <5> QED BY <5>1, FS_Interval, Zenon
        <4>4. e \in ends /\ ends \in SUBSET Int
          BY <3>2, <4>1
        <4> HIDE DEF ends, f, e
        <4>5. IsFiniteSet(ends)
          BY <4>2, <4>3, ImageFinite, Zenon
        <4>6. Max(ends) \in ends /\ \A x \in ends : x <= Max(ends)
          BY <4>4, <4>5, MaxOf
        <4> QED BY <4>4, <4>6
      <3> HIDE DEF t, p, d, e, ends
      <3>5. round1(d) <= d + 5 /\ round1(d) \in Int
        BY <3>2, Round1Is, Zenon DEF d
      <3>6. round1(t) <= t + 5 /\ round1(t) \in Int /\ t \in Int
        <4>1. t \in Int
          BY <1>1 DEF t
        <4> QED BY <4>1, Round1Is, Zenon
      <3>7. m.responseDelay = round1(d) /\ m.speaking = round1(t) /\ m.longPauses = p
        BY <1>1, <3>1, Zenon DEF d, t, p
      <3>8. d \in Int /\ e \in Int /\ p \in Nat
        BY <1>5, <3>2 DEF d, e, p
      <3>9. round1(d) + round1(t) + LONG_PAUSE * p <= Max(ends) + 10
        BY <3>3, <3>4, <3>5, <3>6, <3>8 DEF LONG_PAUSE
      <3> QED BY <3>7, <3>9, Zenon
    <2> QED BY <2>2, <2>3
  <1> QED BY <1>6, <1>7, <1>8, Zenon DEF AnswerMeasured, m, heard

--------------------------------------------------------------------------------
(* What is measured on an interview.                                         *)

(* Sums keep an inequality between multiples of what is added.               *)
LEMMA SumScaled ==
    ASSUME NEW f, NEW g, NEW S, IsFiniteSet(S), NEW a \in Int, NEW b \in Int,
           \A x \in S : f[x] \in Int /\ g[x] \in Int /\ a * f[x] <= b * g[x]
    PROVE  a * SumOver(f, S) <= b * SumOver(g, S)
  <1> DEFINE P == {T \in SUBSET S : a * SumOver(f, T) <= b * SumOver(g, T)}
  <1>1. {} \in P
    <2>1. a * 0 <= b * 0
      OBVIOUS
    <2> QED BY <2>1, SumEmpty
  <1>2. ASSUME NEW T \in P, NEW x \in S \ T PROVE T \cup {x} \in P
    <2>1. IsFiniteSet(T) /\ x \notin T /\ \A y \in T \cup {x} : f[y] \in Int /\ g[y] \in Int
      BY FS_Subset
    <2>2. /\ SumOver(f, T \cup {x}) = f[x] + SumOver(f, T)
          /\ SumOver(g, T \cup {x}) = g[x] + SumOver(g, T)
      BY <2>1, SumAdded
    <2> DEFINE i == f[x]
               j == SumOver(f, T)
               k == g[x]
               l == SumOver(g, T)
    <2>3. i \in Int /\ k \in Int /\ j \in Int /\ l \in Int
      BY <2>1, SumType
    <2>4. a * i <= b * k /\ a * j <= b * l
      OBVIOUS
    <2> HIDE DEF i, j, k, l
    <2>5. a * (i + j) = a * i + a * j /\ b * (k + l) = b * k + b * l
      BY <2>3
    <2>6. a * i \in Int /\ a * j \in Int /\ b * k \in Int /\ b * l \in Int
      BY <2>3
    <2>7. a * (i + j) <= b * (k + l)
      BY <2>4, <2>5, <2>6
    <2>8. a * SumOver(f, T \cup {x}) <= b * SumOver(g, T \cup {x})
      BY <2>2, <2>7, Zenon DEF i, j, k, l
    <2> QED BY <2>8
  <1>3. P \in SUBSET SUBSET S
    OBVIOUS
  <1> HIDE DEF P
  <1>4. S \in P
    BY <1>1, <1>2, <1>3, FiniteInduction
  <1> QED BY <1>4 DEF P

(* A sum of tenths is tenths.                                                *)
LEMMA SumOfTens ==
    ASSUME NEW f, NEW S, IsFiniteSet(S),
           \A x \in S : f[x] \in Int /\ \E k \in Int : f[x] = 10 * k
    PROVE  \E k \in Int : SumOver(f, S) = 10 * k
  <1> DEFINE g == [x \in S |-> CHOOSE k \in Int : f[x] = 10 * k]
  <1>1. \A x \in S : g[x] \in Int /\ f[x] = 10 * g[x]
    OBVIOUS
  <1> HIDE DEF g
  <1> DEFINE one == 1
             ten == 10
  <1>2. one \in Int /\ ten \in Int
    OBVIOUS
  <1>3. \A x \in S : f[x] \in Int /\ g[x] \in Int /\ one * f[x] <= ten * g[x] /\ ten * g[x] <= one * f[x]
    BY <1>1
  <1> HIDE DEF one, ten
  <1>4. one * SumOver(f, S) <= ten * SumOver(g, S) /\ ten * SumOver(g, S) <= one * SumOver(f, S)
    BY <1>2, <1>3, SumScaled
  <1>5. SumOver(f, S) \in Int /\ SumOver(g, S) \in Int
    BY <1>3, SumType
  <1>6. SumOver(f, S) = 10 * SumOver(g, S)
    BY <1>4, <1>5 DEF one, ten
  <1> QED BY <1>5, <1>6

RatiosAdd(c, f, g, S, F, G) ==
    /\ F \in Nat /\ G \in Nat /\ G > 0
    /\ Rounded(c * F, G) \in Nat
    /\ \A a \in Int : (\A x \in S : a <= Rounded(c * f[x], g[x])) => a <= Rounded(c * F, G)
    /\ \A b \in Int : (\A x \in S : Rounded(c * f[x], g[x]) <= b) => Rounded(c * F, G) <= b + 1

(* The ratio of two sums lies between the ratios of what is added.           *)
LEMMA RatioBetween ==
    ASSUME NEW f, NEW g, NEW S, IsFiniteSet(S), NEW c \in Nat,
           \A x \in S : f[x] \in Nat /\ g[x] \in Nat /\ g[x] > 0,
           S # {}
    PROVE  RatiosAdd(c, f, g, S, SumOver(f, S), SumOver(g, S))
  <1> DEFINE F == SumOver(f, S)
             G == SumOver(g, S)
  <1> SUFFICES RatiosAdd(c, f, g, S, F, G)
    OBVIOUS
  <1>0. F = SumOver(f, S) /\ G = SumOver(g, S)
    OBVIOUS
  <1> HIDE DEF F, G
  <1>1. F \in Nat /\ G \in Nat /\ G > 0
    <2>1. F \in Nat /\ G \in Nat /\ \A x \in S : g[x] <= G
      BY <1>0, SumNat
    <2> QED BY <2>1
  <1> DEFINE R == Rounded(c * F, G)
             r(x) == Rounded(c * f[x], g[x])
  <1>2. R \in Nat /\ 2 * (G * R) <= 2 * (c * F) + G /\ 2 * (c * F) < 2 * (G * R) + G
    <2> DEFINE n == c * F
    <2>1. n \in Int /\ n >= 0 /\ G \in Int
      BY <1>1
    <2> HIDE DEF n
    <2>2. /\ Rounded(n, G) \in Int /\ Rounded(n, G) >= 0
          /\ 2 * (G * Rounded(n, G)) <= 2 * n + G /\ 2 * n < 2 * (G * Rounded(n, G)) + G
      BY <1>1, <2>1, RoundedIs
    <2>3. Rounded(n, G) \in Nat
      BY <2>2
    <2> QED BY <2>2, <2>3, Zenon DEF n
  <1>3. ASSUME NEW x \in S
        PROVE  /\ r(x) \in Int
               /\ 2 * (g[x] * r(x)) <= 2 * (c * f[x]) + g[x]
               /\ 2 * (c * f[x]) < 2 * (g[x] * r(x)) + g[x]
    <2> DEFINE n == c * f[x]
    <2>1. n \in Int /\ g[x] \in Int /\ g[x] > 0
      OBVIOUS
    <2> HIDE DEF n
    <2>2. /\ Rounded(n, g[x]) \in Int
          /\ 2 * (g[x] * Rounded(n, g[x])) <= 2 * n + g[x] /\ 2 * n < 2 * (g[x] * Rounded(n, g[x])) + g[x]
      BY <2>1, RoundedIs
    <2> QED BY <2>2, Zenon DEF n
  <1> HIDE DEF R, r
  <1>4. ASSUME NEW a \in Int, \A x \in S : a <= r(x) PROVE a <= R
    <2>1. \A x \in S : f[x] \in Int /\ g[x] \in Int /\ (2 * a - 1) * g[x] <= (2 * c) * f[x]
      <3> SUFFICES ASSUME NEW x \in S PROVE (2 * a - 1) * g[x] <= (2 * c) * f[x]
        OBVIOUS
      <3> DEFINE k == r(x)
                 u == f[x]
                 v == g[x]
      <3>1. k \in Int /\ u \in Nat /\ v \in Nat /\ v > 0 /\ a <= k
            /\ 2 * (v * k) <= 2 * (c * u) + v
        BY <1>3, <1>4
      <3> HIDE DEF k, u, v
      <3>2. v * a <= v * k
        BY <3>1
      <3>3. (2 * a - 1) * v = 2 * (v * a) - v /\ (2 * c) * u = 2 * (c * u)
        BY <3>1
      <3>4. v * a \in Int /\ v * k \in Int /\ c * u \in Int
        BY <3>1
      <3>5. (2 * a - 1) * v <= (2 * c) * u
        BY <3>1, <3>2, <3>3, <3>4
      <3> QED BY <3>5 DEF u, v
    <2>2. (2 * a - 1) * G <= (2 * c) * F
      <3> DEFINE i == 2 * a - 1
                 j == 2 * c
      <3>1. i \in Int /\ j \in Int
        OBVIOUS
      <3> HIDE DEF i, j
      <3>2. \A x \in S : g[x] \in Int /\ f[x] \in Int /\ i * g[x] <= j * f[x]
        BY <2>1 DEF i, j
      <3> QED BY <3>1, <3>2, SumScaled, <1>0 DEF i, j
    <2>3. (2 * a - 1) * G = 2 * (G * a) - G /\ (2 * c) * F = 2 * (c * F)
      BY <1>1
    <2>4. G * a \in Int /\ G * R \in Int /\ c * F \in Int
      BY <1>1, <1>2
    <2>5. G * a < G * R + G
      BY <1>1, <1>2, <2>2, <2>3, <2>4
    <2> SUFFICES ASSUME R + 1 <= a PROVE FALSE
      BY <1>2
    <2>6. G * (R + 1) <= G * a
      BY <1>1, <1>2
    <2>7. G * (R + 1) = G * R + G
      BY <1>1, <1>2
    <2> QED BY <1>1, <2>4, <2>5, <2>6, <2>7
  <1>5. ASSUME NEW b \in Int, \A x \in S : r(x) <= b PROVE R <= b + 1
    <2>1. \A x \in S : f[x] \in Int /\ g[x] \in Int /\ (2 * c) * f[x] <= (2 * b + 1) * g[x]
      <3> SUFFICES ASSUME NEW x \in S PROVE (2 * c) * f[x] <= (2 * b + 1) * g[x]
        OBVIOUS
      <3> DEFINE k == r(x)
                 u == f[x]
                 v == g[x]
      <3>1. k \in Int /\ u \in Nat /\ v \in Nat /\ v > 0 /\ k <= b
            /\ 2 * (c * u) < 2 * (v * k) + v
        BY <1>3, <1>5
      <3> HIDE DEF k, u, v
      <3>2. v * k <= v * b
        BY <3>1
      <3>3. (2 * b + 1) * v = 2 * (v * b) + v /\ (2 * c) * u = 2 * (c * u)
        BY <3>1
      <3>4. v * b \in Int /\ v * k \in Int /\ c * u \in Int
        BY <3>1
      <3>5. (2 * c) * u <= (2 * b + 1) * v
        BY <3>1, <3>2, <3>3, <3>4
      <3> QED BY <3>5 DEF u, v
    <2>2. (2 * c) * F <= (2 * b + 1) * G
      <3> DEFINE i == 2 * b + 1
                 j == 2 * c
      <3>1. i \in Int /\ j \in Int
        OBVIOUS
      <3> HIDE DEF i, j
      <3>2. \A x \in S : f[x] \in Int /\ g[x] \in Int /\ j * f[x] <= i * g[x]
        BY <2>1 DEF i, j
      <3> QED BY <3>1, <3>2, SumScaled, <1>0 DEF i, j
    <2>3. (2 * b + 1) * G = 2 * (G * b) + G /\ (2 * c) * F = 2 * (c * F)
      BY <1>1
    <2>4. G * b \in Int /\ G * R \in Int /\ c * F \in Int
      BY <1>1, <1>2
    <2>5. G * R <= G * b + G
      BY <1>1, <1>2, <2>2, <2>3, <2>4
    <2> SUFFICES ASSUME b + 2 <= R PROVE FALSE
      BY <1>2
    <2>6. G * (b + 2) <= G * R
      BY <1>1, <1>2
    <2>7. G * (b + 2) = G * b + 2 * G
      BY <1>1, <1>2
    <2> QED BY <1>1, <2>4, <2>5, <2>6, <2>7
  <1>6. /\ \A a \in Int : (\A x \in S : a <= Rounded(c * f[x], g[x])) => a <= Rounded(c * F, G)
        /\ \A b \in Int : (\A x \in S : Rounded(c * f[x], g[x]) <= b) => Rounded(c * F, G) <= b + 1
    BY <1>4, <1>5, Zenon DEF R, r
  <1>7. Rounded(c * F, G) \in Nat
    BY <1>2, Zenon DEF R
  <1> QED BY <1>1, <1>6, <1>7, Zenon DEF RatiosAdd

(* What is measured on an answer, as far as the interview relies on it. *)
IsMeasured(a) ==
    /\ a.wordCount \in Nat /\ a.recording \in Nat \cup {None}
    /\ a.speaking \in Nat /\ \E k \in Int : a.speaking = 10 * k
    /\ a.wordsPerMinute = wordsPerMinute(a.wordCount, a.speaking)
    /\ a.talkRatio = talkRatio(a.speaking, a.recording)

AllMeasured(m) ==
    IsFiniteSet(DOMAIN m) /\ DOMAIN m # {} /\ \A q \in DOMAIN m : IsMeasured(m[q])

(* What lies above every lower bound and just below every upper bound of     *)
(* some values lies between them.                                            *)
LEMMA BetweenIs ==
    ASSUME NEW f, NEW v \in Int, IsFiniteSet(DOMAIN f), DOMAIN f # {},
           \A x \in DOMAIN f : f[x] \in Int,
           \A a \in Int : (\A x \in DOMAIN f : a <= f[x]) => a <= v,
           \A b \in Int : (\A x \in DOMAIN f : f[x] <= b) => v <= b + 1
    PROVE  Between(v, {f[x] : x \in DOMAIN f})
  <1> DEFINE V == {f[x] : x \in DOMAIN f}
  <1>1. V \in SUBSET Int /\ V # {} /\ \A x \in DOMAIN f : f[x] \in V
    OBVIOUS
  <1>2. IsFiniteSet(V)
    BY ImageFinite, Zenon
  <1> HIDE DEF V
  <1>3. Min(V) \in Int /\ \A y \in V : Min(V) <= y
    BY <1>1, <1>2, MinOf
  <1>4. Max(V) \in Int /\ \A y \in V : y <= Max(V)
    BY <1>1, <1>2, MaxOf
  <1>5. Min(V) <= v
    <2>1. \A x \in DOMAIN f : Min(V) <= f[x]
      BY <1>1, <1>3
    <2> QED BY <1>3, <2>1, Zenon
  <1>6. v <= Max(V) + 1
    <2>1. \A x \in DOMAIN f : f[x] <= Max(V)
      BY <1>1, <1>4
    <2> QED BY <1>4, <2>1, Zenon
  <1>7. Min(V) - 1 <= v
    BY <1>3, <1>5
  <1> QED BY <1>6, <1>7 DEF Between, V

(* The pace of the interview lies between those of its answers.              *)
LEMMA PaceBetween ==
    ASSUME NEW m, AllMeasured(m), \A q \in DOMAIN m : m[q].wordsPerMinute # None
    PROVE  Between(Aggregate(m).wordsPerMinute, {m[q].wordsPerMinute : q \in DOMAIN m})
  <1> DEFINE D == DOMAIN m
             f == [q \in D |-> m[q].wordCount]
             g == [q \in D |-> m[q].speaking]
             p == [q \in D |-> m[q].wordsPerMinute]
             F == Total(f)
             G == Total(g)
             rate == 6000
  <1>1. IsFiniteSet(D) /\ D # {}
    BY DEF AllMeasured
  <1>2. ASSUME NEW q \in D
        PROVE  /\ f[q] \in Nat /\ g[q] \in Nat /\ g[q] >= ENOUGH /\ f[q] > 0
               /\ \E k \in Int : g[q] = 10 * k
               /\ p[q] = Rounded(6000 * f[q], g[q])
    BY DEF AllMeasured, IsMeasured, wordsPerMinute
  <1>3. DOMAIN f = D /\ DOMAIN g = D /\ DOMAIN p = D /\ rate \in Nat /\ rate = 6000
    OBVIOUS
  <1>5. Aggregate(m).wordsPerMinute = wordsPerMinute(F, round1(G))
    BY Zenon DEF Aggregate
  <1>6. {m[q].wordsPerMinute : q \in D} = {p[q] : q \in DOMAIN p}
    OBVIOUS
  <1> HIDE DEF D, f, g, p
  <1>4. F = SumOver(f, D) /\ G = SumOver(g, D)
    BY <1>3 DEF Total
  <1> HIDE DEF F, G, rate
  <1>7. \A q \in D : /\ f[q] \in Nat /\ g[q] \in Nat /\ g[q] > 0 /\ g[q] \in Int
                     /\ p[q] = Rounded(rate * f[q], g[q])
    <2> SUFFICES ASSUME NEW q \in D
                 PROVE  /\ f[q] \in Nat /\ g[q] \in Nat /\ g[q] > 0 /\ g[q] \in Int
                        /\ p[q] = Rounded(rate * f[q], g[q])
      OBVIOUS
    <2>1. f[q] \in Nat /\ g[q] \in Nat /\ g[q] > 0
      BY <1>2 DEF ENOUGH
    <2> QED BY <1>2, <1>3, <2>1
  <1>8. /\ F \in Nat /\ G \in Nat /\ G > 0
        /\ Rounded(rate * F, G) \in Nat
        /\ \A a \in Int : (\A q \in D : a <= Rounded(rate * f[q], g[q])) => a <= Rounded(rate * F, G)
        /\ \A b \in Int : (\A q \in D : Rounded(rate * f[q], g[q]) <= b) => Rounded(rate * F, G) <= b + 1
    <2>1. \A q \in D : f[q] \in Nat /\ g[q] \in Nat /\ g[q] > 0
      BY <1>7
    <2>2. RatiosAdd(rate, f, g, D, SumOver(f, D), SumOver(g, D))
      BY <1>1, <1>3, <2>1, RatioBetween
    <2>3. RatiosAdd(rate, f, g, D, F, G)
      BY <1>4, <2>2
    <2> QED BY <2>3, Zenon DEF RatiosAdd
  <1>9. round1(G) = G
    <2>1. \A q \in D : g[q] \in Int /\ \E k \in Int : g[q] = 10 * k
      <3> SUFFICES ASSUME NEW q \in D PROVE g[q] \in Int /\ \E k \in Int : g[q] = 10 * k
        OBVIOUS
      <3> QED BY <1>2, <1>7
    <2>2. \E k \in Int : G = 10 * k
      BY <1>1, <1>4, <2>1, SumOfTens, Zenon
    <2>3. G \in Int
      BY <1>8
    <2> QED BY <2>2, <2>3, Round1Is, Zenon
  <1>10. F > 0 /\ G >= ENOUGH
    <2>1. PICK q \in D : TRUE
      BY <1>1
    <2>2. (\A x \in D : f[x] \in Nat) /\ (\A x \in D : g[x] \in Nat)
      BY <1>7
    <2>3. f[q] <= F /\ g[q] <= G
      BY <1>1, <1>4, <2>2, SumNat
    <2> QED BY <1>2, <1>8, <2>3 DEF ENOUGH
  <1> DEFINE v == Rounded(rate * F, G)
  <1>11. Aggregate(m).wordsPerMinute = v
    <2>1. wordsPerMinute(F, G) = Rounded(rate * F, G)
      BY <1>3, <1>10 DEF wordsPerMinute
    <2>2. Aggregate(m).wordsPerMinute = wordsPerMinute(F, G)
      BY <1>5, <1>9
    <2> QED BY <2>1, <2>2
  <1>12. /\ v \in Int
         /\ \A q \in DOMAIN p : p[q] \in Int
         /\ \A a \in Int : (\A q \in DOMAIN p : a <= p[q]) => a <= v
         /\ \A b \in Int : (\A q \in DOMAIN p : p[q] <= b) => v <= b + 1
    <2>1. \A q \in D : p[q] = Rounded(rate * f[q], g[q])
      BY <1>7
    <2>2. v \in Int
      BY <1>8
    <2>3. \A q \in D : p[q] \in Int
      <3> SUFFICES ASSUME NEW q \in D PROVE p[q] \in Int
        OBVIOUS
      <3> DEFINE n == rate * f[q]
      <3>1. n \in Int /\ g[q] \in Int /\ g[q] > 0
        BY <1>3, <1>7
      <3> HIDE DEF n
      <3>2. Rounded(n, g[q]) \in Int
        BY <3>1, RoundedIs
      <3> QED BY <2>1, <3>2, Zenon DEF n
    <2>4. ASSUME NEW a \in Int, \A q \in D : a <= p[q] PROVE a <= v
      <3>1. \A q \in D : a <= Rounded(rate * f[q], g[q])
        BY <2>1, <2>4, Zenon
      <3> QED BY <1>8, <3>1, Zenon
    <2>5. ASSUME NEW b \in Int, \A q \in D : p[q] <= b PROVE v <= b + 1
      <3>1. \A q \in D : Rounded(rate * f[q], g[q]) <= b
        BY <2>1, <2>5, Zenon
      <3> QED BY <1>8, <3>1, Zenon
    <2> HIDE DEF v
    <2>6. DOMAIN p = D
      BY <1>3
    <2> QED BY <2>2, <2>3, <2>4, <2>5, <2>6
  <1> HIDE DEF v
  <1>13. Between(v, {p[q] : q \in DOMAIN p})
    BY <1>1, <1>3, <1>12, BetweenIs
  <1> QED BY <1>6, <1>11, <1>13, Zenon DEF D

(* The talk ratio of the interview lies between those of its answers.        *)
LEMMA TalkBetween ==
    ASSUME NEW m, AllMeasured(m), \A q \in DOMAIN m : m[q].talkRatio # None
    PROVE  Between(Aggregate(m).talkRatio, {m[q].talkRatio : q \in DOMAIN m})
  <1> DEFINE D == DOMAIN m
             f == [q \in D |-> m[q].speaking]
             g == [q \in D |-> m[q].recording]
             p == [q \in D |-> m[q].talkRatio]
             F == Total(f)
             G == Total(g)
             ratio(s, l) == Rounded(100 * s, l)
             rate == 100
             r(q) == Rounded(rate * f[q], g[q])
             R == Rounded(rate * F, G)
             v == Aggregate(m).talkRatio
  <1>1. IsFiniteSet(D) /\ D # {}
    BY DEF AllMeasured
  <1>2. ASSUME NEW q \in D
        PROVE  /\ f[q] \in Nat /\ g[q] \in Nat /\ g[q] > 0
               /\ \E k \in Int : f[q] = 10 * k
               /\ r(q) \in Nat
               /\ p[q] = IF 100 <= r(q) THEN 100 ELSE r(q)
    <2> DEFINE a == m[q]
    <2>1. IsMeasured(a) /\ a.talkRatio # None
      BY DEF AllMeasured
    <2>2. f[q] = a.speaking /\ g[q] = a.recording /\ p[q] = a.talkRatio
      OBVIOUS
    <2> HIDE DEF f, g, p, a
    <2>3. /\ a.speaking \in Nat /\ a.recording \in Nat \cup {None}
          /\ a.talkRatio = talkRatio(a.speaking, a.recording)
          /\ \E k \in Int : a.speaking = 10 * k
      BY <2>1 DEF IsMeasured
    <2>4. LET x == Rounded(100 * a.speaking, a.recording)
          IN  /\ a.recording \in Nat /\ a.recording > 0 /\ x \in Nat
              /\ talkRatio(a.speaking, a.recording) = IF 100 <= x THEN 100 ELSE x
      BY <2>1, <2>3, TalkRatioIs
    <2> QED BY <2>2, <2>3, <2>4
  <1>3. DOMAIN f = D /\ DOMAIN g = D /\ DOMAIN p = D /\ rate \in Nat /\ rate = 100
    OBVIOUS
  <1>4. \A q \in D : m[q].recording \notin {None, 0}
    <2> SUFFICES ASSUME NEW q \in D PROVE m[q].recording \notin {None, 0}
      OBVIOUS
    <2>1. m[q].recording = g[q] /\ g[q] \in Nat /\ g[q] > 0
      BY <1>2
    <2> QED BY <2>1, NoneAssumption
  <1>5. v = talkRatio(round1(F), G)
    <2> DEFINE long == {q \in D : m[q].recording \notin {None, 0}}
               l == IF long = {} THEN None ELSE Total([q \in long |-> m[q].recording])
    <2>1. v = talkRatio(round1(F), l)
      BY Zenon DEF Aggregate
    <2>2. long = D
      BY <1>4
    <2>3. l = G
      BY <1>1, <2>2
    <2> QED BY <2>1, <2>3
  <1>6. {m[q].talkRatio : q \in D} = {p[q] : q \in DOMAIN p}
    OBVIOUS
  <1> HIDE DEF D, f, g, p, v
  <1>7. F = SumOver(f, D) /\ G = SumOver(g, D)
    BY <1>3 DEF Total
  <1> HIDE DEF F, G, rate
  <1>8. \A q \in D : f[q] \in Nat /\ g[q] \in Nat /\ g[q] > 0
    BY <1>2
  <1>9. RatiosAdd(rate, f, g, D, F, G)
    <2>1. RatiosAdd(rate, f, g, D, SumOver(f, D), SumOver(g, D))
      BY <1>1, <1>3, <1>8, RatioBetween
    <2> QED BY <1>7, <2>1
  <1>10. /\ F \in Nat /\ G \in Nat /\ G > 0 /\ R \in Nat
         /\ \A a \in Int : (\A q \in D : a <= r(q)) => a <= R
         /\ \A b \in Int : (\A q \in D : r(q) <= b) => R <= b + 1
    BY <1>9, Zenon DEF RatiosAdd
  <1>11. round1(F) = F
    <2>1. \A q \in D : f[q] \in Int /\ \E k \in Int : f[q] = 10 * k
      <3> SUFFICES ASSUME NEW q \in D PROVE f[q] \in Int /\ \E k \in Int : f[q] = 10 * k
        OBVIOUS
      <3>1. f[q] \in Int
        BY <1>8
      <3> QED BY <1>2, <3>1, Zenon
    <2>2. \E k \in Int : F = 10 * k
      BY <1>1, <1>7, <2>1, SumOfTens, Zenon
    <2>3. F \in Int
      BY <1>10
    <2> QED BY <2>2, <2>3, Round1Is, Zenon
  <1>12. \A q \in D : r(q) \in Nat /\ p[q] = IF 100 <= r(q) THEN 100 ELSE r(q)
    BY <1>2
  <1>13. v = IF 100 <= R THEN 100 ELSE R
    <2>1. v = talkRatio(F, G)
      BY <1>5, <1>11
    <2>2. G \in Int /\ talkRatio(F, G) = Min({100, Rounded(rate * F, G)})
      BY <1>3, <1>10, NoneAssumption DEF talkRatio
    <2>3. R \in Int /\ 100 \in Int
      BY <1>10
    <2> HIDE DEF R
    <2>4. Min({100, R}) = IF 100 <= R THEN 100 ELSE R
      BY <2>3, Extremes
    <2> QED BY <2>1, <2>2, <2>4 DEF R
  <1> HIDE DEF r, R
  <1>14. /\ v \in Int
         /\ \A q \in DOMAIN p : p[q] \in Int
         /\ \A a \in Int : (\A q \in DOMAIN p : a <= p[q]) => a <= v
         /\ \A b \in Int : (\A q \in DOMAIN p : p[q] <= b) => v <= b + 1
    <2>1. v \in Int /\ v <= 100
      BY <1>10, <1>13
    <2>2. \A q \in D : p[q] \in Int
      BY <1>12
    <2>3. ASSUME NEW a \in Int, \A q \in D : a <= p[q] PROVE a <= v
      <3>1. \A q \in D : a <= r(q) /\ a <= 100
        BY <1>12, <2>3
      <3>2. a <= R /\ a <= 100
        BY <1>1, <1>10, <3>1
      <3> QED BY <1>13, <3>2
    <2>4. ASSUME NEW b \in Int, \A q \in D : p[q] <= b PROVE v <= b + 1
      <3>1. CASE 100 <= b
        BY <2>1, <3>1
      <3>2. CASE b < 100
        <4>1. \A q \in D : r(q) <= b
          BY <1>12, <2>4, <3>2
        <4>2. R <= b + 1
          BY <1>10, <4>1
        <4> QED BY <1>10, <1>13, <4>2
      <3> QED BY <3>1, <3>2
    <2>5. DOMAIN p = D
      BY <1>3
    <2> QED BY <2>1, <2>2, <2>3, <2>4, <2>5
  <1>15. Between(v, {p[q] : q \in DOMAIN p})
    BY <1>1, <1>3, <1>14, BetweenIs
  <1> QED BY <1>6, <1>15, Zenon DEF D, v

(* All answers of an interview are measured like that.                       *)
LEMMA AnswersAreMeasured ==
    ASSUME NEW answers, DOMAIN answers # {}, IsFiniteSet(DOMAIN answers),
           \A q \in DOMAIN answers : answers[q] \in AnswerInput
    PROVE  LET m == computeSpeechMetrics(MetricsInput(answers)).perQuestion
           IN  /\ DOMAIN m = DOMAIN answers /\ AllMeasured(m)
               /\ \A q \in DOMAIN answers : AnswerMeasured(answers[q], m[q])
  <1> DEFINE inputs == MetricsInput(answers)
             m == computeSpeechMetrics(inputs).perQuestion
             input(q) == [words |-> Text(answers[q]), segments |-> answers[q].segments,
                          recording |-> answers[q].recording]
  <1>1. /\ DOMAIN m = DOMAIN answers
        /\ \A q \in DOMAIN answers : m[q] = computeAnswerSpeechMetrics(input(q))
    BY DEF computeSpeechMetrics, MetricsInput
  <1> HIDE DEF m
  <1>2. ASSUME NEW q \in DOMAIN answers
        PROVE  IsMeasured(m[q]) /\ AnswerMeasured(answers[q], m[q])
    <2> DEFINE answer == answers[q]
               segments == answer.segments
               words == Text(answer)
               recording == answer.recording
    <2>1. /\ segments \in Seq(Segment) /\ words \in Nat \cup {None}
          /\ recording \in Nat \cup {None} /\ answer.segments = segments
      BY DEF AnswerInput, Text, Segment
    <2>2. m[q] = computeAnswerSpeechMetrics(
                     [words |-> words, segments |-> segments, recording |-> recording])
      BY <1>1, Zenon
    <2> HIDE DEF answer, segments, words, recording
    <2>3. AnswerMeasured(answer, m[q])
      BY <2>1, <2>2, AnswerIs
    <2>4. /\ m[q].wordCount \in Nat /\ m[q].recording = recording
          /\ m[q].speaking \in Nat /\ \E k \in Int : m[q].speaking = 10 * k
          /\ m[q].wordsPerMinute = wordsPerMinute(m[q].wordCount, m[q].speaking)
          /\ m[q].talkRatio = talkRatio(m[q].speaking, recording)
      BY <2>1, <2>2, MeasuredIs
    <2>5. IsMeasured(m[q])
      BY <2>1, <2>4 DEF IsMeasured
    <2> QED BY <2>3, <2>5 DEF answer
  <1>3. AllMeasured(m)
    BY <1>1, <1>2, Zenon DEF AllMeasured
  <1> QED BY <1>1, <1>2, <1>3, Zenon DEF m

(* What is measured is what was heard.                                       *)
THEOREM MetricsMeasured == Spec => []MetricsAreMeasured
  <1>1. ASSUME IsFigure PROVE MetricsAreMeasured
    <2> SUFFICES ASSUME figure.kind = "evaluation" PROVE MetricsAreMeasured
      BY DEF MetricsAreMeasured
    <2>1. PICK i \in Interviews :
              /\ figure.answers = i.answers
              /\ figure.metrics = computeSpeechMetrics(MetricsInput(i.answers))
      BY <1>1 DEF IsFigure
    <2> DEFINE answers == i.answers
               m == computeSpeechMetrics(MetricsInput(answers)).perQuestion
    <2>2. /\ DOMAIN answers # {} /\ IsFiniteSet(DOMAIN answers)
          /\ \A q \in DOMAIN answers : answers[q] \in AnswerInput
      BY InterviewsAssumption
    <2>3. figure.answers = answers /\ figure.metrics.perQuestion = m
      BY <2>1
    <2>4. figure.metrics.overall = Aggregate(m)
      BY <2>1 DEF computeSpeechMetrics
    <2> HIDE DEF answers
    <2>5. /\ DOMAIN m = DOMAIN answers /\ AllMeasured(m)
          /\ \A q \in DOMAIN answers : AnswerMeasured(answers[q], m[q])
      BY <2>2, AnswersAreMeasured, Zenon
    <2> HIDE DEF m
    <2>6. (\A q \in DOMAIN m : m[q].wordsPerMinute # None) =>
              Between(Aggregate(m).wordsPerMinute, {m[q].wordsPerMinute : q \in DOMAIN m})
      BY <2>5, PaceBetween, Zenon
    <2>7. (\A q \in DOMAIN m : m[q].talkRatio # None) =>
              Between(Aggregate(m).talkRatio, {m[q].talkRatio : q \in DOMAIN m})
      BY <2>5, TalkBetween, Zenon
    <2> QED BY <2>3, <2>4, <2>5, <2>6, <2>7, Zenon DEF MetricsAreMeasured
  <1> QED BY <1>1, FigureIs, PTL

======================================================================================
