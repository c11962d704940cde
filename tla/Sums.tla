-------------------------------- MODULE Sums --------------------------------
(***************************************************************************)
(* What the ledgers' sums obey: the sum of a function over a finite set    *)
(* (SumFunctionOnSet of the community module Functions) gains f[x] with an *)
(* element x, changes by what a value changes by, and grows with the       *)
(* values.  Nothing is assumed: that the recursive function inside the sum *)
(* exists is proved first.  Every induction is by a smallest set that      *)
(* would violate the claim, so that no lemma takes an operator.            *)
(***************************************************************************)
EXTENDS FiniteSetTheorems, TLAPS

(* The element that the sum takes out of a set first. *)
First(T) == CHOOSE x \in T : TRUE

(* What the recursive function inside a sum over S has to satisfy. *)
Adds(iter, f, S) ==
    iter = [T \in SUBSET S |-> IF T = {} THEN 0 ELSE f[First(T)] + iter[T \ {First(T)}]]

LEMMA SumIsIter ==
    ASSUME NEW f, NEW S
    PROVE  SumFunctionOnSet(f, S) = (CHOOSE iter : Adds(iter, f, S))[S]
BY DEF SumFunctionOnSet, FoldFunctionOnSet, MapThenFoldSet, Adds, First

-----------------------------------------------------------------------------
(* Sets of finite sets have a smallest member. *)

LEMMA Smallest ==
    ASSUME NEW S, IsFiniteSet(S), NEW Bad \in SUBSET (SUBSET S), Bad # {}
    PROVE  \E T \in Bad : \A U \in SUBSET T : U # T => U \notin Bad
<1>1. FiniteSubsetsOf(S) = SUBSET S
  BY FS_FiniteSubsetsOfFinite
<1>2. IsWellFoundedOn(StrictSubsetOrdering(S), SUBSET S)
  BY <1>1, FS_StrictSubsetOrderingWellFounded
<1>3. PICK T \in Bad : \A U \in Bad : <<U, T>> \notin StrictSubsetOrdering(S)
  <2> HIDE DEF StrictSubsetOrdering
  <2> QED BY <1>2, WFMin
<1>4. ASSUME NEW U \in SUBSET T, U # T, U \in Bad PROVE FALSE
  BY <1>3, <1>4 DEF StrictSubsetOrdering
<1> QED BY <1>4

LEMMA FirstIn == ASSUME NEW T, T # {} PROVE First(T) \in T
BY DEF First

-----------------------------------------------------------------------------
(* The recursive function exists and is unique. *)

LEMMA AddsAgree ==
    ASSUME NEW f, NEW S, IsFiniteSet(S), NEW T \in SUBSET S, NEW U \in SUBSET S,
           NEW g, NEW h, Adds(g, f, T), Adds(h, f, U),
           NEW V, V \subseteq T, V \subseteq U
    PROVE  g[V] = h[V]
<1> DEFINE Bad == {W \in SUBSET S : W \subseteq T /\ W \subseteq U /\ g[W] # h[W]}
<1> SUFFICES ASSUME Bad # {} PROVE FALSE
  OBVIOUS
<1>1. PICK W \in Bad : \A X \in SUBSET W : X # W => X \notin Bad
  BY Smallest
<1>2. CASE W = {}
  BY <1>2 DEF Adds
<1>3. CASE W # {}
  <2> DEFINE c == First(W)
  <2>1. c \in W
    BY <1>3, FirstIn
  <2>2. g[W] = f[c] + g[W \ {c}] /\ h[W] = f[c] + h[W \ {c}]
    BY <1>3 DEF Adds
  <2>3. W \ {c} \notin Bad
    BY <1>1, <2>1
  <2> HIDE DEF c
  <2>4. g[W \ {c}] = h[W \ {c}]
    BY <2>3
  <2> QED BY <2>2, <2>4
<1> QED BY <1>2, <1>3

LEMMA AddsExists ==
    ASSUME NEW f, NEW S, IsFiniteSet(S)
    PROVE  \E g : Adds(g, f, S)
<1> DEFINE Bad == {T \in SUBSET S : ~ \E g : Adds(g, f, T)}
<1> SUFFICES ASSUME Bad # {} PROVE FALSE
  OBVIOUS
<1>1. PICK T \in Bad : \A U \in SUBSET T : U # T => U \notin Bad
  <2>1. Bad \in SUBSET (SUBSET S)
    OBVIOUS
  <2> HIDE DEF Bad
  <2> QED BY <2>1, Smallest
<1> DEFINE G(U) == CHOOSE g : Adds(g, f, U)
<1>2. \A U \in SUBSET T : U # T => Adds(G(U), f, U)
  BY <1>1
<1> DEFINE c == First(T)
           last == IF T = {} THEN 0 ELSE f[c] + G(T \ {c})[T \ {c}]
           g == [U \in SUBSET T |-> IF U = T THEN last ELSE G(U)[U]]
<1> HIDE DEF G
<1>3. ASSUME NEW U \in SUBSET T
      PROVE  g[U] = IF U = {} THEN 0 ELSE f[First(U)] + g[U \ {First(U)}]
  <2>1. CASE U = T /\ T = {}
    BY <2>1
  <2>2. CASE U = T /\ T # {}
    <3>1. c \in T /\ T \ {c} \in SUBSET T /\ T \ {c} # T
      BY <2>2, FirstIn
    <3>2. g[T \ {c}] = G(T \ {c})[T \ {c}]
      BY <3>1
    <3>3. g[T] = f[c] + G(T \ {c})[T \ {c}]
      BY <2>2
    <3> QED BY <2>2, <3>2, <3>3
  <2>3. CASE U # T /\ U = {}
    BY <1>2, <2>3 DEF Adds
  <2>4. CASE U # T /\ U # {}
    <3> DEFINE d == First(U)
               W == U \ {d}
    <3>1. d \in U /\ W \in SUBSET T /\ W # T /\ W \subseteq U
      BY <2>4, FirstIn
    <3>2. Adds(G(U), f, U) /\ Adds(G(W), f, W)
      BY <1>2, <2>4, <3>1
    <3>3. G(U)[U] = f[d] + G(U)[W]
      BY <2>4, <3>2 DEF Adds
    <3>4. G(U)[W] = G(W)[W]
      BY <3>1, <3>2, AddsAgree
    <3>5. g[U] = G(U)[U] /\ g[W] = G(W)[W]
      BY <2>4, <3>1
    <3> QED BY <2>4, <3>3, <3>4, <3>5
  <2> QED BY <2>1, <2>2, <2>3, <2>4
<1>4. Adds(g, f, T)
  <2> HIDE DEF last
  <2>1. g = [U \in SUBSET T |-> g[U]]
    OBVIOUS
  <2>2. [U \in SUBSET T |-> g[U]] =
          [U \in SUBSET T |-> IF U = {} THEN 0 ELSE f[First(U)] + g[U \ {First(U)}]]
    <3> HIDE DEF g
    <3> QED BY <1>3
  <2> HIDE DEF g
  <2> QED BY <2>1, <2>2 DEF Adds
<1> QED BY <1>1, <1>4

LEMMA SumByAdds ==
    ASSUME NEW f, NEW S, IsFiniteSet(S), NEW T \in SUBSET S, NEW g, Adds(g, f, S)
    PROVE  SumFunctionOnSet(f, T) = g[T]
<1>1. IsFiniteSet(T)
  BY FS_Subset
<1> DEFINE h == CHOOSE iter : Adds(iter, f, T)
<1>2. Adds(h, f, T)
  BY <1>1, AddsExists
<1>3. SumFunctionOnSet(f, T) = h[T]
  BY SumIsIter
<1> HIDE DEF h
<1> QED BY <1>2, <1>3, AddsAgree

-----------------------------------------------------------------------------
(* The equations of a sum. *)

LEMMA SumEmpty == ASSUME NEW f PROVE SumFunctionOnSet(f, {}) = 0
<1>1. IsFiniteSet({})
  BY FS_EmptySet
<1>2. PICK g : Adds(g, f, {})
  BY <1>1, AddsExists
<1>3. g[{}] = 0
  BY <1>2 DEF Adds
<1> QED BY <1>1, <1>2, <1>3, SumByAdds

LEMMA SumFirst ==
    ASSUME NEW f, NEW S, IsFiniteSet(S), S # {}
    PROVE  SumFunctionOnSet(f, S) = f[First(S)] + SumFunctionOnSet(f, S \ {First(S)})
<1>1. PICK g : Adds(g, f, S)
  BY AddsExists
<1>2. g[S] = f[First(S)] + g[S \ {First(S)}]
  BY <1>1 DEF Adds
<1>3. SumFunctionOnSet(f, S) = g[S] /\ SumFunctionOnSet(f, S \ {First(S)}) = g[S \ {First(S)}]
  BY <1>1, SumByAdds
<1> QED BY <1>2, <1>3

LEMMA SumIsInt ==
    ASSUME NEW f, NEW S, IsFiniteSet(S), \A x \in S : f[x] \in Int
    PROVE  SumFunctionOnSet(f, S) \in Int
<1> DEFINE Bad == {T \in SUBSET S : SumFunctionOnSet(f, T) \notin Int}
<1> SUFFICES ASSUME Bad # {} PROVE FALSE
  OBVIOUS
<1>1. PICK T \in Bad : \A U \in SUBSET T : U # T => U \notin Bad
  <2>1. Bad \in SUBSET (SUBSET S)
    OBVIOUS
  <2> HIDE DEF Bad
  <2> QED BY <2>1, Smallest
<1>2. T # {}
  BY SumEmpty
<1>3. First(T) \in T /\ IsFiniteSet(T)
  BY <1>2, FirstIn, FS_Subset
<1>4. SumFunctionOnSet(f, T \ {First(T)}) \in Int
  BY <1>1, <1>3
<1>5. SumFunctionOnSet(f, T) = f[First(T)] + SumFunctionOnSet(f, T \ {First(T)})
  BY <1>2, <1>3, SumFirst
<1>6. f[First(T)] \in Int
  BY <1>3
<1> QED BY <1>4, <1>5, <1>6

(* The order of the elements does not matter. *)
LEMMA SumWithout ==
    ASSUME NEW f, NEW S, IsFiniteSet(S), \A x \in S : f[x] \in Int, NEW y \in S
    PROVE  SumFunctionOnSet(f, S) = f[y] + SumFunctionOnSet(f, S \ {y})
<1> DEFINE Bad == {T \in SUBSET S : \E x \in T : SumFunctionOnSet(f, T) # f[x] + SumFunctionOnSet(f, T \ {x})}
<1> SUFFICES ASSUME Bad # {} PROVE FALSE
  OBVIOUS
<1>1. PICK T \in Bad : \A U \in SUBSET T : U # T => U \notin Bad
  <2>1. Bad \in SUBSET (SUBSET S)
    OBVIOUS
  <2> HIDE DEF Bad
  <2> QED BY <2>1, Smallest
<1>2. PICK x \in T : SumFunctionOnSet(f, T) # f[x] + SumFunctionOnSet(f, T \ {x})
  OBVIOUS
<1> DEFINE c == First(T)
<1>3. c \in T /\ IsFiniteSet(T)
  BY FirstIn, FS_Subset
<1>4. SumFunctionOnSet(f, T) = f[c] + SumFunctionOnSet(f, T \ {c})
  BY <1>3, SumFirst
<1> HIDE DEF c
<1>5. c # x
  BY <1>2, <1>4
<1>6. SumFunctionOnSet(f, T \ {c}) = f[x] + SumFunctionOnSet(f, (T \ {c}) \ {x})
  BY <1>1, <1>3, <1>5
<1>7. SumFunctionOnSet(f, T \ {x}) = f[c] + SumFunctionOnSet(f, (T \ {x}) \ {c})
  BY <1>1, <1>3, <1>5
<1>8. (T \ {x}) \ {c} = (T \ {c}) \ {x}
  OBVIOUS
<1>9. SumFunctionOnSet(f, (T \ {c}) \ {x}) \in Int
  <2>1. IsFiniteSet((T \ {c}) \ {x})
    BY <1>3, FS_Subset
  <2> QED BY <2>1, SumIsInt
<1>10. f[c] \in Int /\ f[x] \in Int
  BY <1>3
<1> DEFINE r == SumFunctionOnSet(f, (T \ {c}) \ {x})
<1>11. /\ SumFunctionOnSet(f, T) = f[c] + (f[x] + r)
       /\ f[x] + SumFunctionOnSet(f, T \ {x}) = f[x] + (f[c] + r)
  BY <1>4, <1>6, <1>7, <1>8
<1> HIDE DEF r
<1>12. r \in Int
  BY <1>9 DEF r
<1>13. f[c] + (f[x] + r) = f[x] + (f[c] + r)
  BY <1>10, <1>12
<1> QED BY <1>2, <1>11, <1>13

LEMMA SumWith ==
    ASSUME NEW f, NEW S, IsFiniteSet(S), NEW y, y \notin S, \A x \in S \cup {y} : f[x] \in Int
    PROVE  SumFunctionOnSet(f, S \cup {y}) = f[y] + SumFunctionOnSet(f, S)
<1>1. IsFiniteSet(S \cup {y}) /\ (S \cup {y}) \ {y} = S
  BY FS_AddElement
<1> QED BY <1>1, SumWithout

-----------------------------------------------------------------------------
(* Two functions. *)

(* Values that do not exceed one another. *)
LEMMA SumMonotone ==
    ASSUME NEW f, NEW g, NEW S, IsFiniteSet(S),
           \A x \in S : f[x] \in Int /\ g[x] \in Int /\ f[x] <= g[x]
    PROVE  SumFunctionOnSet(f, S) <= SumFunctionOnSet(g, S)
<1> DEFINE Bad == {T \in SUBSET S : ~(SumFunctionOnSet(f, T) <= SumFunctionOnSet(g, T))}
<1> SUFFICES ASSUME Bad # {} PROVE FALSE
  OBVIOUS
<1>1. PICK T \in Bad : \A U \in SUBSET T : U # T => U \notin Bad
  <2>1. Bad \in SUBSET (SUBSET S)
    OBVIOUS
  <2> HIDE DEF Bad
  <2> QED BY <2>1, Smallest
<1>2. T # {}
  <2>1. SumFunctionOnSet(f, {}) = 0 /\ SumFunctionOnSet(g, {}) = 0
    BY SumEmpty
  <2> QED BY <2>1
<1> DEFINE c == First(T)
           U == T \ {c}
<1>3. c \in T /\ IsFiniteSet(T) /\ IsFiniteSet(U)
  BY <1>2, FirstIn, FS_Subset
<1>4. SumFunctionOnSet(f, T) = f[c] + SumFunctionOnSet(f, U) /\ SumFunctionOnSet(g, T) = g[c] + SumFunctionOnSet(g, U)
  BY <1>2, <1>3, SumFirst
<1>5. SumFunctionOnSet(f, U) <= SumFunctionOnSet(g, U)
  BY <1>1, <1>3
<1> HIDE DEF c
<1>6. SumFunctionOnSet(f, U) \in Int /\ SumFunctionOnSet(g, U) \in Int
  BY <1>3, SumIsInt
<1>7. f[c] \in Int /\ g[c] \in Int /\ f[c] <= g[c]
  BY <1>3
<1>8. f[c] + SumFunctionOnSet(f, U) <= g[c] + SumFunctionOnSet(g, U)
  <2> HIDE DEF U
  <2> QED BY <1>5, <1>6, <1>7
<1> QED BY <1>4, <1>8

(* Values that are added one by one. *)
LEMMA SumAdds ==
    ASSUME NEW f, NEW g, NEW h, NEW S, IsFiniteSet(S),
           \A x \in S : f[x] \in Int /\ g[x] \in Int /\ h[x] = f[x] + g[x]
    PROVE  SumFunctionOnSet(h, S) = SumFunctionOnSet(f, S) + SumFunctionOnSet(g, S)
<1> DEFINE Fits(T) == SumFunctionOnSet(h, T) = SumFunctionOnSet(f, T) + SumFunctionOnSet(g, T)
           Bad == {T \in SUBSET S : ~Fits(T)}
<1> SUFFICES ASSUME Bad # {} PROVE FALSE
  OBVIOUS
<1>1. PICK T \in Bad : \A U \in SUBSET T : U # T => U \notin Bad
  <2>1. Bad \in SUBSET (SUBSET S)
    OBVIOUS
  <2> HIDE DEF Bad
  <2> QED BY <2>1, Smallest
<1>2. T # {}
  <2>1. Fits({})
    BY SumEmpty
  <2> QED BY <2>1
<1> DEFINE c == First(T)
           U == T \ {c}
<1>3. c \in T /\ IsFiniteSet(T) /\ IsFiniteSet(U)
  BY <1>2, FirstIn, FS_Subset
<1>4. /\ SumFunctionOnSet(f, T) = f[c] + SumFunctionOnSet(f, U)
      /\ SumFunctionOnSet(g, T) = g[c] + SumFunctionOnSet(g, U)
      /\ SumFunctionOnSet(h, T) = h[c] + SumFunctionOnSet(h, U)
  BY <1>2, <1>3, SumFirst
<1>5. Fits(U)
  BY <1>1, <1>3
<1> HIDE DEF c
<1>6. SumFunctionOnSet(f, U) \in Int /\ SumFunctionOnSet(g, U) \in Int
  BY <1>3, SumIsInt
<1>7. f[c] \in Int /\ g[c] \in Int /\ h[c] = f[c] + g[c]
  BY <1>3
<1>8. Fits(T)
  <2> HIDE DEF U
  <2> QED BY <1>4, <1>5, <1>6, <1>7
<1> QED BY <1>8

LEMMA SumSame ==
    ASSUME NEW f, NEW g, NEW S, IsFiniteSet(S), \A x \in S : f[x] \in Int /\ f[x] = g[x]
    PROVE  SumFunctionOnSet(f, S) = SumFunctionOnSet(g, S)
<1>1. \A x \in S : f[x] <= g[x] /\ g[x] <= f[x] /\ g[x] \in Int
  OBVIOUS
<1>2. SumFunctionOnSet(f, S) <= SumFunctionOnSet(g, S) /\ SumFunctionOnSet(g, S) <= SumFunctionOnSet(f, S)
  BY <1>1, SumMonotone
<1>3. SumFunctionOnSet(f, S) \in Int /\ SumFunctionOnSet(g, S) \in Int
  BY <1>1, SumIsInt
<1> QED BY <1>2, <1>3

(* One value changes. *)
LEMMA SumChange ==
    ASSUME NEW f, NEW g, NEW S, IsFiniteSet(S), NEW y \in S,
           \A x \in S : f[x] \in Int /\ g[x] \in Int,
           \A x \in S : x # y => g[x] = f[x]
    PROVE  SumFunctionOnSet(g, S) = SumFunctionOnSet(f, S) + (g[y] - f[y])
<1>1. IsFiniteSet(S \ {y})
  BY FS_RemoveElement
<1>2. SumFunctionOnSet(f, S \ {y}) = SumFunctionOnSet(g, S \ {y}) /\ SumFunctionOnSet(f, S \ {y}) \in Int
  BY <1>1, SumSame, SumIsInt
<1>3. SumFunctionOnSet(f, S) = f[y] + SumFunctionOnSet(f, S \ {y}) /\ SumFunctionOnSet(g, S) = g[y] + SumFunctionOnSet(g, S \ {y})
  BY SumWithout
<1>4. \A a, b, r \in Int : b + r = (a + r) + (b - a)
  OBVIOUS
<1> QED BY <1>2, <1>3, <1>4

(* Leaving out values that are not negative. *)
LEMMA SumSubset ==
    ASSUME NEW f, NEW S, IsFiniteSet(S), NEW T \in SUBSET S,
           \A x \in S : f[x] \in Int /\ f[x] >= 0
    PROVE  SumFunctionOnSet(f, T) <= SumFunctionOnSet(f, S)
<1> DEFINE Bad == {U \in SUBSET S : T \subseteq U /\ ~(SumFunctionOnSet(f, T) <= SumFunctionOnSet(f, U))}
<1> SUFFICES ASSUME Bad # {} PROVE FALSE
  OBVIOUS
<1>1. PICK U \in Bad : \A V \in SUBSET U : V # U => V \notin Bad
  <2>1. Bad \in SUBSET (SUBSET S)
    OBVIOUS
  <2> HIDE DEF Bad
  <2> QED BY <2>1, Smallest
<1>2. IsFiniteSet(T) /\ IsFiniteSet(U)
  BY FS_Subset
<1>3. SumFunctionOnSet(f, T) \in Int
  BY <1>2, SumIsInt
<1>4. PICK y \in U : y \notin T
  BY <1>3
<1>5. SumFunctionOnSet(f, U) = f[y] + SumFunctionOnSet(f, U \ {y})
  BY <1>2, SumWithout
<1>6. SumFunctionOnSet(f, T) <= SumFunctionOnSet(f, U \ {y})
  BY <1>1, <1>4
<1>7. SumFunctionOnSet(f, U \ {y}) \in Int
  <2>1. IsFiniteSet(U \ {y})
    BY <1>2, FS_RemoveElement
  <2> QED BY <2>1, SumIsInt
<1>8. f[y] \in Int /\ f[y] >= 0
  BY <1>4
<1>9. SumFunctionOnSet(f, T) <= f[y] + SumFunctionOnSet(f, U \ {y})
  BY <1>3, <1>6, <1>7, <1>8
<1> QED BY <1>5, <1>9

LEMMA SumZero ==
    ASSUME NEW f, NEW S, IsFiniteSet(S), \A x \in S : f[x] = 0
    PROVE  SumFunctionOnSet(f, S) = 0
<1> DEFINE Bad == {T \in SUBSET S : SumFunctionOnSet(f, T) # 0}
<1> SUFFICES ASSUME Bad # {} PROVE FALSE
  OBVIOUS
<1>1. PICK T \in Bad : \A U \in SUBSET T : U # T => U \notin Bad
  <2>1. Bad \in SUBSET (SUBSET S)
    OBVIOUS
  <2> HIDE DEF Bad
  <2> QED BY <2>1, Smallest
<1>2. T # {} /\ IsFiniteSet(T)
  BY SumEmpty, FS_Subset
<1>3. First(T) \in T
  BY <1>2, FirstIn
<1>4. SumFunctionOnSet(f, T) = f[First(T)] + SumFunctionOnSet(f, T \ {First(T)})
  BY <1>2, SumFirst
<1>5. SumFunctionOnSet(f, T \ {First(T)}) = 0 /\ f[First(T)] = 0
  BY <1>1, <1>3
<1> QED BY <1>4, <1>5

LEMMA SumIsNat ==
    ASSUME NEW f, NEW S, IsFiniteSet(S), \A x \in S : f[x] \in Nat
    PROVE  SumFunctionOnSet(f, S) \in Nat
<1>1. SumFunctionOnSet(f, {}) <= SumFunctionOnSet(f, S)
  BY SumSubset
<1> QED BY <1>1, SumEmpty, SumIsInt

(* One value is at most the sum of values that are not negative. *)
LEMMA SumCovers ==
    ASSUME NEW f, NEW S, IsFiniteSet(S), \A x \in S : f[x] \in Nat, NEW y \in S
    PROVE  f[y] <= SumFunctionOnSet(f, S)
<1>1. SumFunctionOnSet(f, S \ {y}) \in Nat
  <2>1. IsFiniteSet(S \ {y})
    BY FS_RemoveElement
  <2> QED BY <2>1, SumIsNat
<1>2. SumFunctionOnSet(f, S) = f[y] + SumFunctionOnSet(f, S \ {y})
  BY SumWithout
<1>3. f[y] \in Nat
  OBVIOUS
<1>4. \A a, b \in Nat : a <= a + b
  OBVIOUS
<1> QED BY <1>1, <1>2, <1>3, <1>4

-----------------------------------------------------------------------------
(* The sum of all the values of a function. *)

LEMMA TotalIsInt ==
    ASSUME NEW S, IsFiniteSet(S), NEW f \in [S -> Int]
    PROVE  SumFunction(f) \in Int
<1>1. SumFunctionOnSet(f, S) \in Int
  BY SumIsInt
<1> QED BY <1>1 DEF SumFunction

LEMMA TotalIsZero ==
    ASSUME NEW S, IsFiniteSet(S), NEW f \in [S -> Int], \A x \in S : f[x] = 0
    PROVE  SumFunction(f) = 0
<1>1. SumFunctionOnSet(f, S) = 0
  BY SumZero
<1> QED BY <1>1 DEF SumFunction

LEMMA TotalChange ==
    ASSUME NEW S, IsFiniteSet(S), NEW f \in [S -> Int], NEW g \in [S -> Int], NEW y \in S,
           \A x \in S : x # y => g[x] = f[x]
    PROVE  SumFunction(g) = SumFunction(f) + (g[y] - f[y])
<1>1. \A x \in S : f[x] \in Int /\ g[x] \in Int
  OBVIOUS
<1>2. SumFunctionOnSet(g, S) = SumFunctionOnSet(f, S) + (g[y] - f[y])
  BY <1>1, SumChange
<1> QED BY <1>2 DEF SumFunction

LEMMA TotalCovers ==
    ASSUME NEW S, IsFiniteSet(S), NEW f \in [S -> Nat], NEW y \in S
    PROVE  f[y] <= SumFunction(f)
<1>1. f[y] <= SumFunctionOnSet(f, S)
  BY SumCovers
<1> QED BY <1>1 DEF SumFunction

(* Values that add up one by one add up taken together. *)
LEMMA TotalAdds ==
    ASSUME NEW S, IsFiniteSet(S), NEW f \in [S -> Int], NEW g \in [S -> Int], NEW h \in [S -> Int],
           \A x \in S : h[x] = f[x] + g[x]
    PROVE  SumFunction(h) = SumFunction(f) + SumFunction(g)
<1>1. \A x \in S : f[x] \in Int /\ g[x] \in Int /\ h[x] = f[x] + g[x]
  OBVIOUS
<1>2. SumFunctionOnSet(h, S) = SumFunctionOnSet(f, S) + SumFunctionOnSet(g, S)
  BY <1>1, SumAdds
<1> QED BY <1>2 DEF SumFunction

LEMMA TotalIsNat ==
    ASSUME NEW S, IsFiniteSet(S), NEW f \in [S -> Nat]
    PROVE  SumFunction(f) \in Nat
<1>1. SumFunctionOnSet(f, S) \in Nat
  BY SumIsNat
<1> QED BY <1>1 DEF SumFunction

=============================================================================
