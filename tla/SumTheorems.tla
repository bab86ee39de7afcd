----------------------------- MODULE SumTheorems -----------------------------
(***************************************************************************)
(* Facts about SumFunctionOnSet, the sum of a function over a finite set,  *)
(* which the models count stock, receipts, payments and lines with.  The   *)
(* sum is defined by a recursive function that removes an element at a     *)
(* time; every fact about all finite sets is proved by taking a smallest   *)
(* set that breaks it (Smallest), and finding a smaller one.               *)
(***************************************************************************)
EXTENDS Integers, Functions, FiniteSetTheorems, TLAPS

Pick(T) == CHOOSE x \in T : TRUE

(* g gives the sum of f over every subset of S.                            *)
Sums(g, f, S) ==
    g = [T \in SUBSET S |-> IF T = {} THEN 0 ELSE f[Pick(T)] + g[T \ {Pick(T)}]]

(* Of the subsets of a finite set that break a claim one is a smallest.    *)
LEMMA Smallest ==
    ASSUME NEW S, IsFiniteSet(S), NEW Bad, Bad \subseteq SUBSET S, Bad # {}
    PROVE  \E T \in Bad : \A U \in SUBSET T : U # T => U \notin Bad
<1> DEFINE R == StrictSubsetOrdering(S)
<1>1. IsWellFoundedOn(R, FiniteSubsetsOf(S))
  BY FS_StrictSubsetOrderingWellFounded
<1>2. FiniteSubsetsOf(S) = SUBSET S
  BY FS_FiniteSubsetsOfFinite
<1>3. \A U, T \in Bad : U \subseteq T /\ U # T => <<U, T>> \in R
  BY DEF StrictSubsetOrdering
<1> HIDE DEF R
<1>4. PICK T \in Bad : \A U \in Bad : ~(<<U, T>> \in R)
  BY <1>1, <1>2, WFMin
<1> QED BY <1>3, <1>4

LEMMA PickIn == \A T : T # {} => Pick(T) \in T
BY DEF Pick

(* The sum is fixed by what is summed: two functions that agree on a set,  *)
(* summed within any two sets that hold it, give the same.                 *)
LEMMA SumsAgree ==
    ASSUME NEW S, IsFiniteSet(S), NEW f, NEW g, Sums(g, f, S),
           NEW S2, NEW f2, NEW g2, Sums(g2, f2, S2),
           S \subseteq S2, \A x \in S : f[x] = f2[x]
    PROVE  \A T \in SUBSET S : g[T] = g2[T]
<1> DEFINE Bad == {T \in SUBSET S : g[T] # g2[T]}
<1> SUFFICES ASSUME Bad # {} PROVE FALSE
  OBVIOUS
<1>1. PICK T \in Bad : \A U \in SUBSET T : U # T => U \notin Bad
  <2> HIDE DEF Bad
  <2>1. Bad \subseteq SUBSET S
    BY DEF Bad
  <2> QED BY <2>1, Smallest
<1>2. g[T] = IF T = {} THEN 0 ELSE f[Pick(T)] + g[T \ {Pick(T)}]
  BY DEF Sums
<1>3. g2[T] = IF T = {} THEN 0 ELSE f2[Pick(T)] + g2[T \ {Pick(T)}]
  BY DEF Sums
<1>4. T # {}
  BY <1>2, <1>3
<1>5. Pick(T) \in T /\ T \in SUBSET S
  BY <1>4, PickIn
<1>6. g[T \ {Pick(T)}] = g2[T \ {Pick(T)}]
  BY <1>1, <1>5
<1> QED BY <1>2, <1>3, <1>4, <1>5, <1>6

(* The recursive function by which the sum is defined exists.              *)
LEMMA SumsExist ==
    ASSUME NEW S, IsFiniteSet(S), NEW f
    PROVE  \E g : Sums(g, f, S)
<1> DEFINE Bad == {T \in SUBSET S : ~ \E g : Sums(g, f, T)}
<1> SUFFICES ASSUME Bad # {} PROVE FALSE
  OBVIOUS
<1>1. PICK U \in Bad : \A T \in SUBSET U : T # U => T \notin Bad
  <2> HIDE DEF Bad
  <2>1. Bad \subseteq SUBSET S
    BY DEF Bad
  <2> QED BY <2>1, Smallest
<1>2. IsFiniteSet(U) /\ U \in SUBSET S
  BY FS_Subset
<1> DEFINE Of(T) == CHOOSE g : Sums(g, f, T)
           H == [T \in SUBSET U |-> IF T = {} THEN 0
                                    ELSE f[Pick(T)] + Of(T \ {Pick(T)})[T \ {Pick(T)}]]
<1>3. \A T \in SUBSET U : T # U => Sums(Of(T), f, T)
  BY <1>1, <1>2
<1>4. ASSUME NEW V \in SUBSET U, V # U
      PROVE  H[V] = Of(V)[V]
  <2>1. Of(V)[V] = IF V = {} THEN 0 ELSE f[Pick(V)] + Of(V)[V \ {Pick(V)}]
    <3> DEFINE g == Of(V)
    <3>1. Sums(g, f, V)
      BY <1>3, <1>4
    <3> HIDE DEF g
    <3> QED BY <3>1 DEF Sums
  <2>2. CASE V = {}
    BY <2>1, <2>2
  <2>3. CASE V # {}
    <3> DEFINE W == V \ {Pick(V)}
    <3>1. W \in SUBSET V /\ W # U /\ W \in SUBSET U /\ IsFiniteSet(W)
      BY <2>3, PickIn, <1>2, FS_Subset
    <3>2. Sums(Of(W), f, W) /\ Sums(Of(V), f, V)
      BY <1>3, <1>4, <3>1
    <3>3. Of(W)[W] = Of(V)[W]
      <4> DEFINE g == Of(W) h == Of(V)
      <4> HIDE DEF g, h, W
      <4>1. Sums(g, f, W) /\ Sums(h, f, V)
        BY <3>2 DEF g, h
      <4>2. \A T \in SUBSET W : g[T] = h[T]
        BY <4>1, <3>1, SumsAgree
      <4> QED BY <4>2 DEF g, h
    <3> QED BY <2>1, <2>3, <3>3
  <2> QED BY <2>2, <2>3
<1>5. Sums(H, f, U)
  <2> SUFFICES ASSUME NEW T \in SUBSET U, T # {}
               PROVE  Of(T \ {Pick(T)})[T \ {Pick(T)}] = H[T \ {Pick(T)}]
    <3> HIDE DEF Of
    <3> QED BY DEF Sums
  <2>1. T \ {Pick(T)} \in SUBSET U /\ T \ {Pick(T)} # U
    BY PickIn
  <2> HIDE DEF H, Of
  <2> QED BY <2>1, <1>4
<1> QED BY <1>1, <1>5

-----------------------------------------------------------------------------
(* The defining equation, one element at a time.                           *)
LEMMA SumEquation ==
    ASSUME NEW S, IsFiniteSet(S), NEW f
    PROVE  SumFunctionOnSet(f, S) =
                IF S = {} THEN 0 ELSE f[Pick(S)] + SumFunctionOnSet(f, S \ {Pick(S)})
<1> DEFINE Of(T) == CHOOSE g : Sums(g, f, T)
<1>1. \A T : SumFunctionOnSet(f, T) = Of(T)[T]
  BY DEF SumFunctionOnSet, FoldFunctionOnSet, MapThenFoldSet, Sums, Pick
<1>2. \A T : IsFiniteSet(T) => Sums(Of(T), f, T)
  BY SumsExist
<1> HIDE DEF Of
<1>3. Of(S)[S] = IF S = {} THEN 0 ELSE f[Pick(S)] + Of(S)[S \ {Pick(S)}]
  BY <1>2 DEF Sums
<1>4. ASSUME S # {}
      PROVE  Of(S)[S \ {Pick(S)}] = Of(S \ {Pick(S)})[S \ {Pick(S)}]
  <2> DEFINE W == S \ {Pick(S)}
             g == Of(W)
             h == Of(S)
  <2>1. IsFiniteSet(W) /\ W \subseteq S
    BY FS_Subset
  <2>2. Sums(g, f, W) /\ Sums(h, f, S)
    BY <1>2, <2>1
  <2> HIDE DEF g, h, W
  <2>3. \A T \in SUBSET W : g[T] = h[T]
    BY <2>1, <2>2, SumsAgree
  <2> QED BY <2>3 DEF g, h, W
<1> QED BY <1>1, <1>3, <1>4

(* Nothing adds up to nothing.                                             *)
LEMMA SumEmpty == \A f : SumFunctionOnSet(f, {}) = 0
BY SumEquation, FS_EmptySet

(* A sum of integers is an integer.                                        *)
LEMMA SumInt ==
    ASSUME NEW S, IsFiniteSet(S), NEW f, \A x \in S : f[x] \in Int
    PROVE  SumFunctionOnSet(f, S) \in Int
<1> DEFINE Bad == {T \in SUBSET S : SumFunctionOnSet(f, T) \notin Int}
<1> SUFFICES ASSUME Bad # {} PROVE FALSE
  OBVIOUS
<1>1. PICK T \in Bad : \A U \in SUBSET T : U # T => U \notin Bad
  <2> HIDE DEF Bad
  <2>1. Bad \subseteq SUBSET S
    BY DEF Bad
  <2> QED BY <2>1, Smallest
<1>2. IsFiniteSet(T) /\ T \in SUBSET S
  BY FS_Subset
<1>3. SumFunctionOnSet(f, T) = IF T = {} THEN 0 ELSE f[Pick(T)] + SumFunctionOnSet(f, T \ {Pick(T)})
  BY <1>2, SumEquation
<1>4. T # {} /\ Pick(T) \in T
  BY <1>3, PickIn
<1>5. SumFunctionOnSet(f, T \ {Pick(T)}) \in Int
  BY <1>1, <1>4
<1> QED BY <1>2, <1>3, <1>4, <1>5

(* Any element can be taken out of a sum.                                  *)
LEMMA SumRemove ==
    ASSUME NEW S, IsFiniteSet(S), NEW f, \A x \in S : f[x] \in Int, NEW y \in S
    PROVE  SumFunctionOnSet(f, S) = f[y] + SumFunctionOnSet(f, S \ {y})
<1> DEFINE Bad == {T \in SUBSET S : \E z \in T :
                    SumFunctionOnSet(f, T) # f[z] + SumFunctionOnSet(f, T \ {z})}
<1> SUFFICES ASSUME Bad # {} PROVE FALSE
  OBVIOUS
<1>1. PICK T \in Bad : \A U \in SUBSET T : U # T => U \notin Bad
  <2> HIDE DEF Bad
  <2>1. Bad \subseteq SUBSET S
    BY DEF Bad
  <2> QED BY <2>1, Smallest
<1>2. PICK z \in T : SumFunctionOnSet(f, T) # f[z] + SumFunctionOnSet(f, T \ {z})
  OBVIOUS
<1> DEFINE p == Pick(T)
<1>3. /\ T \in SUBSET S /\ p \in T
      /\ IsFiniteSet(T) /\ IsFiniteSet(T \ {p}) /\ IsFiniteSet(T \ {z}) /\ IsFiniteSet((T \ {p}) \ {z})
  BY FS_Subset, PickIn
<1>4. SumFunctionOnSet(f, T) = f[p] + SumFunctionOnSet(f, T \ {p})
  BY <1>3, SumEquation
<1>5. z # p
  BY <1>2, <1>4
<1> HIDE DEF p
<1>6. SumFunctionOnSet(f, T \ {p}) = f[z] + SumFunctionOnSet(f, (T \ {p}) \ {z})
  <2>1. T \ {p} \notin Bad
    BY <1>1, <1>3
  <2> QED BY <2>1, <1>3, <1>5
<1>7. SumFunctionOnSet(f, T \ {z}) = f[p] + SumFunctionOnSet(f, (T \ {z}) \ {p})
  <2>1. T \ {z} \notin Bad
    BY <1>1, <1>2
  <2> QED BY <2>1, <1>3, <1>5
<1>8. (T \ {z}) \ {p} = (T \ {p}) \ {z}
  OBVIOUS
<1>9. f[p] \in Int /\ f[z] \in Int /\ SumFunctionOnSet(f, (T \ {p}) \ {z}) \in Int
  BY <1>3, SumInt
<1> DEFINE a == SumFunctionOnSet(f, (T \ {p}) \ {z})
<1>10. a \in Int /\ f[p] + (f[z] + a) = f[z] + (f[p] + a)
  <2> HIDE DEF a
  <2> QED BY <1>9 DEF a
<1> HIDE DEF Bad
<1> QED BY <1>2, <1>4, <1>6, <1>7, <1>8, <1>10

(* ... and an element put in.                                              *)
LEMMA SumAdd ==
    ASSUME NEW S, IsFiniteSet(S), NEW f, NEW y, y \notin S,
           \A x \in S \cup {y} : f[x] \in Int
    PROVE  SumFunctionOnSet(f, S \cup {y}) = SumFunctionOnSet(f, S) + f[y]
<1>1. IsFiniteSet(S \cup {y}) /\ (S \cup {y}) \ {y} = S
  BY FS_AddElement
<1>2. SumFunctionOnSet(f, S \cup {y}) = f[y] + SumFunctionOnSet(f, S)
  <2> DEFINE W == S \cup {y}
  <2>1. W \ {y} = S /\ y \in W /\ IsFiniteSet(W) /\ \A x \in W : f[x] \in Int
    BY <1>1
  <2> HIDE DEF W
  <2>2. SumFunctionOnSet(f, W) = f[y] + SumFunctionOnSet(f, W \ {y})
    BY <2>1, SumRemove
  <2> QED BY <2>1, <2>2 DEF W
<1>3. SumFunctionOnSet(f, S) \in Int /\ f[y] \in Int
  BY SumInt
<1> QED BY <1>2, <1>3

(* What is not summed does not matter.                                     *)
LEMMA SumFrame ==
    ASSUME NEW S, IsFiniteSet(S), NEW f, NEW h, \A x \in S : f[x] = h[x]
    PROVE  SumFunctionOnSet(f, S) = SumFunctionOnSet(h, S)
<1> DEFINE Bad == {T \in SUBSET S : SumFunctionOnSet(f, T) # SumFunctionOnSet(h, T)}
<1> SUFFICES ASSUME Bad # {} PROVE FALSE
  OBVIOUS
<1>1. PICK T \in Bad : \A U \in SUBSET T : U # T => U \notin Bad
  <2> HIDE DEF Bad
  <2>1. Bad \subseteq SUBSET S
    BY DEF Bad
  <2> QED BY <2>1, Smallest
<1>2. IsFiniteSet(T) /\ T \in SUBSET S
  BY FS_Subset
<1>3. SumFunctionOnSet(f, T) = IF T = {} THEN 0 ELSE f[Pick(T)] + SumFunctionOnSet(f, T \ {Pick(T)})
  BY <1>2, SumEquation
<1>4. SumFunctionOnSet(h, T) = IF T = {} THEN 0 ELSE h[Pick(T)] + SumFunctionOnSet(h, T \ {Pick(T)})
  BY <1>2, SumEquation
<1>5. T # {} /\ Pick(T) \in T
  BY <1>3, <1>4, PickIn
<1>6. SumFunctionOnSet(f, T \ {Pick(T)}) = SumFunctionOnSet(h, T \ {Pick(T)})
  BY <1>1, <1>5
<1> QED BY <1>2, <1>3, <1>4, <1>5, <1>6

(* One value changes: the sum changes by as much.                          *)
LEMMA SumUpdate ==
    ASSUME NEW S, IsFiniteSet(S), NEW f, NEW h, NEW y \in S,
           \A x \in S : f[x] \in Int, h[y] \in Int,
           \A x \in S : x # y => f[x] = h[x]
    PROVE  SumFunctionOnSet(h, S) = SumFunctionOnSet(f, S) + (h[y] - f[y])
<1>1. IsFiniteSet(S \ {y})
  BY FS_Subset
<1>2. SumFunctionOnSet(f, S) = f[y] + SumFunctionOnSet(f, S \ {y})
  BY SumRemove
<1>3. \A x \in S : h[x] \in Int
  OBVIOUS
<1>4. SumFunctionOnSet(h, S) = h[y] + SumFunctionOnSet(h, S \ {y})
  BY <1>3, SumRemove
<1>5. SumFunctionOnSet(f, S \ {y}) = SumFunctionOnSet(h, S \ {y})
  BY <1>1, SumFrame
<1>6. SumFunctionOnSet(f, S \ {y}) \in Int /\ f[y] \in Int
  BY <1>1, SumInt
<1> QED BY <1>2, <1>4, <1>5, <1>6

(* A sum is at least another that it dominates value by value.             *)
LEMMA SumMonotone ==
    ASSUME NEW S, IsFiniteSet(S), NEW f, NEW h,
           \A x \in S : f[x] \in Int /\ h[x] \in Int /\ f[x] <= h[x]
    PROVE  SumFunctionOnSet(f, S) <= SumFunctionOnSet(h, S)
<1> DEFINE Bad == {T \in SUBSET S : ~(SumFunctionOnSet(f, T) <= SumFunctionOnSet(h, T))}
<1> SUFFICES ASSUME Bad # {} PROVE FALSE
  OBVIOUS
<1>1. PICK T \in Bad : \A U \in SUBSET T : U # T => U \notin Bad
  <2> HIDE DEF Bad
  <2>1. Bad \subseteq SUBSET S
    BY DEF Bad
  <2> QED BY <2>1, Smallest
<1>2. IsFiniteSet(T) /\ T \in SUBSET S
  BY FS_Subset
<1>3. T # {}
  BY SumEmpty
<1>4. PICK p : p \in T
  BY <1>3
<1>5. IsFiniteSet(T \ {p})
  BY <1>2, FS_Subset
<1>6. SumFunctionOnSet(f, T) = f[p] + SumFunctionOnSet(f, T \ {p})
  BY <1>2, <1>4, SumRemove
<1>7. SumFunctionOnSet(h, T) = h[p] + SumFunctionOnSet(h, T \ {p})
  BY <1>2, <1>4, SumRemove
<1>8. SumFunctionOnSet(f, T \ {p}) <= SumFunctionOnSet(h, T \ {p})
  BY <1>1, <1>2, <1>4
<1>9. /\ SumFunctionOnSet(f, T \ {p}) \in Int /\ SumFunctionOnSet(h, T \ {p}) \in Int
      /\ f[p] \in Int /\ h[p] \in Int /\ f[p] <= h[p]
  BY <1>2, <1>4, <1>5, SumInt
<1> DEFINE a == SumFunctionOnSet(f, T \ {p})
           b == SumFunctionOnSet(h, T \ {p})
<1> HIDE DEF a, b, Bad
<1>10. f[p] + a <= h[p] + b
  BY <1>8, <1>9 DEF a, b
<1>11. T \in Bad
  OBVIOUS
<1> QED BY <1>6, <1>7, <1>10, <1>11 DEF a, b, Bad

(* Nothings add up to nothing.                                             *)
LEMMA SumNothing ==
    ASSUME NEW S, IsFiniteSet(S), NEW f, \A x \in S : f[x] = 0
    PROVE  SumFunctionOnSet(f, S) = 0
<1> DEFINE Bad == {T \in SUBSET S : SumFunctionOnSet(f, T) # 0}
<1> SUFFICES ASSUME Bad # {} PROVE FALSE
  OBVIOUS
<1>1. PICK T \in Bad : \A U \in SUBSET T : U # T => U \notin Bad
  <2> HIDE DEF Bad
  <2>1. Bad \subseteq SUBSET S
    BY DEF Bad
  <2> QED BY <2>1, Smallest
<1>2. IsFiniteSet(T) /\ T \in SUBSET S
  BY FS_Subset
<1>3. SumFunctionOnSet(f, T) = IF T = {} THEN 0 ELSE f[Pick(T)] + SumFunctionOnSet(f, T \ {Pick(T)})
  BY <1>2, SumEquation
<1>4. T # {} /\ Pick(T) \in T
  BY <1>3, PickIn
<1>5. SumFunctionOnSet(f, T \ {Pick(T)}) = 0
  BY <1>1, <1>4
<1> QED BY <1>2, <1>3, <1>4, <1>5

(* A sum of naturals is a natural, and at least each of them.              *)
LEMMA SumNat ==
    ASSUME NEW S, IsFiniteSet(S), NEW f, \A x \in S : f[x] \in Nat
    PROVE  /\ SumFunctionOnSet(f, S) \in Nat
           /\ \A x \in S : f[x] <= SumFunctionOnSet(f, S)
<1>1. ASSUME NEW T \in SUBSET S
      PROVE  SumFunctionOnSet(f, T) \in Nat
  <2> DEFINE zero == [x \in S |-> 0]
  <2>1. IsFiniteSet(T)
    BY FS_Subset
  <2>2. \A x \in T : zero[x] = 0 /\ zero[x] \in Int /\ f[x] \in Int /\ zero[x] <= f[x]
    OBVIOUS
  <2> HIDE DEF zero
  <2>3. SumFunctionOnSet(zero, T) = 0
    BY <2>1, <2>2, SumNothing
  <2>4. SumFunctionOnSet(zero, T) <= SumFunctionOnSet(f, T)
    BY <2>1, <2>2, SumMonotone
  <2>5. SumFunctionOnSet(f, T) \in Int
    BY <2>1, <2>2, SumInt
  <2> QED BY <2>3, <2>4, <2>5
<1>2. ASSUME NEW x \in S
      PROVE  f[x] <= SumFunctionOnSet(f, S)
  <2>1. SumFunctionOnSet(f, S) = f[x] + SumFunctionOnSet(f, S \ {x})
    BY SumRemove
  <2>2. SumFunctionOnSet(f, S \ {x}) \in Nat /\ f[x] \in Nat
    BY <1>1
  <2> QED BY <2>1, <2>2
<1> QED BY <1>1, <1>2

(* A smaller set of naturals adds up to no more.                           *)
LEMMA SumSubset ==
    ASSUME NEW S, IsFiniteSet(S), NEW f, \A x \in S : f[x] \in Nat, NEW T \in SUBSET S
    PROVE  SumFunctionOnSet(f, T) <= SumFunctionOnSet(f, S)
<1> DEFINE Bad == {U \in SUBSET S : T \subseteq U /\ ~(SumFunctionOnSet(f, T) <= SumFunctionOnSet(f, U))}
<1> SUFFICES ASSUME Bad # {} PROVE FALSE
  OBVIOUS
<1>1. PICK U \in Bad : \A V \in SUBSET U : V # U => V \notin Bad
  <2> HIDE DEF Bad
  <2>1. Bad \subseteq SUBSET S
    BY DEF Bad
  <2> QED BY <2>1, Smallest
<1>2. /\ IsFiniteSet(T) /\ IsFiniteSet(U) /\ U \in SUBSET S
      /\ T \subseteq U /\ ~(SumFunctionOnSet(f, T) <= SumFunctionOnSet(f, U))
  BY FS_Subset
<1>3. SumFunctionOnSet(f, T) \in Nat
  BY <1>2, SumNat
<1>4. PICK p : p \in U \ T
  BY <1>2, <1>3
<1>5. SumFunctionOnSet(f, U) = f[p] + SumFunctionOnSet(f, U \ {p})
  BY <1>2, <1>4, SumRemove
<1>6. SumFunctionOnSet(f, T) <= SumFunctionOnSet(f, U \ {p})
  BY <1>1, <1>2, <1>4
<1>7. IsFiniteSet(U \ {p})
  BY <1>2, FS_Subset
<1>8. SumFunctionOnSet(f, U \ {p}) \in Nat /\ f[p] \in Nat
  BY <1>2, <1>4, <1>7, SumNat
<1> DEFINE a == SumFunctionOnSet(f, T)
           b == SumFunctionOnSet(f, U \ {p})
<1>9. a <= f[p] + b
  <2> HIDE DEF a, b
  <2> QED BY <1>3, <1>6, <1>8 DEF a, b
<1> HIDE DEF Bad
<1> QED BY <1>2, <1>5, <1>9

(* Naturals add up to nothing only if each is nothing.                     *)
LEMMA SumZero ==
    ASSUME NEW S, IsFiniteSet(S), NEW f, \A x \in S : f[x] \in Nat
    PROVE  SumFunctionOnSet(f, S) = 0 <=> \A x \in S : f[x] = 0
<1>1. ASSUME SumFunctionOnSet(f, S) = 0, NEW x \in S
      PROVE  f[x] = 0
  <2>1. f[x] <= SumFunctionOnSet(f, S) /\ f[x] \in Nat
    BY SumNat
  <2> QED BY <1>1, <2>1
<1>2. ASSUME \A x \in S : f[x] = 0
      PROVE  SumFunctionOnSet(f, S) = 0
  BY <1>2, SumNothing
<1> QED BY <1>1, <1>2

(* What is summed may be renamed: b names each element of S by another,    *)
(* no two by the same, and h gives the other name's value.                 *)
LEMMA SumRename ==
    ASSUME NEW S, IsFiniteSet(S), NEW f, NEW h, NEW b,
           \A x \in S : f[x] \in Int /\ h[b[x]] = f[x],
           \A x, y \in S : b[x] = b[y] => x = y
    PROVE  SumFunctionOnSet(f, S) = SumFunctionOnSet(h, {b[x] : x \in S})
<1> DEFINE To(T) == {b[x] : x \in T}
           Bad == {T \in SUBSET S : SumFunctionOnSet(f, T) # SumFunctionOnSet(h, To(T))}
<1> SUFFICES ASSUME Bad # {} PROVE FALSE
  OBVIOUS
<1>1. PICK T \in Bad : \A U \in SUBSET T : U # T => U \notin Bad
  <2> HIDE DEF Bad
  <2>1. Bad \subseteq SUBSET S
    BY DEF Bad
  <2> QED BY <2>1, Smallest
<1>2. IsFiniteSet(T) /\ T \in SUBSET S
  BY FS_Subset
<1>3. IsFiniteSet(To(T))
  <2> DEFINE M == [x \in T |-> b[x]]
  <2>1. M \in Surjection(T, To(T))
    BY DEF Surjection
  <2> HIDE DEF M, To
  <2> QED BY <1>2, <2>1, FS_Surjection
<1>4. T # {}
  <2> SUFFICES ASSUME T = {} PROVE FALSE
    OBVIOUS
  <2>1. To(T) = {}
    OBVIOUS
  <2> QED BY <2>1, SumEmpty
<1>5. PICK p : p \in T
  BY <1>4
<1>6. SumFunctionOnSet(f, T) = f[p] + SumFunctionOnSet(f, T \ {p})
  BY <1>2, <1>5, SumRemove
<1>7. SumFunctionOnSet(h, To(T)) = h[b[p]] + SumFunctionOnSet(h, To(T) \ {b[p]})
  <2>1. b[p] \in To(T) /\ \A z \in To(T) : h[z] \in Int
    BY <1>2, <1>5
  <2> HIDE DEF To
  <2> QED BY <1>3, <2>1, SumRemove
<1>8. To(T) \ {b[p]} = To(T \ {p})
  BY <1>2, <1>5
<1>9. SumFunctionOnSet(f, T \ {p}) = SumFunctionOnSet(h, To(T \ {p}))
  BY <1>1, <1>2, <1>5
<1>10. f[p] = h[b[p]]
  BY <1>2, <1>5
<1> HIDE DEF To
<1> QED BY <1>6, <1>7, <1>8, <1>9, <1>10

(* A sum over two sets that share nothing is the sum over each.            *)
LEMMA SumUnion ==
    ASSUME NEW S, IsFiniteSet(S), NEW U, IsFiniteSet(U), S \cap U = {}, NEW f,
           \A x \in S \cup U : f[x] \in Int
    PROVE  SumFunctionOnSet(f, S \cup U) = SumFunctionOnSet(f, S) + SumFunctionOnSet(f, U)
<1> DEFINE Bad == {T \in SUBSET S :
                    SumFunctionOnSet(f, T \cup U) # SumFunctionOnSet(f, T) + SumFunctionOnSet(f, U)}
<1> SUFFICES ASSUME Bad # {} PROVE FALSE
  OBVIOUS
<1>1. PICK T \in Bad : \A V \in SUBSET T : V # T => V \notin Bad
  <2> HIDE DEF Bad
  <2>1. Bad \subseteq SUBSET S
    BY DEF Bad
  <2> QED BY <2>1, Smallest
<1>2. IsFiniteSet(T) /\ T \in SUBSET S /\ IsFiniteSet(T \cup U)
  BY FS_Subset, FS_Union
<1>3. SumFunctionOnSet(f, U) \in Int
  BY SumInt
<1>4. T # {}
  <2> SUFFICES ASSUME T = {} PROVE FALSE
    OBVIOUS
  <2>1. T \cup U = U /\ SumFunctionOnSet(f, T) = 0
    BY SumEmpty
  <2> QED BY <2>1, <1>3
<1>5. PICK p : p \in T
  BY <1>4
<1>6. IsFiniteSet(T \ {p})
  BY <1>2, FS_Subset
<1>7. SumFunctionOnSet(f, T) = f[p] + SumFunctionOnSet(f, T \ {p})
  BY <1>2, <1>5, SumRemove
<1>8. SumFunctionOnSet(f, T \cup U) = f[p] + SumFunctionOnSet(f, (T \cup U) \ {p})
  <2> DEFINE W == T \cup U
  <2>1. p \in W /\ \A x \in W : f[x] \in Int
    BY <1>2, <1>5
  <2> HIDE DEF W
  <2>2. IsFiniteSet(W)
    BY <1>2 DEF W
  <2>3. SumFunctionOnSet(f, W) = f[p] + SumFunctionOnSet(f, W \ {p})
    BY <2>1, <2>2, SumRemove
  <2> QED BY <2>3 DEF W
<1>9. (T \cup U) \ {p} = (T \ {p}) \cup U
  BY <1>2, <1>5
<1>10. SumFunctionOnSet(f, (T \ {p}) \cup U) = SumFunctionOnSet(f, T \ {p}) + SumFunctionOnSet(f, U)
  BY <1>1, <1>2, <1>5
<1>11. SumFunctionOnSet(f, T \ {p}) \in Int /\ f[p] \in Int
  BY <1>2, <1>5, <1>6, SumInt
<1> DEFINE a == SumFunctionOnSet(f, T \ {p})
           c == SumFunctionOnSet(f, U)
<1>12. f[p] + (a + c) = (f[p] + a) + c
  <2> HIDE DEF a, c
  <2> QED BY <1>3, <1>11 DEF a, c
<1> HIDE DEF Bad
<1>13. SumFunctionOnSet(f, T \cup U) # SumFunctionOnSet(f, T) + SumFunctionOnSet(f, U)
  BY DEF Bad
<1> QED BY <1>7, <1>8, <1>9, <1>10, <1>12, <1>13

(* What is zero outside a part of a set may be summed over that part.      *)
LEMMA SumRestrict ==
    ASSUME NEW S, IsFiniteSet(S), NEW T \in SUBSET S, NEW f, NEW h,
           \A x \in T : f[x] = h[x] /\ h[x] \in Int,
           \A x \in S \ T : f[x] = 0
    PROVE  SumFunctionOnSet(f, S) = SumFunctionOnSet(h, T)
<1>1. IsFiniteSet(T) /\ IsFiniteSet(S \ T) /\ T \cup (S \ T) = S /\ T \cap (S \ T) = {}
  BY FS_Subset
<1>2. \A x \in T \cup (S \ T) : f[x] \in Int
  BY DEF Int
<1>3. SumFunctionOnSet(f, T \cup (S \ T)) = SumFunctionOnSet(f, T) + SumFunctionOnSet(f, S \ T)
  <2> DEFINE U == S \ T
  <2>1. IsFiniteSet(U) /\ T \cap U = {} /\ \A x \in T \cup U : f[x] \in Int
    BY <1>1, <1>2
  <2> HIDE DEF U
  <2>2. SumFunctionOnSet(f, T \cup U) = SumFunctionOnSet(f, T) + SumFunctionOnSet(f, U)
    BY <1>1, <2>1, SumUnion
  <2> QED BY <2>2 DEF U
<1>4. SumFunctionOnSet(f, S \ T) = 0
  <2> DEFINE U == S \ T
  <2>1. IsFiniteSet(U) /\ \A x \in U : f[x] = 0
    BY <1>1
  <2> HIDE DEF U
  <2>2. SumFunctionOnSet(f, U) = 0
    BY <2>1, SumNothing
  <2> QED BY <2>2 DEF U
<1>5. SumFunctionOnSet(f, T) = SumFunctionOnSet(h, T)
  BY <1>1, SumFrame
<1>6. SumFunctionOnSet(h, T) \in Int
  BY <1>1, SumInt
<1> QED BY <1>1, <1>3, <1>4, <1>5, <1>6

(* The sum of what is added value by value.                                *)
LEMMA SumPlus ==
    ASSUME NEW S, IsFiniteSet(S), NEW f, NEW g, NEW h,
           \A x \in S : f[x] \in Int /\ g[x] \in Int /\ h[x] = f[x] + g[x]
    PROVE  SumFunctionOnSet(h, S) = SumFunctionOnSet(f, S) + SumFunctionOnSet(g, S)
<1> DEFINE Bad == {T \in SUBSET S :
                    SumFunctionOnSet(h, T) # SumFunctionOnSet(f, T) + SumFunctionOnSet(g, T)}
<1> SUFFICES ASSUME Bad # {} PROVE FALSE
  OBVIOUS
<1>1. PICK T \in Bad : \A U \in SUBSET T : U # T => U \notin Bad
  <2> HIDE DEF Bad
  <2>1. Bad \subseteq SUBSET S
    BY DEF Bad
  <2> QED BY <2>1, Smallest
<1>2. IsFiniteSet(T) /\ T \in SUBSET S
  BY FS_Subset
<1>3. T # {}
  <2>1. SumFunctionOnSet(h, {}) = 0 /\ SumFunctionOnSet(f, {}) = 0 /\ SumFunctionOnSet(g, {}) = 0
    BY SumEmpty
  <2>2. {} \notin Bad
    BY <2>1
  <2> HIDE DEF Bad
  <2> QED BY <2>2
<1>4. PICK p : p \in T
  BY <1>3
<1>5. IsFiniteSet(T \ {p}) /\ \A x \in T : h[x] \in Int
  BY <1>2, <1>4, FS_Subset
<1>6. SumFunctionOnSet(f, T) = f[p] + SumFunctionOnSet(f, T \ {p})
  BY <1>2, <1>4, SumRemove
<1>7. SumFunctionOnSet(g, T) = g[p] + SumFunctionOnSet(g, T \ {p})
  BY <1>2, <1>4, SumRemove
<1>8. SumFunctionOnSet(h, T) = h[p] + SumFunctionOnSet(h, T \ {p})
  BY <1>2, <1>4, <1>5, SumRemove
<1>9. SumFunctionOnSet(h, T \ {p}) = SumFunctionOnSet(f, T \ {p}) + SumFunctionOnSet(g, T \ {p})
  BY <1>1, <1>2, <1>4
<1>10. /\ SumFunctionOnSet(f, T \ {p}) \in Int /\ SumFunctionOnSet(g, T \ {p}) \in Int
       /\ f[p] \in Int /\ g[p] \in Int /\ h[p] = f[p] + g[p]
  BY <1>2, <1>4, <1>5, SumInt
<1> DEFINE a == SumFunctionOnSet(f, T \ {p})
           b == SumFunctionOnSet(g, T \ {p})
<1> HIDE DEF a, b, Bad
<1>11. h[p] + (a + b) = (f[p] + a) + (g[p] + b)
  BY <1>10 DEF a, b
<1>12. T \in Bad
  OBVIOUS
<1> QED BY <1>6, <1>7, <1>8, <1>9, <1>11, <1>12 DEF a, b, Bad

(* The sum of what is negated value by value.                              *)
LEMMA SumNegated ==
    ASSUME NEW S, IsFiniteSet(S), NEW f, NEW h,
           \A x \in S : f[x] \in Int /\ h[x] = -f[x]
    PROVE  SumFunctionOnSet(h, S) = -SumFunctionOnSet(f, S)
<1> DEFINE zero == [x \in S |-> 0]
<1>1. \A x \in S : h[x] \in Int /\ f[x] \in Int /\ zero[x] = 0 /\ zero[x] = f[x] + h[x]
  OBVIOUS
<1> HIDE DEF zero
<1>2. SumFunctionOnSet(zero, S) = SumFunctionOnSet(f, S) + SumFunctionOnSet(h, S)
  BY <1>1, SumPlus
<1>3. SumFunctionOnSet(zero, S) = 0
  BY <1>1, SumNothing
<1>4. SumFunctionOnSet(f, S) \in Int /\ SumFunctionOnSet(h, S) \in Int
  BY <1>1, SumInt
<1> QED BY <1>2, <1>3, <1>4

(* The values of f over S, sorted by the class at[x] of x: part[p] has     *)
(* those of the class p, per[p] is what they come to, and within has those *)
(* of the classes in T.                                                    *)
Sorted(S, T, f, at, part, per, within) ==
    /\ \A x \in S : f[x] \in Int
    /\ \A p \in T : \A x \in S : part[p][x] = IF at[x] = p THEN f[x] ELSE 0
    /\ \A p \in T : per[p] = SumFunctionOnSet(part[p], S)
    /\ \A x \in S : within[x] = IF at[x] \in T THEN f[x] ELSE 0

(* A sum may be taken class by class.                                      *)
LEMMA SumByClass ==
    ASSUME NEW S, IsFiniteSet(S), NEW T, IsFiniteSet(T), NEW f, NEW at, NEW part, NEW per, NEW within,
           Sorted(S, T, f, at, part, per, within)
    PROVE  SumFunctionOnSet(per, T) = SumFunctionOnSet(within, S)
<1>0. /\ \A x \in S : f[x] \in Int
      /\ \A p \in T : \A x \in S : part[p][x] = IF at[x] = p THEN f[x] ELSE 0
      /\ \A p \in T : per[p] = SumFunctionOnSet(part[p], S)
      /\ \A x \in S : within[x] = IF at[x] \in T THEN f[x] ELSE 0
  BY DEF Sorted
<1> DEFINE In(U) == [x \in S |-> IF at[x] \in U THEN f[x] ELSE 0]
           Bad == {U \in SUBSET T : SumFunctionOnSet(per, U) # SumFunctionOnSet(In(U), S)}
<1>1. \A p \in T : per[p] \in Int
  <2> SUFFICES ASSUME NEW p \in T PROVE per[p] \in Int
    OBVIOUS
  <2>1. \A x \in S : part[p][x] \in Int
    BY <1>0
  <2> QED BY <1>0, <2>1, SumInt
<1>2. Bad = {}
  <2> SUFFICES ASSUME Bad # {} PROVE FALSE
    OBVIOUS
  <2>1. PICK U \in Bad : \A V \in SUBSET U : V # U => V \notin Bad
    <3> HIDE DEF Bad
    <3>1. Bad \subseteq SUBSET T
      BY DEF Bad
    <3> QED BY <3>1, Smallest
  <2>2. IsFiniteSet(U) /\ U \in SUBSET T
    BY FS_Subset
  <2>3. U # {}
    <3>1. \A x \in S : In({})[x] = 0
      OBVIOUS
    <3>2. SumFunctionOnSet(In({}), S) = 0
      <4> DEFINE g == In({})
      <4>1. \A x \in S : g[x] = 0
        OBVIOUS
      <4> HIDE DEF g
      <4>2. SumFunctionOnSet(g, S) = 0
        BY <4>1, SumNothing
      <4> QED BY <4>2 DEF g
    <3> QED BY <3>2, SumEmpty
  <2>4. PICK p : p \in U
    BY <2>3
  <2>5. SumFunctionOnSet(per, U) = per[p] + SumFunctionOnSet(per, U \ {p})
    BY <1>1, <2>2, <2>4, SumRemove
  <2>6. SumFunctionOnSet(per, U \ {p}) = SumFunctionOnSet(In(U \ {p}), S)
    BY <2>1, <2>2, <2>4
  <2>7. SumFunctionOnSet(In(U), S) = SumFunctionOnSet(part[p], S) + SumFunctionOnSet(In(U \ {p}), S)
    <3> DEFINE g == In(U)
               k == In(U \ {p})
    <3>1. \A x \in S : part[p][x] \in Int /\ k[x] \in Int /\ g[x] = part[p][x] + k[x]
      BY <1>0, <2>2, <2>4
    <3> HIDE DEF g, k
    <3>2. SumFunctionOnSet(g, S) = SumFunctionOnSet(part[p], S) + SumFunctionOnSet(k, S)
      BY <3>1, SumPlus
    <3> QED BY <3>2 DEF g, k
  <2>8. per[p] = SumFunctionOnSet(part[p], S)
    BY <1>0, <2>2, <2>4
  <2>9. SumFunctionOnSet(per, U) # SumFunctionOnSet(In(U), S)
    BY <2>1
  <2> HIDE DEF In, Bad
  <2> QED BY <2>5, <2>6, <2>7, <2>8, <2>9
<1>3. SumFunctionOnSet(per, T) = SumFunctionOnSet(In(T), S)
  BY <1>2
<1>4. SumFunctionOnSet(In(T), S) = SumFunctionOnSet(within, S)
  <2> DEFINE g == In(T)
  <2>1. \A x \in S : g[x] = within[x]
    BY <1>0
  <2> HIDE DEF g
  <2>2. SumFunctionOnSet(g, S) = SumFunctionOnSet(within, S)
    BY <2>1, SumFrame
  <2> QED BY <2>2 DEF g
<1> QED BY <1>3, <1>4
=============================================================================
