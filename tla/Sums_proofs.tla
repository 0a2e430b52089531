----------------------------- MODULE Sums_proofs -----------------------------
(***************************************************************************)
(* What SumFunctionOnSet, by which to_order_status adds up the amounts of  *)
(* an order's legs (_sum), returns for any finite set of terms, taken in   *)
(* whatever order.  Induction over finite sets is by a minimal exception:  *)
(* the set P of the sets a statement holds of takes the place of the       *)
(* statement.                                                              *)
(***************************************************************************)
EXTENDS Integers, Functions, FiniteSetTheorems, WellFoundedInduction, TLAPS

\* Induction over the subsets of a finite set, for the set P of those that a
\* statement holds of.
LEMMA SubsetInduction ==
    ASSUME NEW S, IsFiniteSet(S), NEW P,
           \A T \in SUBSET S : (\A U \in SUBSET T : U # T => U \in P) => T \in P
    PROVE  S \in P
<1> DEFINE B == {T \in SUBSET S : T \notin P}
<1>1. SUFFICES ASSUME B # {} PROVE FALSE
  OBVIOUS
<1>2. IsWellFoundedOn(StrictSubsetOrdering(S), SUBSET S)
  BY FS_StrictSubsetOrderingWellFounded, FS_FiniteSubsetsOfFinite
<1>3. PICK T \in B : \A U \in B : <<U, T>> \notin StrictSubsetOrdering(S)
  <2>1. B \subseteq SUBSET S
    OBVIOUS
  <2> HIDE DEF B
  <2> QED BY <1>1, <1>2, <2>1, WFMin
<1>4. ASSUME NEW U \in SUBSET T, U # T PROVE U \in P
  BY <1>3, <1>4 DEF StrictSubsetOrdering
<1> QED BY <1>3, <1>4

\* The element a fold takes out first.
Any(T) == CHOOSE x \in T : TRUE

\* g sums f over each subset of S.
IsSum(g, f, S) ==
    g = [T \in SUBSET S |-> IF T = {} THEN 0 ELSE f[Any(T)] + g[T \ {Any(T)}]]

\* SumFunctionOnSet is the value of such a function at the whole set.
LEMMA SumIsOneOf ==
    ASSUME NEW f, NEW S
    PROVE  SumFunctionOnSet(f, S) = (CHOOSE g : IsSum(g, f, S))[S]
BY DEF SumFunctionOnSet, FoldFunctionOnSet, MapThenFoldSet, IsSum, Any

\* Any picks an element.
LEMMA AnyIsOne ==
    ASSUME NEW T, T # {}
    PROVE  Any(T) \in T
BY DEF Any

\* Two such functions agree wherever both are defined.
LEMMA SumIsUnique ==
    ASSUME NEW S, IsFiniteSet(S), NEW f, NEW g, IsSum(g, f, S), NEW h,
           NEW R \in SUBSET S, IsSum(h, f, R)
    PROVE  g[R] = h[R]
<1> DEFINE P == {T \in SUBSET R : g[T] = h[T]}
<1>1. ASSUME NEW T \in SUBSET R, \A U \in SUBSET T : U # T => U \in P PROVE T \in P
  <2>1. CASE T = {}
    BY <2>1 DEF IsSum
  <2>2. CASE T # {}
    <3>1. Any(T) \in T
      BY <2>2, AnyIsOne
    <3>2. T \ {Any(T)} \in P
      BY <1>1, <3>1
    <3>3. g[T] = f[Any(T)] + g[T \ {Any(T)}]
      BY <2>2 DEF IsSum
    <3>4. h[T] = f[Any(T)] + h[T \ {Any(T)}]
      BY <2>2 DEF IsSum
    <3> QED BY <3>2, <3>3, <3>4
  <2> QED BY <2>1, <2>2
<1>2. IsFiniteSet(R)
  BY FS_Subset
<1> HIDE DEF P
<1>3. R \in P
  BY <1>1, <1>2, SubsetInduction
<1> QED BY <1>3 DEF P

\* There is one for every finite set.
LEMMA SumExists ==
    ASSUME NEW S, IsFiniteSet(S), NEW f
    PROVE  \E g : IsSum(g, f, S)
<1> DEFINE P == {T \in SUBSET S : \E g : IsSum(g, f, T)}
           G(T) == CHOOSE g : IsSum(g, f, T)
<1>1. ASSUME NEW T \in SUBSET S, \A U \in SUBSET T : U # T => U \in P PROVE T \in P
  <2> DEFINE h == [U \in SUBSET T |->
                     IF U = {} THEN 0 ELSE f[Any(U)] + G(U \ {Any(U)})[U \ {Any(U)}]]
  <2>1. ASSUME NEW V \in SUBSET T, V # T PROVE IsSum(G(V), f, V)
    BY <1>1, <2>1
  <2> HIDE DEF G
  <2>2. ASSUME NEW V \in SUBSET T, V # T PROVE h[V] = G(V)[V]
    <3>1. CASE V = {}
      BY <2>1, <2>2, <3>1 DEF IsSum
    <3>2. CASE V # {}
      <4> DEFINE W == V \ {Any(V)}
      <4>1. W \in SUBSET T /\ W # T /\ W \in SUBSET V
        BY <2>2, <3>2, AnyIsOne
      <4>2. IsFiniteSet(V)
        BY FS_Subset
      <4>3. IsSum(G(V), f, V) /\ IsSum(G(W), f, W)
        BY <2>1, <2>2, <4>1
      <4>4. G(V)[W] = G(W)[W]
        BY <4>1, <4>2, <4>3, SumIsUnique
      <4>5. G(V)[V] = f[Any(V)] + G(V)[W]
        BY <3>2, <4>3 DEF IsSum
      <4> QED BY <3>2, <4>4, <4>5
    <3> QED BY <3>1, <3>2
  <2>3. IsSum(h, f, T)
    <3>1. ASSUME NEW U \in SUBSET T, U # {}
          PROVE  h[U] = f[Any(U)] + h[U \ {Any(U)}]
      <4>1. U \ {Any(U)} \in SUBSET T /\ U \ {Any(U)} # T
        BY <3>1, AnyIsOne
      <4>2. h[U \ {Any(U)}] = G(U \ {Any(U)})[U \ {Any(U)}]
        BY <2>2, <4>1
      <4> QED BY <3>1, <4>2
    <3>2. h = [U \in SUBSET T |-> IF U = {} THEN 0 ELSE f[Any(U)] + h[U \ {Any(U)}]]
      <4>1. \A U \in SUBSET T : h[U] = IF U = {} THEN 0 ELSE f[Any(U)] + h[U \ {Any(U)}]
        BY <3>1
      <4>2. h = [U \in SUBSET T |-> h[U]]
        OBVIOUS
      <4> HIDE DEF h
      <4> QED BY <4>1, <4>2
    <3> QED BY <3>2 DEF IsSum
  <2> QED BY <2>3
<1> HIDE DEF P
<1>2. S \in P
  BY <1>1, SubsetInduction
<1> QED BY <1>2 DEF P

\* Without terms the sum is 0.
LEMMA SumOfNone == ASSUME NEW f PROVE SumFunctionOnSet(f, {}) = 0
<1>1. IsFiniteSet({})
  BY FS_EmptySet
<1>2. IsSum(CHOOSE g : IsSum(g, f, {}), f, {})
  BY <1>1, SumExists
<1> QED BY <1>2, SumIsOneOf DEF IsSum

\* The sum takes its terms out one by one.
LEMMA SumTakesOut ==
    ASSUME NEW S, IsFiniteSet(S), S # {}, NEW f
    PROVE  SumFunctionOnSet(f, S) = f[Any(S)] + SumFunctionOnSet(f, S \ {Any(S)})
<1> DEFINE G(T) == CHOOSE g : IsSum(g, f, T)
           R == S \ {Any(S)}
<1>1. R \in SUBSET S /\ IsFiniteSet(R)
  BY FS_Subset
<1>2. IsSum(G(S), f, S) /\ IsSum(G(R), f, R)
  BY <1>1, SumExists
<1>3. SumFunctionOnSet(f, S) = G(S)[S] /\ SumFunctionOnSet(f, R) = G(R)[R]
  BY SumIsOneOf
<1> HIDE DEF G
<1>4. G(S)[R] = G(R)[R]
  BY <1>1, <1>2, SumIsUnique
<1>5. G(S)[S] = f[Any(S)] + G(S)[R]
  BY <1>2 DEF IsSum
<1> QED BY <1>3, <1>4, <1>5

\* A sum of numbers is a number, and one of naturals a natural.
LEMMA SumIsNumber ==
    ASSUME NEW S, IsFiniteSet(S), NEW f, \A x \in S : f[x] \in Int
    PROVE  /\ SumFunctionOnSet(f, S) \in Int
           /\ (\A x \in S : f[x] \in Nat) => SumFunctionOnSet(f, S) \in Nat
<1> DEFINE P == {T \in SUBSET S :
                   /\ SumFunctionOnSet(f, T) \in Int
                   /\ (\A x \in S : f[x] \in Nat) => SumFunctionOnSet(f, T) \in Nat}
<1>1. ASSUME NEW T \in SUBSET S, \A U \in SUBSET T : U # T => U \in P PROVE T \in P
  <2>1. CASE T = {}
    BY <2>1, SumOfNone
  <2>2. CASE T # {}
    <3>1. Any(T) \in T
      BY <2>2, AnyIsOne
    <3>2. T \ {Any(T)} \in P
      BY <1>1, <3>1
    <3>3. SumFunctionOnSet(f, T) = f[Any(T)] + SumFunctionOnSet(f, T \ {Any(T)})
      BY <2>2, SumTakesOut, FS_Subset
    <3> QED BY <3>1, <3>2, <3>3
  <2> QED BY <2>1, <2>2
<1> HIDE DEF P
<1>2. S \in P
  BY <1>1, SubsetInduction
<1> QED BY <1>2 DEF P

\* Only the terms count.
LEMMA SumOfSame ==
    ASSUME NEW S, IsFiniteSet(S), NEW f, NEW g, \A x \in S : f[x] = g[x]
    PROVE  SumFunctionOnSet(f, S) = SumFunctionOnSet(g, S)
<1> DEFINE P == {T \in SUBSET S : SumFunctionOnSet(f, T) = SumFunctionOnSet(g, T)}
<1>1. ASSUME NEW T \in SUBSET S, \A U \in SUBSET T : U # T => U \in P PROVE T \in P
  <2>1. CASE T = {}
    BY <2>1, SumOfNone
  <2>2. CASE T # {}
    <3>1. Any(T) \in T
      BY <2>2, AnyIsOne
    <3>2. T \ {Any(T)} \in P
      BY <1>1, <3>1
    <3>3. /\ SumFunctionOnSet(f, T) = f[Any(T)] + SumFunctionOnSet(f, T \ {Any(T)})
          /\ SumFunctionOnSet(g, T) = g[Any(T)] + SumFunctionOnSet(g, T \ {Any(T)})
      BY <2>2, SumTakesOut, FS_Subset
    <3> QED BY <3>1, <3>2, <3>3
  <2> QED BY <2>1, <2>2
<1> HIDE DEF P
<1>2. S \in P
  BY <1>1, SubsetInduction
<1> QED BY <1>2 DEF P

\* One more term adds itself, in whatever order the terms are taken.
LEMMA SumAdds ==
    ASSUME NEW S, IsFiniteSet(S), NEW f, NEW y, y \notin S,
           \A x \in S \cup {y} : f[x] \in Int
    PROVE  SumFunctionOnSet(f, S \cup {y}) = f[y] + SumFunctionOnSet(f, S)
<1> DEFINE D == S \cup {y}
           Adds(T, z) ==
               SumFunctionOnSet(f, T \cup {z}) = f[z] + SumFunctionOnSet(f, T)
           P == {T \in SUBSET S : \A z \in D \ T : Adds(T, z)}
<1>1. ASSUME NEW T \in SUBSET S, \A U \in SUBSET T : U # T => U \in P PROVE T \in P
  <2> SUFFICES ASSUME NEW z \in D \ T PROVE Adds(T, z)
    OBVIOUS
  <2> DEFINE x == Any(T \cup {z})
             R == T \ {x}
  <2>1. x \in T \cup {z} /\ IsFiniteSet(T) /\ IsFiniteSet(T \cup {z})
    BY AnyIsOne, FS_Subset, FS_AddElement
  <2>2. SumFunctionOnSet(f, T \cup {z})
          = f[x] + SumFunctionOnSet(f, (T \cup {z}) \ {x})
    BY <2>1, SumTakesOut
  <2>3. CASE x = z
    <3>1. (T \cup {z}) \ {x} = T
      BY <2>3
    <3> QED BY <2>2, <2>3, <3>1
  <2>4. CASE x # z
    <3>1. x \in T /\ (T \cup {z}) \ {x} = R \cup {z} /\ R \cup {x} = T
      BY <2>1, <2>4
    <3>2. R \in SUBSET T /\ R # T /\ IsFiniteSet(R)
      BY <2>1, <3>1, FS_Subset
    <3>3. R \in P /\ z \in D \ R /\ x \in D \ R
      BY <1>1, <3>1, <3>2
    <3>4. SumFunctionOnSet(f, R \cup {z}) = f[z] + SumFunctionOnSet(f, R)
      BY <3>3
    <3>6. SumFunctionOnSet(f, T) = f[x] + SumFunctionOnSet(f, R)
      BY <3>1, <3>3
    <3>7. SumFunctionOnSet(f, T \cup {z}) = f[x] + SumFunctionOnSet(f, R \cup {z})
      BY <2>2, <3>1
    <3>5. SumFunctionOnSet(f, R) \in Int /\ f[x] \in Int /\ f[z] \in Int
      BY <3>1, <3>2, SumIsNumber
    <3> HIDE DEF x, R
    <3> QED BY <3>4, <3>5, <3>6, <3>7
  <2> QED BY <2>3, <2>4
<1> HIDE DEF P
<1>2. S \in P
  BY <1>1, SubsetInduction
<1> QED BY <1>2 DEF P

\* Part of the terms do not add up to more than all of them.
LEMMA SumOfPart ==
    ASSUME NEW S, IsFiniteSet(S), NEW f, \A x \in S : f[x] \in Nat, NEW R \in SUBSET S
    PROVE  SumFunctionOnSet(f, R) <= SumFunctionOnSet(f, S)
<1> DEFINE P == {T \in SUBSET S :
                   \A U \in SUBSET T : SumFunctionOnSet(f, U) <= SumFunctionOnSet(f, T)}
<1>1. ASSUME NEW T \in SUBSET S, \A U \in SUBSET T : U # T => U \in P PROVE T \in P
  <2> SUFFICES ASSUME NEW U \in SUBSET T
               PROVE  SumFunctionOnSet(f, U) <= SumFunctionOnSet(f, T)
    OBVIOUS
  <2>1. CASE T = {}
    <3>1. U = {} /\ T = {}
      BY <2>1
    <3> QED BY <3>1, SumOfNone
  <2>2. CASE T # {}
    <3> DEFINE x == Any(T)
               V == T \ {x}
    <3>1. x \in T /\ f[x] \in Nat
      BY <2>2, AnyIsOne
    <3>2. V \in P /\ U \ {x} \in SUBSET V
      BY <1>1, <3>1
    <3>3. IsFiniteSet(V) /\ IsFiniteSet(T) /\ IsFiniteSet(U \ {x})
      BY FS_Subset
    <3>4. SumFunctionOnSet(f, T) = f[x] + SumFunctionOnSet(f, V)
      BY <2>2, <3>3, SumTakesOut
    <3>5. SumFunctionOnSet(f, U \ {x}) <= SumFunctionOnSet(f, V)
      BY <3>2
    <3>6. SumFunctionOnSet(f, V) \in Nat /\ SumFunctionOnSet(f, U \ {x}) \in Nat
      BY <3>2, <3>3, SumIsNumber
    <3>7. CASE x \notin U
      <4>1. SumFunctionOnSet(f, U) = SumFunctionOnSet(f, U \ {x})
        <5>1. U \ {x} = U
          BY <3>7
        <5> QED BY <5>1
      <4> HIDE DEF P, x, V
      <4> QED BY <3>1, <3>4, <3>5, <3>6, <4>1
    <3>8. CASE x \in U
      <4>1. (U \ {x}) \cup {x} = U /\ x \notin U \ {x}
        BY <3>8
      <4>2. \A y \in (U \ {x}) \cup {x} : f[y] \in Int
        BY <3>1
      <4>3. SumFunctionOnSet(f, (U \ {x}) \cup {x}) = f[x] + SumFunctionOnSet(f, U \ {x})
        BY <3>3, <4>1, <4>2, SumAdds
      <4>4. SumFunctionOnSet(f, U) = f[x] + SumFunctionOnSet(f, U \ {x})
        BY <4>1, <4>3
      <4> HIDE DEF P, x, V
      <4> QED BY <3>1, <3>4, <3>5, <3>6, <4>4
    <3> QED BY <3>7, <3>8
  <2> QED BY <2>1, <2>2
<1> HIDE DEF P
<1>2. S \in P
  BY <1>1, SubsetInduction
<1> QED BY <1>2 DEF P

\* Terms may be renamed, as long as no two of them get one name.
LEMMA SumOfImage ==
    ASSUME NEW S, IsFiniteSet(S), NEW f, NEW g, NEW b,
           \A x \in S : f[x] = g[b[x]] /\ g[b[x]] \in Int,
           \A x, y \in S : x # y => b[x] # b[y]
    PROVE  SumFunctionOnSet(g, {b[x] : x \in S}) = SumFunctionOnSet(f, S)
<1> DEFINE Image(T) == {b[x] : x \in T}
           P == {T \in SUBSET S :
                   /\ IsFiniteSet(Image(T))
                   /\ SumFunctionOnSet(g, Image(T)) = SumFunctionOnSet(f, T)}
<1>1. ASSUME NEW T \in SUBSET S, \A U \in SUBSET T : U # T => U \in P PROVE T \in P
  <2>1. CASE T = {}
    <3>1. Image(T) = {}
      BY <2>1
    <3> QED BY <2>1, <3>1, SumOfNone, FS_EmptySet
  <2>2. CASE T # {}
    <3> DEFINE x == Any(T)
               R == T \ {x}
    <3>1. x \in T /\ x \in S
      BY <2>2, AnyIsOne
    <3>2. R \in P
      BY <1>1, <3>1
    <3>3. Image(T) = Image(R) \cup {b[x]} /\ b[x] \notin Image(R)
      BY <3>1
    <3>4. IsFiniteSet(Image(R)) /\ SumFunctionOnSet(g, Image(R)) = SumFunctionOnSet(f, R)
      BY <3>2
    <3>5. \A y \in Image(R) \cup {b[x]} : g[y] \in Int
      BY <3>1
    <3>6. SumFunctionOnSet(f, T) = f[x] + SumFunctionOnSet(f, R)
      BY <2>2, SumTakesOut, FS_Subset
    <3> HIDE DEF x, Image
    <3>7. IsFiniteSet(Image(T))
      <4>1. IsFiniteSet(Image(R) \cup {b[x]})
        BY <3>4, FS_AddElement
      <4> QED BY <3>3, <4>1
    <3>8. SumFunctionOnSet(g, Image(T)) = g[b[x]] + SumFunctionOnSet(g, Image(R))
      BY <3>3, <3>4, <3>5, SumAdds
    <3>9. SumFunctionOnSet(g, Image(T)) = SumFunctionOnSet(f, T)
      BY <3>1, <3>4, <3>6, <3>8
    <3> QED BY <3>7, <3>9
  <2> QED BY <2>1, <2>2
<1> HIDE DEF P
<1>2. S \in P
  BY <1>1, SubsetInduction
<1> QED BY <1>2 DEF P
=============================================================================
