----------------------------- MODULE FiniteSums -----------------------------
(***************************************************************************)
(* What SumFunctionOnSet computes, for every finite set of indices.  The   *)
(* sum is a recursive function on the subsets of the index set; a smallest *)
(* subset that breaks a statement takes the place of an induction.         *)
(***************************************************************************)
EXTENDS Functions, FiniteSetTheorems, TLAPS

(* the element the recursion takes out of a set *)
Pick(s) == CHOOSE x \in s : TRUE

(* The recursion that defines the sum of f over the subsets of S. *)
SumBody(f, S, g) ==
    [s \in SUBSET S |-> IF s = {} THEN 0 ELSE f[Pick(s)] + g[s \ {Pick(s)}]]

IsSum(f, S, g) == g \in [SUBSET S -> Nat] /\ g = SumBody(f, S, g)

LEMMA PickIn == ASSUME NEW s, s # {} PROVE Pick(s) \in s
    BY DEF Pick

LEMMA SumIsChosen ==
    ASSUME NEW f, NEW S
    PROVE  SumFunctionOnSet(f, S) = (CHOOSE g : g = SumBody(f, S, g))[S]
    BY DEF SumFunctionOnSet, FoldFunctionOnSet, MapThenFoldSet, SumBody, Pick

(* A set of subsets of a finite set has a smallest member. *)
LEMMA SmallestSubset ==
    ASSUME NEW S, IsFiniteSet(S), NEW B \in SUBSET SUBSET S, B # {}
    PROVE  \E T \in B : \A U \in B : ~(U \subseteq T /\ U # T)
<1>1. SUBSET S = FiniteSubsetsOf(S)
    BY FS_Subset DEF FiniteSubsetsOf
<1>2. IsWellFoundedOn(StrictSubsetOrdering(S), SUBSET S)
    BY <1>1, FS_StrictSubsetOrderingWellFounded
<1>3. PICK T \in B : \A U \in B : <<U, T>> \notin StrictSubsetOrdering(S)
    BY <1>2, WFMin
<1>4. QED
    BY <1>3 DEF StrictSubsetOrdering

(* Two sums over one set of indices agree, also on a smaller set. *)
LEMMA SumsAgree ==
    ASSUME NEW f, NEW S, NEW T \in SUBSET S, IsFiniteSet(S), NEW g, NEW h,
           g = SumBody(f, S, g), h = SumBody(f, T, h)
    PROVE  \A s \in SUBSET T : g[s] = h[s]
<1> DEFINE B == {s \in SUBSET T : g[s] # h[s]}
<1>1. SUFFICES ASSUME B # {} PROVE FALSE
    OBVIOUS
<1>2. IsFiniteSet(T)
    BY FS_Subset
<1>3. PICK s \in B : \A u \in B : ~(u \subseteq s /\ u # s)
  <2>1. B \in SUBSET SUBSET T
    OBVIOUS
  <2> HIDE DEF B
  <2>2. QED
    BY <1>1, <1>2, <2>1, SmallestSubset
<1>4. CASE s = {}
    BY <1>3, <1>4 DEF SumBody
<1>5. CASE s # {}
  <2>1. Pick(s) \in s
    BY <1>5, PickIn
  <2>2. s \ {Pick(s)} \in SUBSET T /\ s \ {Pick(s)} \in SUBSET S /\ s \ {Pick(s)} \notin B
    BY <1>3, <2>1
  <2>3. g[s] = f[Pick(s)] + g[s \ {Pick(s)}] /\ h[s] = f[Pick(s)] + h[s \ {Pick(s)}]
    BY <1>3, <1>5 DEF SumBody
  <2>4. QED
    BY <2>2, <2>3
<1>6. QED
    BY <1>4, <1>5

(* There is one over every finite set. *)
LEMMA SumExists ==
    ASSUME NEW f, NEW S, IsFiniteSet(S), \A x \in S : f[x] \in Nat
    PROVE  \E g : IsSum(f, S, g)
<1> DEFINE B == {T \in SUBSET S : ~\E g : IsSum(f, T, g)}
           G(T) == CHOOSE g : IsSum(f, T, g)
<1>1. SUFFICES ASSUME B # {} PROVE FALSE
    OBVIOUS
<1>2. PICK T \in B : \A U \in B : ~(U \subseteq T /\ U # T)
  <2>1. B \in SUBSET SUBSET S
    OBVIOUS
  <2> HIDE DEF B
  <2>2. QED
    BY <1>1, <2>1, SmallestSubset
<1>3. ASSUME NEW U \in SUBSET T, U # T
      PROVE  IsSum(f, U, G(U))
    BY <1>2, <1>3
<1> DEFINE P(s) == s \ {Pick(s)}
           g == [s \in SUBSET T |-> IF s = {} THEN 0 ELSE f[Pick(s)] + G(P(s))[P(s)]]
<1>4. ASSUME NEW s \in SUBSET T, s # {}
      PROVE  P(s) \in SUBSET T /\ P(s) # T /\ Pick(s) \in S
    BY <1>4, PickIn
<1>5. ASSUME NEW s \in SUBSET T, s # {}
      PROVE  f[Pick(s)] \in Nat /\ G(P(s))[P(s)] \in Nat
  <2>1. IsSum(f, P(s), G(P(s)))
    BY <1>3, <1>4, <1>5
  <2>2. G(P(s))[P(s)] \in Nat
    BY <2>1 DEF IsSum
  <2>3. QED
    BY <1>4, <1>5, <2>2
<1>6. g \in [SUBSET T -> Nat]
  <2> HIDE DEF G, P
  <2>1. QED
    BY <1>5
<1>7. ASSUME NEW u \in SUBSET T, u # T
      PROVE  g[u] = G(u)[u]
  <2>1. G(u) = SumBody(f, u, G(u))
    BY <1>3, <1>7 DEF IsSum
  <2>2. CASE u = {}
    BY <2>1, <2>2 DEF SumBody
  <2>3. CASE u # {}
    <3>1. P(u) \in SUBSET u /\ P(u) \in SUBSET T /\ P(u) # T
      BY <1>4, <2>3
    <3>2. G(P(u)) = SumBody(f, P(u), G(P(u)))
      BY <1>3, <3>1 DEF IsSum
    <3>3. IsFiniteSet(u)
      BY <1>2, FS_Subset
    <3>4. G(u)[P(u)] = G(P(u))[P(u)]
      <4> HIDE DEF G
      <4>1. \A s \in SUBSET P(u) : G(u)[s] = G(P(u))[s]
        BY <2>1, <3>1, <3>2, <3>3, SumsAgree
      <4>2. QED
        BY <4>1
    <3>5. G(u)[u] = f[Pick(u)] + G(u)[P(u)]
      <4> HIDE DEF G
      <4>1. QED
        BY <2>1, <2>3 DEF SumBody
    <3>6. QED
      BY <2>3, <3>4, <3>5
  <2>4. QED
    BY <2>2, <2>3
<1>8. g = SumBody(f, T, g)
  <2>1. ASSUME NEW s \in SUBSET T, s # {}
        PROVE  G(P(s))[P(s)] = g[P(s)]
    BY <1>4, <1>7, <2>1
  <2>2. QED
    <3> HIDE DEF G
    <3>1. QED
      BY <2>1 DEF SumBody
<1>9. QED
    BY <1>2, <1>6, <1>8 DEF IsSum

(* What the definition of the sum chooses is a sum. *)
LEMMA ChosenIsSum ==
    ASSUME NEW f, NEW S, IsFiniteSet(S), \A x \in S : f[x] \in Nat,
           NEW g, IsSum(f, S, g)
    PROVE  SumFunctionOnSet(f, S) = g[S]
<1> DEFINE h == CHOOSE c : c = SumBody(f, S, c)
<1>1. h = SumBody(f, S, h)
    BY DEF IsSum
<1>2. SumFunctionOnSet(f, S) = h[S]
    BY SumIsChosen
<1> HIDE DEF h
<1>3. g[S] = h[S]
    BY <1>1, SumsAgree DEF IsSum
<1>4. QED
    BY <1>2, <1>3

(* The sum over the empty set, and the recursion over any other. *)
LEMMA SumUnfold ==
    ASSUME NEW f, NEW S, IsFiniteSet(S), \A x \in S : f[x] \in Nat
    PROVE  /\ SumFunctionOnSet(f, S) \in Nat
           /\ S = {} => SumFunctionOnSet(f, S) = 0
           /\ S # {} => SumFunctionOnSet(f, S)
                           = f[Pick(S)] + SumFunctionOnSet(f, S \ {Pick(S)})
<1>1. PICK g : IsSum(f, S, g)
    BY SumExists
<1>2. SumFunctionOnSet(f, S) = g[S]
    BY <1>1, ChosenIsSum
<1>3. SumFunctionOnSet(f, S) \in Nat /\ (S = {} => g[S] = 0)
    BY <1>1, <1>2 DEF IsSum, SumBody
<1>4. ASSUME S # {}
      PROVE  g[S] = f[Pick(S)] + SumFunctionOnSet(f, S \ {Pick(S)})
  <2> DEFINE U == S \ {Pick(S)}
  <2>1. IsFiniteSet(U) /\ U \in SUBSET S
    BY FS_Subset
  <2> HIDE DEF U
  <2>2. PICK h : IsSum(f, U, h)
    BY <2>1, SumExists
  <2>3. SumFunctionOnSet(f, U) = h[U]
    BY <2>1, <2>2, ChosenIsSum
  <2>4. g[U] = h[U]
    BY <1>1, <2>1, <2>2, SumsAgree DEF IsSum
  <2>5. g[S] = f[Pick(S)] + g[U]
    BY <1>1, <1>4 DEF IsSum, SumBody, U
  <2>6. QED
    BY <2>3, <2>4, <2>5 DEF U
<1>5. QED
    BY <1>2, <1>3, <1>4

(* A sum of natural numbers is one. *)
LEMMA SumIsNat ==
    ASSUME NEW f, NEW S, IsFiniteSet(S), \A x \in S : f[x] \in Nat
    PROVE  SumFunctionOnSet(f, S) \in Nat
    BY SumUnfold

LEMMA SumOfNothing ==
    ASSUME NEW f
    PROVE  SumFunctionOnSet(f, {}) = 0
    BY SumUnfold, FS_EmptySet

(* Any member may be taken out first: the sum does not depend on the order. *)
LEMMA SumTakeOut ==
    ASSUME NEW f, NEW S, IsFiniteSet(S), \A x \in S : f[x] \in Nat, NEW y \in S
    PROVE  SumFunctionOnSet(f, S) = f[y] + SumFunctionOnSet(f, S \ {y})
<1> DEFINE Q(T) == \A x \in T : SumFunctionOnSet(f, T) = f[x] + SumFunctionOnSet(f, T \ {x})
           B == {T \in SUBSET S : ~Q(T)}
<1>1. SUFFICES ASSUME B # {} PROVE FALSE
    OBVIOUS
<1>2. PICK T \in B : \A U \in B : ~(U \subseteq T /\ U # T)
  <2>1. B \in SUBSET SUBSET S
    OBVIOUS
  <2> HIDE DEF B
  <2>2. QED
    BY <1>1, <2>1, SmallestSubset
<1>3. PICK x \in T : SumFunctionOnSet(f, T) # f[x] + SumFunctionOnSet(f, T \ {x})
    BY <1>2
<1> DEFINE c == Pick(T)
<1>4. c \in T
    BY <1>3, PickIn
<1> HIDE DEF c
<1>5. SumFunctionOnSet(f, T) = f[c] + SumFunctionOnSet(f, T \ {c})
  <2>1. IsFiniteSet(T) /\ T # {}
    BY <1>2, <1>3, FS_Subset
  <2>2. QED
    BY <1>2, <2>1, SumUnfold DEF c
<1>6. x # c
    BY <1>3, <1>5
<1>7. Q(T \ {c}) /\ Q(T \ {x})
    BY <1>2, <1>3, <1>4
<1> DEFINE R == T \ {x, c}
<1>8. /\ SumFunctionOnSet(f, T \ {c}) = f[x] + SumFunctionOnSet(f, R)
      /\ SumFunctionOnSet(f, T \ {x}) = f[c] + SumFunctionOnSet(f, R)
  <2>1. (T \ {c}) \ {x} = R /\ (T \ {x}) \ {c} = R /\ x \in T \ {c} /\ c \in T \ {x}
    BY <1>3, <1>4, <1>6
  <2> HIDE DEF R
  <2>2. QED
    BY <1>7, <2>1
<1>9. f[x] \in Nat /\ f[c] \in Nat /\ SumFunctionOnSet(f, R) \in Nat
  <2>1. IsFiniteSet(R) /\ R \subseteq S
    BY <1>2, FS_Subset
  <2>2. QED
    BY <1>2, <1>3, <1>4, <2>1, SumIsNat
<1>10. QED
    BY <1>3, <1>5, <1>8, <1>9

(* Fewer members, a smaller sum. *)
LEMMA SumMonotone ==
    ASSUME NEW f, NEW S, IsFiniteSet(S), \A x \in S : f[x] \in Nat, NEW T \in SUBSET S
    PROVE  SumFunctionOnSet(f, T) <= SumFunctionOnSet(f, S)
<1> DEFINE B == {U \in SUBSET S : T \subseteq U
                    /\ ~(SumFunctionOnSet(f, T) <= SumFunctionOnSet(f, U))}
<1>1. SUFFICES ASSUME B # {} PROVE FALSE
    OBVIOUS
<1>2. PICK U \in B : \A V \in B : ~(V \subseteq U /\ V # U)
  <2>1. B \in SUBSET SUBSET S
    OBVIOUS
  <2> HIDE DEF B
  <2>2. QED
    BY <1>1, <2>1, SmallestSubset
<1>3. IsFiniteSet(U) /\ IsFiniteSet(T)
    BY <1>2, FS_Subset
<1>4. SumFunctionOnSet(f, T) \in Nat
    BY <1>3, SumIsNat
<1>5. U # T
    BY <1>2, <1>4
<1>6. PICK x \in U : x \notin T
    BY <1>2, <1>5
<1>7. SumFunctionOnSet(f, U) = f[x] + SumFunctionOnSet(f, U \ {x})
    BY <1>2, <1>3, <1>6, SumTakeOut
<1>8. IsFiniteSet(U \ {x}) /\ SumFunctionOnSet(f, U \ {x}) \in Nat
  <2>1. IsFiniteSet(U \ {x})
    BY <1>3, FS_Subset
  <2>2. QED
    BY <1>2, <2>1, SumIsNat
<1>9. SumFunctionOnSet(f, T) <= SumFunctionOnSet(f, U \ {x})
    BY <1>2, <1>6
<1>10. QED
    BY <1>2, <1>4, <1>6, <1>7, <1>8, <1>9

(* Indices may be renamed, one to one. *)
LEMMA SumRenamed ==
    ASSUME NEW f, NEW g, NEW m, NEW S, IsFiniteSet(S),
           \A x \in S : f[x] \in Nat /\ f[x] = g[m[x]],
           \A x, y \in S : m[x] = m[y] => x = y
    PROVE  SumFunctionOnSet(f, S) = SumFunctionOnSet(g, {m[x] : x \in S})
<1> DEFINE M(T) == {m[x] : x \in T}
           B == {T \in SUBSET S : SumFunctionOnSet(f, T) # SumFunctionOnSet(g, M(T))}
<1>1. SUFFICES ASSUME B # {} PROVE FALSE
    OBVIOUS
<1>2. PICK T \in B : \A U \in B : ~(U \subseteq T /\ U # T)
  <2>1. B \in SUBSET SUBSET S
    OBVIOUS
  <2> HIDE DEF B
  <2>2. QED
    BY <1>1, <2>1, SmallestSubset
<1>3. T # {}
  <2>1. SUFFICES ASSUME T = {} PROVE FALSE
    OBVIOUS
  <2>2. M(T) = {}
    BY <2>1
  <2>3. QED
    BY <1>2, <2>1, <2>2, SumOfNothing
<1>4. PICK x : x \in T
    BY <1>3
<1>5. IsFiniteSet(T) /\ IsFiniteSet(M(T))
  <2>1. IsFiniteSet(T)
    BY <1>2, FS_Subset
  <2>2. [z \in T |-> m[z]] \in Surjection(T, M(T))
    BY DEF Surjection
  <2>3. QED
    BY <2>1, <2>2, FS_Surjection
<1>6. m[x] \in M(T) /\ M(T) \ {m[x]} = M(T \ {x}) /\ \A y \in M(T) : g[y] \in Nat
    BY <1>2, <1>4
<1> HIDE DEF M
<1>7. /\ SumFunctionOnSet(f, T) = f[x] + SumFunctionOnSet(f, T \ {x})
      /\ SumFunctionOnSet(g, M(T)) = g[m[x]] + SumFunctionOnSet(g, M(T \ {x}))
    BY <1>2, <1>4, <1>5, <1>6, SumTakeOut
<1>8. SumFunctionOnSet(f, T \ {x}) = SumFunctionOnSet(g, M(T \ {x}))
    BY <1>2, <1>4
<1>9. QED
    BY <1>2, <1>4, <1>7, <1>8

(* Zeros add up to zero. *)
LEMMA SumOfZeros ==
    ASSUME NEW f, NEW S, IsFiniteSet(S), \A x \in S : f[x] = 0
    PROVE  SumFunctionOnSet(f, S) = 0
<1> DEFINE B == {T \in SUBSET S : SumFunctionOnSet(f, T) # 0}
<1>1. SUFFICES ASSUME B # {} PROVE FALSE
    OBVIOUS
<1>2. PICK T \in B : \A U \in B : ~(U \subseteq T /\ U # T)
  <2>1. B \in SUBSET SUBSET S
    OBVIOUS
  <2> HIDE DEF B
  <2>2. QED
    BY <1>1, <2>1, SmallestSubset
<1>3. T # {}
    BY <1>2, SumOfNothing
<1>4. PICK x : x \in T
    BY <1>3
<1>5. IsFiniteSet(T) /\ \A z \in T : f[z] = 0
    BY <1>2, FS_Subset
<1>6. SumFunctionOnSet(f, T) = f[x] + SumFunctionOnSet(f, T \ {x})
    BY <1>4, <1>5, SumTakeOut
<1>7. SumFunctionOnSet(f, T \ {x}) = 0
    BY <1>2, <1>4
<1>8. QED
    BY <1>2, <1>4, <1>5, <1>6, <1>7

(* When at most one member counts, the sum is its value. *)
LEMMA SumOfOne ==
    ASSUME NEW f, NEW S, IsFiniteSet(S), NEW y \in S, f[y] \in Nat,
           \A x \in S : x # y => f[x] = 0
    PROVE  SumFunctionOnSet(f, S) = f[y]
<1>1. IsFiniteSet(S \ {y}) /\ \A x \in S \ {y} : f[x] = 0
    BY FS_Subset
<1>2. SumFunctionOnSet(f, S \ {y}) = 0
    BY <1>1, SumOfZeros
<1>3. \A x \in S : f[x] \in Nat
    OBVIOUS
<1>4. SumFunctionOnSet(f, S) = f[y] + SumFunctionOnSet(f, S \ {y})
    BY <1>3, SumTakeOut
<1>5. QED
    BY <1>2, <1>4
=============================================================================
