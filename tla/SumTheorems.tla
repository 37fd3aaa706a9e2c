---------------------------- MODULE SumTheorems ----------------------------
(***************************************************************************)
(* Sums over finite sets: what SumFunctionOnSet of the community modules   *)
(* yields, by which the tracker adds up its positions (RiskBook) and the   *)
(* session manager a day's seconds (SessionManager). The fold takes the    *)
(* elements in some order; here it is shown that the order does not        *)
(* matter.                                                                 *)
(***************************************************************************)
EXTENDS Integers, Functions, FiniteSetTheorems, WellFoundedInduction, TLAPS

-----------------------------------------------------------------------------
(* Induction over the subsets of a finite set.                             *)

Smaller == OpToRel(<, Nat)

\* Among naturals there is a least one.
LEMMA LeastNatural ==
    ASSUME NEW T \in SUBSET Nat, T # {}
    PROVE  \E n \in T : \A m \in T : n <= m
  <1>1. IsWellFoundedOn(Smaller, Nat)
    BY NatLessThanWellFounded DEF Smaller
  <1>2. PICK n \in T : \A m \in T : ~(<<m, n>> \in Smaller)
    BY <1>1, WFMin
  <1>3. \A m \in T : ~(m < n)
    BY <1>2 DEF Smaller, OpToRel
  <1>4. \A m \in T : n <= m
    BY <1>3
  <1> QED
    BY <1>4

\* What passes from all smaller subsets to a set holds of every finite set.
LEMMA SubsetInduction ==
    ASSUME NEW S, IsFiniteSet(S), NEW Good,
           \A T \in SUBSET S : (\A U \in SUBSET T : U # T => U \in Good) => T \in Good
    PROVE  S \in Good
  <1> DEFINE Bad == {T \in SUBSET S : T \notin Good}
  <1>1. SUFFICES ASSUME S \notin Good PROVE FALSE
    OBVIOUS
  <1>2. \A T \in SUBSET S : IsFiniteSet(T) /\ Cardinality(T) \in Nat
    BY FS_Subset, FS_CardinalityType
  <1>3. {Cardinality(T) : T \in Bad} \in SUBSET Nat /\ {Cardinality(T) : T \in Bad} # {}
    <2>1. S \in Bad
      BY <1>1
    <2> QED
      BY <1>2, <2>1
  <1>4. PICK n \in {Cardinality(T) : T \in Bad} :
            \A m \in {Cardinality(T) : T \in Bad} : n <= m
    BY <1>3, LeastNatural
  <1>5. PICK T \in Bad : n = Cardinality(T)
    BY <1>4
  <1>6. \A U \in SUBSET T : U # T => U \in Good
    <2> SUFFICES ASSUME NEW U \in SUBSET T, U # T, U \notin Good PROVE FALSE
      OBVIOUS
    <2>1. U \in Bad
      BY <1>5
    <2>2. Cardinality(T) <= Cardinality(U)
      BY <1>4, <1>5, <2>1
    <2>3. Cardinality(U) < Cardinality(T)
      BY <1>2, <1>5, FS_Subset
    <2> QED
      BY <1>2, <1>5, <2>1, <2>2, <2>3
  <1> QED
    BY <1>5, <1>6

-----------------------------------------------------------------------------
(* The fold is well defined.                                               *)

Choice(s) == CHOOSE x \in s : TRUE

\* g adds up f over each subset of S, taking out one chosen element at a time.
Adds(f, S, g) ==
    g = [s \in SUBSET S |-> IF s = {} THEN 0 ELSE f[Choice(s)] + g[s \ {Choice(s)}]]

\* The fold is the choice of such a g.
LEMMA SumIsChosen ==
    ASSUME NEW f, NEW S
    PROVE  SumFunctionOnSet(f, S) = (CHOOSE g : Adds(f, S, g))[S]
  BY DEF SumFunctionOnSet, FoldFunctionOnSet, MapThenFoldSet, Adds, Choice

\* What one of them says of a subset.
LEMMA AddsStep ==
    ASSUME NEW f, NEW S, NEW g, Adds(f, S, g), NEW s \in SUBSET S
    PROVE  /\ s = {} => g[s] = 0
           /\ s # {} => /\ Choice(s) \in s
                        /\ g[s] = f[Choice(s)] + g[s \ {Choice(s)}]
  <1>1. s # {} => Choice(s) \in s
    BY DEF Choice
  <1>2. g[s] = IF s = {} THEN 0 ELSE f[Choice(s)] + g[s \ {Choice(s)}]
    BY DEF Adds
  <1> QED
    BY <1>1, <1>2

\* All of them agree.
LEMMA AddsAgree ==
    ASSUME NEW f, NEW S, IsFiniteSet(S), NEW g, Adds(f, S, g),
           NEW T \in SUBSET S, NEW h, Adds(f, T, h)
    PROVE  g[T] = h[T]
  <1> DEFINE Good == {s \in SUBSET T : g[s] = h[s]}
  <1>1. ASSUME NEW s \in SUBSET T, \A u \in SUBSET s : u # s => u \in Good
        PROVE  s \in Good
    <2>1. CASE s = {}
      BY <2>1, AddsStep
    <2>2. CASE s # {}
      <3>1. PICK c : c = Choice(s) /\ c \in s
        BY <2>2 DEF Choice
      <3>2. s \ {c} \in Good
        BY <1>1, <3>1
      <3>3. g[s] = f[c] + g[s \ {c}] /\ h[s] = f[c] + h[s \ {c}]
        BY <2>2, <3>1, AddsStep
      <3> QED
        BY <3>2, <3>3
    <2> QED
      BY <2>1, <2>2
  <1>2. IsFiniteSet(T)
    BY FS_Subset
  <1> HIDE DEF Good
  <1>3. T \in Good
    BY <1>1, <1>2, SubsetInduction
  <1> QED
    BY <1>3 DEF Good

\* Two functions on a set, pointwise.
LEMMA SameFunction ==
    ASSUME NEW D, NEW g, g = [x \in D |-> g[x]], NEW h, h = [x \in D |-> h[x]],
           \A x \in D : g[x] = h[x]
    PROVE  g = h
<1>1. [x \in D |-> g[x]] = [x \in D |-> h[x]]
  OBVIOUS
<1> QED BY <1>1

LEMMA AddsPointwise ==
    ASSUME NEW f, NEW S, NEW g, g = [s \in SUBSET S |-> g[s]],
           \A s \in SUBSET S :
             g[s] = IF s = {} THEN 0 ELSE f[Choice(s)] + g[s \ {Choice(s)}]
    PROVE  Adds(f, S, g)
<1>1. PICK h : h = [s \in SUBSET S |-> IF s = {} THEN 0 ELSE f[Choice(s)] + g[s \ {Choice(s)}]]
  OBVIOUS
<1>2. h = [s \in SUBSET S |-> h[s]] /\ \A s \in SUBSET S : g[s] = h[s]
  BY <1>1
<1>3. g = h
  BY <1>2, SameFunction
<1> QED BY <1>1, <1>3 DEF Adds

\* There is one for every finite set.
LEMMA AddsExists ==
    ASSUME NEW f, NEW S, IsFiniteSet(S)
    PROVE  \E g : Adds(f, S, g)
  <1> DEFINE Good == {T \in SUBSET S : \E g : Adds(f, T, g)}
  <1>1. ASSUME NEW T \in SUBSET S, \A U \in SUBSET T : U # T => U \in Good
        PROVE  T \in Good
    <2> DEFINE at(U) == (CHOOSE g : Adds(f, U, g))[U]
               sum == [s \in SUBSET T |->
                         IF s = {} THEN 0 ELSE f[Choice(s)] + at(s \ {Choice(s)})]
    <2>1. ASSUME NEW s \in SUBSET T, s # T PROVE sum[s] = at(s)
      <3>1. PICK g : g = CHOOSE h : Adds(f, s, h)
        OBVIOUS
      <3>2. Adds(f, s, g)
        BY <1>1, <2>1, <3>1
      <3>3. CASE s = {}
        BY <3>1, <3>2, <3>3, AddsStep
      <3>4. CASE s # {}
        <4>1. PICK c : c = Choice(s) /\ c \in s
          BY <3>4 DEF Choice
        <4>2. g[s] = f[c] + g[s \ {c}]
          BY <3>2, <3>4, <4>1, AddsStep
        <4>3. PICK h : h = CHOOSE k : Adds(f, s \ {c}, k)
          OBVIOUS
        <4>4. Adds(f, s \ {c}, h)
          BY <1>1, <2>1, <4>1, <4>3
        <4>5. g[s \ {c}] = h[s \ {c}]
          <5>1. IsFiniteSet(s)
            BY FS_Subset
          <5> QED
            BY <3>2, <4>4, <5>1, AddsAgree
        <4> QED
          BY <3>1, <3>4, <4>1, <4>2, <4>3, <4>5
      <3> QED
        BY <3>3, <3>4
    <2>2. ASSUME NEW s \in SUBSET T, s # {} PROVE sum[s \ {Choice(s)}] = at(s \ {Choice(s)})
      <3>1. Choice(s) \in s
        BY <2>2 DEF Choice
      <3>2. s \ {Choice(s)} \in SUBSET T /\ s \ {Choice(s)} # T
        BY <3>1
      <3> QED
        BY <2>1, <3>2
    <2>3. PICK g : g = sum
      OBVIOUS
    <2>4. g = [s \in SUBSET T |-> g[s]]
      BY <2>3
    <2>5. ASSUME NEW s \in SUBSET T
          PROVE  g[s] = IF s = {} THEN 0 ELSE f[Choice(s)] + g[s \ {Choice(s)}]
      <3>1. g[s] = IF s = {} THEN 0 ELSE f[Choice(s)] + at(s \ {Choice(s)})
        BY <2>3
      <3>2. s # {} => g[s \ {Choice(s)}] = at(s \ {Choice(s)})
        BY <2>2, <2>3
      <3> QED BY <3>1, <3>2
    <2> HIDE DEF sum, at
    <2>6. Adds(f, T, g)
      BY <2>4, <2>5, AddsPointwise
    <2> QED
      BY <2>6
  <1> HIDE DEF Good
  <1>2. S \in Good
    BY <1>1, SubsetInduction
  <1> QED
    BY <1>2 DEF Good

-----------------------------------------------------------------------------
(* Sums, by their elements.                                                *)

\* The sum of every subset is that of one and the same g.
LEMMA SumsTogether ==
    ASSUME NEW f, NEW S, IsFiniteSet(S)
    PROVE  \E g : Adds(f, S, g) /\ \A T \in SUBSET S : SumFunctionOnSet(f, T) = g[T]
<1>1. PICK g : Adds(f, S, g)
  BY AddsExists
<1>2. ASSUME NEW T \in SUBSET S PROVE SumFunctionOnSet(f, T) = g[T]
  <2>1. IsFiniteSet(T)
    BY FS_Subset
  <2>2. PICK h : h = CHOOSE k : Adds(f, T, k)
    OBVIOUS
  <2>3. Adds(f, T, h)
    BY <2>1, <2>2, AddsExists
  <2>4. g[T] = h[T]
    BY <1>1, <2>3, AddsAgree
  <2> QED BY <2>2, <2>4, SumIsChosen
<1> QED BY <1>1, <1>2

LEMMA SumChosen ==
    ASSUME NEW f, NEW S, IsFiniteSet(S)
    PROVE  /\ S = {} => SumFunctionOnSet(f, S) = 0
           /\ S # {} => /\ Choice(S) \in S
                        /\ SumFunctionOnSet(f, S) =
                             f[Choice(S)] + SumFunctionOnSet(f, S \ {Choice(S)})
<1>1. PICK g : Adds(f, S, g) /\ \A T \in SUBSET S : SumFunctionOnSet(f, T) = g[T]
  BY SumsTogether
<1>2. S \in SUBSET S /\ S \ {Choice(S)} \in SUBSET S
  OBVIOUS
<1>3. SumFunctionOnSet(f, S) = g[S]
      /\ SumFunctionOnSet(f, S \ {Choice(S)}) = g[S \ {Choice(S)}]
  BY <1>1, <1>2
<1> QED BY <1>1, <1>2, <1>3, AddsStep

LEMMA SumType ==
    ASSUME NEW f, NEW S, IsFiniteSet(S), \A x \in S : f[x] \in Int
    PROVE  SumFunctionOnSet(f, S) \in Int
<1> DEFINE Good == {T \in SUBSET S : SumFunctionOnSet(f, T) \in Int}
<1>1. ASSUME NEW T \in SUBSET S, \A U \in SUBSET T : U # T => U \in Good
      PROVE  T \in Good
  <2>1. IsFiniteSet(T)
    BY FS_Subset
  <2>2. CASE T = {}
    <3>1. SumFunctionOnSet(f, T) = 0
      BY <2>1, <2>2, SumChosen
    <3> QED BY <3>1
  <2>3. CASE T # {}
    <3>1. PICK c \in T : SumFunctionOnSet(f, T) = f[c] + SumFunctionOnSet(f, T \ {c})
      BY <2>1, <2>3, SumChosen
    <3>2. T \ {c} \in Good /\ f[c] \in Int
      BY <1>1, <3>1
    <3> QED BY <3>1, <3>2
  <2> QED BY <2>2, <2>3
<1> HIDE DEF Good
<1>2. S \in Good
  BY <1>1, SubsetInduction
<1> QED BY <1>2 DEF Good

\* Whichever element is taken out first.
LEMMA SumRemove ==
    ASSUME NEW f, NEW S, IsFiniteSet(S), \A x \in S : f[x] \in Int, NEW x \in S
    PROVE  /\ SumFunctionOnSet(f, S \ {x}) \in Int
           /\ SumFunctionOnSet(f, S) = f[x] + SumFunctionOnSet(f, S \ {x})
<1> DEFINE Good == {T \in SUBSET S : \A y \in T :
                      SumFunctionOnSet(f, T) = f[y] + SumFunctionOnSet(f, T \ {y})}
<1>0. \A T \in SUBSET S : IsFiniteSet(T) /\ SumFunctionOnSet(f, T) \in Int
  <2> SUFFICES ASSUME NEW T \in SUBSET S
               PROVE  IsFiniteSet(T) /\ SumFunctionOnSet(f, T) \in Int
    OBVIOUS
  <2>1. IsFiniteSet(T)
    BY FS_Subset
  <2> QED BY <2>1, SumType
<1>1. ASSUME NEW T \in SUBSET S, \A U \in SUBSET T : U # T => U \in Good
      PROVE  T \in Good
  <2> SUFFICES ASSUME NEW y \in T
               PROVE  SumFunctionOnSet(f, T) = f[y] + SumFunctionOnSet(f, T \ {y})
    OBVIOUS
  <2>1. PICK c \in T : SumFunctionOnSet(f, T) = f[c] + SumFunctionOnSet(f, T \ {c})
    BY <1>0, SumChosen
  <2>2. CASE y = c
    BY <2>1, <2>2
  <2>3. CASE y # c
    <3>1. T \ {c} \in Good /\ T \ {y} \in Good
      BY <1>1
    <3>2. y \in T \ {c} /\ c \in T \ {y}
      BY <2>3
    <3>3. PICK rest : rest = T \ {c, y}
      OBVIOUS
    <3>4. (T \ {c}) \ {y} = rest /\ (T \ {y}) \ {c} = rest
      BY <3>3
    <3>5. SumFunctionOnSet(f, T \ {c}) = f[y] + SumFunctionOnSet(f, rest)
      BY <3>1, <3>2, <3>4
    <3>6. SumFunctionOnSet(f, T \ {y}) = f[c] + SumFunctionOnSet(f, rest)
      BY <3>1, <3>2, <3>4
    <3>7. SumFunctionOnSet(f, rest) \in Int /\ f[c] \in Int /\ f[y] \in Int
      BY <1>0, <3>3
    <3> QED BY <2>1, <3>5, <3>6, <3>7
  <2> QED BY <2>2, <2>3
<1> HIDE DEF Good
<1>2. S \in Good
  BY <1>1, SubsetInduction
<1> QED BY <1>0, <1>2 DEF Good

\* Only the values on the set matter.
LEMMA SumAgrees ==
    ASSUME NEW f, NEW g, NEW S, IsFiniteSet(S), \A x \in S : f[x] = g[x]
    PROVE  SumFunctionOnSet(f, S) = SumFunctionOnSet(g, S)
<1> DEFINE Good == {T \in SUBSET S : SumFunctionOnSet(f, T) = SumFunctionOnSet(g, T)}
<1>1. ASSUME NEW T \in SUBSET S, \A U \in SUBSET T : U # T => U \in Good
      PROVE  T \in Good
  <2>1. IsFiniteSet(T)
    BY FS_Subset
  <2>2. CASE T = {}
    <3>1. SumFunctionOnSet(f, T) = 0 /\ SumFunctionOnSet(g, T) = 0
      BY <2>1, <2>2, SumChosen
    <3> QED BY <3>1
  <2>3. CASE T # {}
    <3>1. PICK c \in T : c = Choice(T)
      BY <2>1, <2>3, SumChosen
    <3>2. /\ SumFunctionOnSet(f, T) = f[c] + SumFunctionOnSet(f, T \ {c})
          /\ SumFunctionOnSet(g, T) = g[c] + SumFunctionOnSet(g, T \ {c})
      BY <2>1, <2>3, <3>1, SumChosen
    <3>3. T \ {c} \in Good /\ f[c] = g[c]
      BY <1>1, <3>1
    <3> QED BY <3>2, <3>3
  <2> QED BY <2>2, <2>3
<1> HIDE DEF Good
<1>2. S \in Good
  BY <1>1, SubsetInduction
<1> QED BY <1>2 DEF Good

\* A sum of naturals is one, and no less than any of them.
LEMMA SumOfNaturals ==
    ASSUME NEW f, NEW S, IsFiniteSet(S), \A x \in S : f[x] \in Nat
    PROVE  /\ SumFunctionOnSet(f, S) \in Nat
           /\ \A x \in S : /\ SumFunctionOnSet(f, S \ {x}) \in Nat
                           /\ SumFunctionOnSet(f, S) = f[x] + SumFunctionOnSet(f, S \ {x})
                           /\ f[x] <= SumFunctionOnSet(f, S)
<1> DEFINE Good == {T \in SUBSET S : SumFunctionOnSet(f, T) \in Nat}
<1>1. ASSUME NEW T \in SUBSET S, \A U \in SUBSET T : U # T => U \in Good
      PROVE  T \in Good
  <2>1. IsFiniteSet(T)
    BY FS_Subset
  <2>2. CASE T = {}
    <3>1. SumFunctionOnSet(f, T) = 0
      BY <2>1, <2>2, SumChosen
    <3> QED BY <3>1
  <2>3. CASE T # {}
    <3>1. PICK c \in T : SumFunctionOnSet(f, T) = f[c] + SumFunctionOnSet(f, T \ {c})
      BY <2>1, <2>3, SumChosen
    <3>2. T \ {c} \in Good /\ f[c] \in Nat
      BY <1>1, <3>1
    <3> QED BY <3>1, <3>2
  <2> QED BY <2>2, <2>3
<1> HIDE DEF Good
<1>2. \A T \in SUBSET S : T \in Good
  <2> SUFFICES ASSUME NEW T \in SUBSET S PROVE T \in Good
    OBVIOUS
  <2>1. IsFiniteSet(T)
    BY FS_Subset
  <2>2. \A U \in SUBSET T : (\A V \in SUBSET U : V # U => V \in Good) => U \in Good
    BY <1>1
  <2> QED BY <2>1, <2>2, SubsetInduction
<1>3. \A T \in SUBSET S : SumFunctionOnSet(f, T) \in Nat
  BY <1>2 DEF Good
<1>4. ASSUME NEW x \in S
      PROVE  /\ SumFunctionOnSet(f, S \ {x}) \in Nat
             /\ SumFunctionOnSet(f, S) = f[x] + SumFunctionOnSet(f, S \ {x})
             /\ f[x] <= SumFunctionOnSet(f, S)
  <2>1. f[x] \in Nat /\ SumFunctionOnSet(f, S \ {x}) \in Nat
    BY <1>3
  <2>2. SumFunctionOnSet(f, S) = f[x] + SumFunctionOnSet(f, S \ {x})
    BY SumRemove
  <2> QED BY <2>1, <2>2
<1> QED BY <1>3, <1>4

LEMMA OneTimeMore == \A c \in Int, n \in Nat : c * (n + 1) = c * n + c
OBVIOUS

\* A sum of terms of at most c.
LEMMA SumAtMost ==
    ASSUME NEW c \in Int, NEW f, NEW S, IsFiniteSet(S), \A x \in S : f[x] \in Int /\ f[x] <= c
    PROVE  SumFunctionOnSet(f, S) <= c * Cardinality(S)
<1> DEFINE Good == {T \in SUBSET S : SumFunctionOnSet(f, T) <= c * Cardinality(T)}
<1>1. ASSUME NEW T \in SUBSET S, \A U \in SUBSET T : U # T => U \in Good
      PROVE  T \in Good
  <2>1. IsFiniteSet(T)
    BY FS_Subset
  <2>2. CASE T = {}
    <3>1. Cardinality(T) = 0
      BY <2>2, FS_EmptySet
    <3>2. SumFunctionOnSet(f, T) = 0
      BY <2>1, <2>2, SumChosen
    <3>3. c * 0 = 0
      OBVIOUS
    <3>4. SumFunctionOnSet(f, T) <= c * Cardinality(T)
      BY <3>1, <3>2, <3>3
    <3> QED BY <3>4
  <2>3. CASE T # {}
    <3>1. PICK y \in T : SumFunctionOnSet(f, T) = f[y] + SumFunctionOnSet(f, T \ {y})
      BY <2>1, <2>3, SumChosen
    <3>2. PICK U : U = T \ {y} /\ U \in Good
      BY <1>1, <3>1
    <3>3. f[y] \in Int /\ f[y] <= c /\ SumFunctionOnSet(f, U) \in Int
      <4>1. IsFiniteSet(U) /\ \A x \in U : f[x] \in Int
        BY <2>1, <3>2, FS_Subset
      <4> QED BY <4>1, SumType
    <3>4. PICK n \in Nat : n = Cardinality(U) /\ Cardinality(T) = n + 1
      BY <2>1, <3>2, FS_RemoveElement, FS_CardinalityType, FS_Subset
    <3>5. PICK most \in Int : most = c * n /\ c * (n + 1) = most + c
      BY <3>4, OneTimeMore
    <3>6. SumFunctionOnSet(f, U) <= most
      BY <3>2, <3>4, <3>5
    <3>7. SumFunctionOnSet(f, T) <= c * Cardinality(T)
      BY <3>1, <3>2, <3>3, <3>4, <3>5, <3>6
    <3> QED BY <3>7
  <2> QED BY <2>2, <2>3
<1> HIDE DEF Good
<1>2. S \in Good
  BY <1>1, SubsetInduction
<1> QED BY <1>2 DEF Good
=============================================================================
