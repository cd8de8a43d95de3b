-------------------------------- MODULE Sums --------------------------------
(***************************************************************************)
(* Facts about the sum of a function over a finite set, as MapThenSumSet   *)
(* of the community modules computes it: by taking elements out of the set *)
(* one after the other.  The induction theorems of the library cannot be   *)
(* used; each induction here is the choice of a minimal set among those    *)
(* for which a statement fails (MinimalSet).  The last section is about    *)
(* folds over the places of a sequence, in ascending order.                *)
(***************************************************************************)
EXTENDS Counters, FiniteSetTheorems, WellFoundedInduction, TLAPS

SumOf(f, S) == MapThenSumSet(LAMBDA x : f[x], S)

\* The element that is taken out of s next.
Chosen(s) == CHOOSE x \in s : TRUE

\* g has the sum of f over each subset of S.
Tabulates(g, f, S) ==
  g = [s \in SUBSET S |->
         IF s = {} THEN 0 ELSE f[Chosen(s)] + g[s \ {Chosen(s)}]]

\* A nonempty set of subsets of a finite set has a minimal element.
LEMMA MinimalSet ==
  ASSUME NEW S, IsFiniteSet(S), NEW T \in SUBSET SUBSET S, T # {}
  PROVE  \E x \in T : \A y \in T : y \subseteq x => y = x
<1>1. IsWellFoundedOn(StrictSubsetOrdering(S), SUBSET S)
  BY FS_StrictSubsetOrderingWellFounded, FS_FiniteSubsetsOfFinite
<1>2. \E x \in T : \A y \in T : ~(<<y, x>> \in StrictSubsetOrdering(S))
  BY <1>1, WFMin
<1>3. QED
  BY <1>2 DEF StrictSubsetOrdering

LEMMA ChosenIn == ASSUME NEW s, s # {} PROVE Chosen(s) \in s
BY DEF Chosen

LEMMA TabulatesAt ==
  ASSUME NEW f, NEW S, NEW g, Tabulates(g, f, S), NEW s \in SUBSET S
  PROVE  g[s] = IF s = {} THEN 0 ELSE f[Chosen(s)] + g[s \ {Chosen(s)}]
BY DEF Tabulates

\* Two tables of the same sums are equal.
LEMMA TableUnique ==
  ASSUME NEW f, NEW S, IsFiniteSet(S), NEW g, NEW h,
         Tabulates(g, f, S), Tabulates(h, f, S)
  PROVE  g = h
<1> DEFINE bad == { s \in SUBSET S : g[s] # h[s] }
<1>1. bad = {}
  <2> SUFFICES ASSUME bad # {} PROVE FALSE
    OBVIOUS
  <2>1. PICK s \in bad : \A t \in bad : t \subseteq s => t = s
    <3>1. bad \in SUBSET SUBSET S
      OBVIOUS
    <3> HIDE DEF bad
    <3>2. QED
      BY <3>1, MinimalSet
  <2>2. s # {}
    <3>1. s \in SUBSET S /\ g[s] # h[s]
      BY <2>1
    <3>2. QED
      BY <3>1, TabulatesAt
  <2>3. s \ {Chosen(s)} \notin bad
    BY <2>1, <2>2, ChosenIn
  <2>4. g[s \ {Chosen(s)}] = h[s \ {Chosen(s)}]
    BY <2>1, <2>3
  <2>5. g[s] = h[s]
    BY <2>1, <2>2, <2>4, TabulatesAt
  <2>6. QED
    BY <2>1, <2>5
<1>2. /\ g = [s \in SUBSET S |-> g[s]]
      /\ h = [s \in SUBSET S |-> h[s]]
  BY DEF Tabulates
<1>3. QED
  BY <1>1, <1>2

\* A table for S has in it one for each subset of S.
LEMMA TableRestricted ==
  ASSUME NEW f, NEW S, NEW g, Tabulates(g, f, S), NEW T \in SUBSET S
  PROVE  Tabulates([s \in SUBSET T |-> g[s]], f, T)
<1> DEFINE h == [s \in SUBSET T |-> g[s]]
<1>1. ASSUME NEW s \in SUBSET T
      PROVE  h[s] = IF s = {} THEN 0 ELSE f[Chosen(s)] + h[s \ {Chosen(s)}]
  BY TabulatesAt
<1>2. QED
  BY <1>1 DEF Tabulates

\* There is a table for every finite set.
LEMMA TableExists ==
  ASSUME NEW f, NEW S, IsFiniteSet(S)
  PROVE  \E g : Tabulates(g, f, S)
<1> DEFINE Table(T) == CHOOSE g : Tabulates(g, f, T)
           bad      == { T \in SUBSET S : ~ \E g : Tabulates(g, f, T) }
<1> SUFFICES ASSUME bad # {} PROVE FALSE
  OBVIOUS
<1>1. PICK T \in bad : \A U \in bad : U \subseteq T => U = T
  <2>1. bad \in SUBSET SUBSET S
    OBVIOUS
  <2> HIDE DEF bad
  <2>2. QED
    BY <2>1, MinimalSet
<1>2. ASSUME NEW U \in SUBSET T, U # T PROVE Tabulates(Table(U), f, U)
  <2>1. U \notin bad
    BY <1>1, <1>2
  <2>2. QED
    BY <1>1, <2>1
<1> HIDE DEF Table
<1> DEFINE v(s) == Table(s)[s]
           w(s) == IF s = {} THEN 0 ELSE f[Chosen(s)] + v(s \ {Chosen(s)})
           h    == [s \in SUBSET T |-> w(s)]
<1>3. ASSUME NEW U \in SUBSET T, U # T PROVE v(U) = w(U)
  <2>1. CASE U = {}
    BY <1>2, <1>3, <2>1, TabulatesAt
  <2>2. CASE U # {}
    <3> DEFINE V == U \ {Chosen(U)}
    <3>1. V \in SUBSET U /\ V # U
      BY <2>2, ChosenIn
    <3>2. v(U) = f[Chosen(U)] + Table(U)[V]
      BY <1>2, <1>3, <2>2, TabulatesAt
    <3>3. Table(U)[V] = Table(V)[V]
      <4>1. Tabulates([s \in SUBSET V |-> Table(U)[s]], f, V)
        BY <1>2, <1>3, <3>1, TableRestricted
      <4>2. Tabulates(Table(V), f, V)
        BY <1>2, <1>3, <3>1
      <4>3. IsFiniteSet(V)
        BY <1>1, <1>3, <3>1, FS_Subset
      <4>4. [s \in SUBSET V |-> Table(U)[s]] = Table(V)
        BY <4>1, <4>2, <4>3, TableUnique
      <4>5. V \in SUBSET V
        OBVIOUS
      <4> HIDE DEF V
      <4>6. QED
        BY <4>4, <4>5
    <3>4. QED
      BY <2>2, <3>2, <3>3
  <2>3. QED
    BY <2>1, <2>2
<1> HIDE DEF v
<1>4. ASSUME NEW s \in SUBSET T
      PROVE  h[s] = IF s = {} THEN 0 ELSE f[Chosen(s)] + h[s \ {Chosen(s)}]
  <2>1. CASE s = {}
    BY <2>1
  <2>2. CASE s # {}
    <3> DEFINE t == s \ {Chosen(s)}
    <3>1. t \in SUBSET T /\ t # T
      BY <2>2, ChosenIn
    <3>2. h[t] = v(t)
      BY <1>3, <3>1
    <3>3. h[s] = f[Chosen(s)] + v(t)
      BY <2>2
    <3>4. QED
      BY <2>2, <3>2, <3>3
  <2>3. QED
    BY <2>1, <2>2
<1>5. Tabulates(h, f, T)
  BY <1>4 DEF Tabulates
<1>6. QED
  BY <1>1, <1>5

-----------------------------------------------------------------------------
\* The sum itself.

LEMMA SumTabulated ==
  ASSUME NEW f, NEW S, IsFiniteSet(S), NEW g, Tabulates(g, f, S)
  PROVE  SumOf(f, S) = g[S]
<1>1. SumOf(f, S) = (CHOOSE h : Tabulates(h, f, S))[S]
  BY DEF SumOf, MapThenSumSet, MapThenFoldSet, Tabulates, Chosen
<1>2. Tabulates((CHOOSE h : Tabulates(h, f, S)), f, S)
  OBVIOUS
<1>3. (CHOOSE h : Tabulates(h, f, S)) = g
  BY <1>2, TableUnique
<1>4. QED
  BY <1>1, <1>3

LEMMA SumEmpty == ASSUME NEW f PROVE SumOf(f, {}) = 0
<1>1. IsFiniteSet({})
  BY FS_EmptySet
<1>2. PICK g : Tabulates(g, f, {})
  BY <1>1, TableExists
<1>3. SumOf(f, {}) = g[{}]
  BY <1>1, <1>2, SumTabulated
<1>4. g[{}] = 0
  BY <1>2, TabulatesAt
<1>5. QED
  BY <1>3, <1>4

LEMMA SumChosen ==
  ASSUME NEW f, NEW S, IsFiniteSet(S), S # {}
  PROVE  SumOf(f, S) = f[Chosen(S)] + SumOf(f, S \ {Chosen(S)})
<1> DEFINE T == S \ {Chosen(S)}
<1>1. PICK g : Tabulates(g, f, S)
  BY TableExists
<1>2. g[S] = f[Chosen(S)] + g[T]
  BY <1>1, TabulatesAt
<1>3. T \in SUBSET S /\ IsFiniteSet(T)
  BY FS_Subset
<1> HIDE DEF T
<1>4. Tabulates([s \in SUBSET T |-> g[s]], f, T)
  BY <1>1, <1>3, TableRestricted
<1>5. SumOf(f, T) = [s \in SUBSET T |-> g[s]][T]
  BY <1>3, <1>4, SumTabulated
<1>6. SumOf(f, T) = g[T]
  BY <1>5
<1>7. SumOf(f, S) = g[S]
  BY <1>1, SumTabulated
<1>8. QED
  BY <1>2, <1>6, <1>7 DEF T

\* The sum of integers is an integer, that of natural numbers a natural one.
LEMMA SumType ==
  ASSUME NEW f, NEW S, IsFiniteSet(S)
  PROVE  /\ (\A x \in S : f[x] \in Int) => SumOf(f, S) \in Int
         /\ (\A x \in S : f[x] \in Nat) => SumOf(f, S) \in Nat
<1> DEFINE Typed(T) == /\ (\A x \in T : f[x] \in Int) => SumOf(f, T) \in Int
                       /\ (\A x \in T : f[x] \in Nat) => SumOf(f, T) \in Nat
           bad == { T \in SUBSET S : ~Typed(T) }
<1> SUFFICES ASSUME bad # {} PROVE FALSE
  <2>1. S \notin bad => Typed(S)
    OBVIOUS
  <2>2. QED
    BY <2>1
<1>1. PICK T \in bad : \A U \in bad : U \subseteq T => U = T
  <2>1. bad \in SUBSET SUBSET S
    OBVIOUS
  <2> HIDE DEF bad
  <2>2. QED
    BY <2>1, MinimalSet
<1>2. T \in SUBSET S /\ ~Typed(T) /\ IsFiniteSet(T)
  BY <1>1, FS_Subset
<1>3. CASE T = {}
  BY <1>2, <1>3, SumEmpty
<1>4. CASE T # {}
  <2> DEFINE U == T \ {Chosen(T)}
  <2>1. Chosen(T) \in T
    BY <1>4, ChosenIn
  <2>2. Typed(U)
    BY <1>1, <1>2, <2>1
  <2>3. SumOf(f, T) = f[Chosen(T)] + SumOf(f, U)
    BY <1>2, <1>4, SumChosen
  <2>4. QED
    BY <1>2, <2>1, <2>2, <2>3
<1>5. QED
  BY <1>3, <1>4

\* It does not matter which element is taken out first.
LEMMA SumTake ==
  ASSUME NEW f, NEW S, IsFiniteSet(S), \A x \in S : f[x] \in Int,
         NEW e \in S
  PROVE  SumOf(f, S) = f[e] + SumOf(f, S \ {e})
<1> DEFINE Free(T) == \A x \in T : SumOf(f, T) = f[x] + SumOf(f, T \ {x})
           bad == { T \in SUBSET S : ~Free(T) }
<1> SUFFICES ASSUME bad # {} PROVE FALSE
  <2>1. S \notin bad => Free(S)
    OBVIOUS
  <2>2. QED
    BY <2>1
<1>1. PICK T \in bad : \A U \in bad : U \subseteq T => U = T
  <2>1. bad \in SUBSET SUBSET S
    OBVIOUS
  <2> HIDE DEF bad
  <2>2. QED
    BY <2>1, MinimalSet
<1>2. T \in SUBSET S /\ IsFiniteSet(T)
  BY <1>1, FS_Subset
<1>3. PICK x \in T : SumOf(f, T) # f[x] + SumOf(f, T \ {x})
  BY <1>1
<1> DEFINE c == Chosen(T)
           U == T \ {c}
           V == T \ {x}
           W == T \ {c, x}
<1>4. c \in T
  BY <1>3, ChosenIn
<1> HIDE DEF c
<1>5. SumOf(f, T) = f[c] + SumOf(f, U)
  BY <1>2, <1>4, SumChosen DEF c
<1>6. c # x
  BY <1>3, <1>5
<1>7. Free(U) /\ Free(V)
  <2>1. U \notin bad /\ V \notin bad
    BY <1>1, <1>4
  <2>2. QED
    BY <1>2, <2>1
<1>8. /\ SumOf(f, U) = f[x] + SumOf(f, U \ {x})
      /\ SumOf(f, V) = f[c] + SumOf(f, V \ {c})
  BY <1>4, <1>6, <1>7
<1>9. U \ {x} = W /\ V \ {c} = W
  OBVIOUS
<1>10. SumOf(f, W) \in Int /\ f[x] \in Int /\ f[c] \in Int
  <2>1. IsFiniteSet(W) /\ W \subseteq S
    BY <1>2, FS_Subset
  <2> HIDE DEF W
  <2>2. SumOf(f, W) \in Int
    BY <2>1, SumType
  <2>3. QED
    BY <1>2, <1>4, <2>2
<1>11. SumOf(f, T) = f[x] + SumOf(f, V)
  <2> HIDE DEF U, V, W
  <2>1. SumOf(f, T) = f[c] + (f[x] + SumOf(f, W))
    BY <1>5, <1>8, <1>9
  <2>2. SumOf(f, V) = f[c] + SumOf(f, W)
    BY <1>8, <1>9
  <2>3. QED
    BY <1>10, <2>1, <2>2
<1>12. QED
  BY <1>3, <1>11

\* The sum of two functions has the sum of their sums.
LEMMA SumAdd ==
  ASSUME NEW f, NEW g, NEW h, NEW S, IsFiniteSet(S),
         \A x \in S : f[x] \in Int /\ g[x] \in Int /\ h[x] = f[x] + g[x]
  PROVE  SumOf(h, S) = SumOf(f, S) + SumOf(g, S)
<1> DEFINE Adds(T) == SumOf(h, T) = SumOf(f, T) + SumOf(g, T)
           bad == { T \in SUBSET S : ~Adds(T) }
<1> SUFFICES ASSUME bad # {} PROVE FALSE
  <2>1. S \notin bad => Adds(S)
    OBVIOUS
  <2>2. QED
    BY <2>1
<1>1. PICK T \in bad : \A U \in bad : U \subseteq T => U = T
  <2>1. bad \in SUBSET SUBSET S
    OBVIOUS
  <2> HIDE DEF bad
  <2>2. QED
    BY <2>1, MinimalSet
<1>2. T \in SUBSET S /\ IsFiniteSet(T) /\ ~Adds(T)
  BY <1>1, FS_Subset
<1>3. T # {}
  <2>1. SumOf(f, {}) = 0 /\ SumOf(g, {}) = 0 /\ SumOf(h, {}) = 0
    BY SumEmpty
  <2>2. Adds({})
    BY <2>1
  <2> HIDE DEF Adds
  <2>3. QED
    BY <1>2, <2>2
<1> DEFINE c == Chosen(T)
           U == T \ {c}
<1>4. c \in T /\ f[c] \in Int /\ g[c] \in Int /\ h[c] = f[c] + g[c]
  BY <1>2, <1>3, ChosenIn
<1>5. Adds(U)
  BY <1>1, <1>2, <1>4
<1>6. /\ SumOf(f, T) = f[c] + SumOf(f, U)
      /\ SumOf(g, T) = g[c] + SumOf(g, U)
      /\ SumOf(h, T) = h[c] + SumOf(h, U)
  BY <1>2, <1>3, SumChosen
<1>7. SumOf(f, U) \in Int /\ SumOf(g, U) \in Int
  <2>1. IsFiniteSet(U) /\ U \subseteq S
    BY <1>2, FS_Subset
  <2> HIDE DEF U
  <2>2. QED
    BY <2>1, SumType
<1> HIDE DEF c, U
<1>8. QED
  BY <1>2, <1>4, <1>5, <1>6, <1>7

LEMMA SumZero ==
  ASSUME NEW f, NEW S, IsFiniteSet(S), \A x \in S : f[x] = 0
  PROVE  SumOf(f, S) = 0
<1>1. SumOf(f, S) = SumOf(f, S) + SumOf(f, S)
  <2>1. \A x \in S : f[x] \in Int /\ f[x] \in Int /\ f[x] = f[x] + f[x]
    OBVIOUS
  <2>2. QED
    BY <2>1, SumAdd
<1>2. SumOf(f, S) \in Int
  <2>1. \A x \in S : f[x] \in Int
    OBVIOUS
  <2>2. QED
    BY <2>1, SumType
<1>3. QED
  BY <1>1, <1>2, SMTT(30)

\* Only the values on the set count.
LEMMA SumCongruence ==
  ASSUME NEW f, NEW g, NEW S, IsFiniteSet(S),
         \A x \in S : f[x] \in Int /\ g[x] = f[x]
  PROVE  SumOf(g, S) = SumOf(f, S)
<1> DEFINE z == [x \in S |-> 0]
<1>1. SumOf(z, S) = 0
  BY SumZero
<1>2. \A x \in S : f[x] \in Int /\ z[x] \in Int /\ g[x] = f[x] + z[x]
  OBVIOUS
<1>3. SumOf(g, S) = SumOf(f, S) + SumOf(z, S)
  <2> HIDE DEF z
  <2>1. QED
    BY <1>2, SumAdd
<1>4. SumOf(f, S) \in Int
  BY SumType
<1>5. QED
  BY <1>1, <1>3, <1>4

\* A function that is nowhere smaller has no smaller sum.
LEMMA SumMonotone ==
  ASSUME NEW f, NEW g, NEW S, IsFiniteSet(S),
         \A x \in S : f[x] \in Int /\ g[x] \in Int /\ f[x] <= g[x]
  PROVE  SumOf(f, S) <= SumOf(g, S)
<1> DEFINE d == [x \in S |-> g[x] - f[x]]
<1>1. \A x \in S : d[x] \in Nat /\ g[x] = f[x] + d[x]
  OBVIOUS
<1> HIDE DEF d
<1>2. SumOf(g, S) = SumOf(f, S) + SumOf(d, S)
  BY <1>1, SumAdd
<1>3. SumOf(f, S) \in Int /\ SumOf(d, S) \in Nat
  BY <1>1, SumType
<1>4. QED
  BY <1>2, <1>3

\* A function that changes at one point changes its sum by as much.
LEMMA SumChange ==
  ASSUME NEW f, NEW g, NEW S, IsFiniteSet(S), NEW e \in S,
         \A x \in S : f[x] \in Int /\ g[x] \in Int,
         \A x \in S \ {e} : g[x] = f[x]
  PROVE  SumOf(g, S) = SumOf(f, S) - f[e] + g[e]
<1> DEFINE T == S \ {e}
<1>1. IsFiniteSet(T)
  BY FS_Subset
<1>2. \A x \in T : f[x] \in Int /\ g[x] = f[x]
  OBVIOUS
<1>3. /\ SumOf(f, S) = f[e] + SumOf(f, T)
      /\ SumOf(g, S) = g[e] + SumOf(g, T)
  BY SumTake
<1> HIDE DEF T
<1>4. SumOf(g, T) = SumOf(f, T) /\ SumOf(f, T) \in Int
  BY <1>1, <1>2, SumCongruence, SumType
<1>5. QED
  BY <1>3, <1>4

LEMMA SumOneMore ==
  ASSUME NEW S, IsFiniteSet(S), NEW f \in [S -> Nat], NEW e \in S
  PROVE  SumOf([f EXCEPT ![e] = @ + 1], S) = SumOf(f, S) + 1
<1> DEFINE g == [f EXCEPT ![e] = @ + 1]
<1>1. /\ \A x \in S : f[x] \in Int /\ g[x] \in Int
      /\ \A x \in S \ {e} : g[x] = f[x]
      /\ g[e] = f[e] + 1
  OBVIOUS
<1>2. f[e] \in Int /\ SumOf(f, S) \in Int
  BY <1>1, SumType
<1> HIDE DEF g
<1>3. SumOf(g, S) = SumOf(f, S) - f[e] + g[e]
  BY <1>1, SumChange
<1>4. SumOf(g, S) = SumOf(f, S) + 1
  BY <1>1, <1>2, <1>3
<1>5. QED
  BY <1>4 DEF g

\* A sum of multiples is the multiple of the sum.
LEMMA SumScale ==
  ASSUME NEW f, NEW g, NEW S, IsFiniteSet(S), NEW c \in Int,
         \A x \in S : f[x] \in Int /\ g[x] = c * f[x]
  PROVE  SumOf(g, S) = c * SumOf(f, S)
<1> DEFINE Scales(T) == SumOf(g, T) = c * SumOf(f, T)
           bad == { T \in SUBSET S : ~Scales(T) }
<1> SUFFICES ASSUME bad # {} PROVE FALSE
  <2>1. S \notin bad => Scales(S)
    OBVIOUS
  <2>2. QED
    BY <2>1
<1>1. PICK T \in bad : \A U \in bad : U \subseteq T => U = T
  <2>1. bad \in SUBSET SUBSET S
    OBVIOUS
  <2> HIDE DEF bad
  <2>2. QED
    BY <2>1, MinimalSet
<1>2. T \in SUBSET S /\ IsFiniteSet(T) /\ ~Scales(T)
  BY <1>1, FS_Subset
<1>3. T # {}
  <2>1. SumOf(f, {}) = 0 /\ SumOf(g, {}) = 0
    BY SumEmpty
  <2>2. Scales({})
    BY <2>1
  <2> HIDE DEF Scales
  <2>3. QED
    BY <1>2, <2>2
<1> DEFINE x == Chosen(T)
           U == T \ {x}
<1>4. x \in T /\ f[x] \in Int /\ g[x] = c * f[x]
  BY <1>2, <1>3, ChosenIn
<1>5. Scales(U)
  BY <1>1, <1>2, <1>4
<1>6. /\ SumOf(f, T) = f[x] + SumOf(f, U)
      /\ SumOf(g, T) = g[x] + SumOf(g, U)
  BY <1>2, <1>3, SumChosen
<1>7. SumOf(f, U) \in Int
  <2>1. IsFiniteSet(U) /\ U \subseteq S
    BY <1>2, FS_Subset
  <2> HIDE DEF U
  <2>2. QED
    BY <2>1, SumType
<1> HIDE DEF x, U
<1>8. c * (f[x] + SumOf(f, U)) = c * f[x] + c * SumOf(f, U)
  BY <1>4, <1>7
<1>9. QED
  BY <1>2, <1>4, <1>5, <1>6, <1>8

\* The sum over two disjoint sets.
LEMMA SumUnion ==
  ASSUME NEW f, NEW S, IsFiniteSet(S), NEW T, IsFiniteSet(T), S \cap T = {},
         \A x \in S \cup T : f[x] \in Int
  PROVE  SumOf(f, S \cup T) = SumOf(f, S) + SumOf(f, T)
<1> DEFINE Joins(U) == SumOf(f, S \cup U) = SumOf(f, S) + SumOf(f, U)
           bad == { U \in SUBSET T : ~Joins(U) }
<1> SUFFICES ASSUME bad # {} PROVE FALSE
  <2>1. T \notin bad => Joins(T)
    OBVIOUS
  <2>2. QED
    BY <2>1
<1>1. PICK U \in bad : \A V \in bad : V \subseteq U => V = U
  <2>1. bad \in SUBSET SUBSET T
    OBVIOUS
  <2> HIDE DEF bad
  <2>2. QED
    BY <2>1, MinimalSet
<1>2. U \in SUBSET T /\ IsFiniteSet(U) /\ ~Joins(U)
  BY <1>1, FS_Subset
<1>3. SumOf(f, S) \in Int
  BY SumType
<1>4. U # {}
  <2>1. SumOf(f, {}) = 0 /\ S \cup {} = S
    BY SumEmpty
  <2>2. Joins({})
    BY <1>3, <2>1
  <2> HIDE DEF Joins
  <2>3. QED
    BY <1>2, <2>2
<1>5. PICK x \in U : TRUE
  BY <1>4
<1> DEFINE V == U \ {x}
<1>6. Joins(V)
  BY <1>1, <1>2, <1>5
<1>7. IsFiniteSet(S \cup U) /\ IsFiniteSet(V)
  BY <1>2, FS_Union, FS_Subset
<1>8. (S \cup U) \ {x} = S \cup V
  BY <1>2
<1>9. /\ SumOf(f, U) = f[x] + SumOf(f, V)
      /\ SumOf(f, S \cup U) = f[x] + SumOf(f, S \cup V)
  <2>1. \A y \in S \cup U : f[y] \in Int
    BY <1>2
  <2>2. SumOf(f, U) = f[x] + SumOf(f, V)
    BY <1>2, <2>1, SumTake
  <2>3. SumOf(f, S \cup U) = f[x] + SumOf(f, (S \cup U) \ {x})
    BY <1>7, <2>1, SumTake
  <2>4. QED
    BY <1>8, <2>2, <2>3
<1>10. SumOf(f, V) \in Int /\ f[x] \in Int
  <2>1. \A y \in V : f[y] \in Int
    BY <1>2
  <2> HIDE DEF V
  <2>2. QED
    BY <1>2, <1>7, <2>1, SumType
<1> HIDE DEF V
<1>11. QED
  BY <1>2, <1>3, <1>6, <1>9, <1>10

\* The sum over a part of the set.
LEMMA SumPart ==
  ASSUME NEW f, NEW S, IsFiniteSet(S), NEW T \in SUBSET S,
         \A x \in S : f[x] \in Nat
  PROVE  /\ SumOf(f, T) \in Nat /\ SumOf(f, S) \in Nat
         /\ SumOf(f, T) <= SumOf(f, S)
         /\ (\A x \in S \ T : f[x] = 0) => SumOf(f, T) = SumOf(f, S)
         /\ \A x \in T : f[x] <= SumOf(f, T)
<1>1. IsFiniteSet(T) /\ IsFiniteSet(S \ T) /\ S = T \cup (S \ T)
  BY FS_Subset
<1>2. /\ SumOf(f, T) \in Nat
      /\ SumOf(f, S \ T) \in Nat
      /\ SumOf(f, S) \in Nat
  BY <1>1, SumType
<1>3. SumOf(f, S) = SumOf(f, T) + SumOf(f, S \ T)
  <2>1. SumOf(f, T \cup (S \ T)) = SumOf(f, T) + SumOf(f, S \ T)
    BY <1>1, SumUnion
  <2>2. QED
    BY <1>1, <2>1
<1>4. (\A x \in S \ T : f[x] = 0) => SumOf(f, S \ T) = 0
  BY <1>1, SumZero
<1>5. ASSUME NEW x \in T PROVE f[x] <= SumOf(f, T)
  <2>1. SumOf(f, T) = f[x] + SumOf(f, T \ {x})
    BY <1>1, SumTake
  <2>2. IsFiniteSet(T \ {x})
    BY <1>1, FS_Subset
  <2>3. SumOf(f, T \ {x}) \in Nat
    BY <2>2, SumType
  <2>4. QED
    BY <2>1, <2>3
<1>6. QED
  BY <1>2, <1>3, <1>4, <1>5

\* The sum of a constant.
LEMMA SumConstant ==
  ASSUME NEW f, NEW S, IsFiniteSet(S), NEW c \in Int, \A x \in S : f[x] = c
  PROVE  SumOf(f, S) = c * Cardinality(S)
<1> DEFINE Same(T) == SumOf(f, T) = c * Cardinality(T)
           bad == { T \in SUBSET S : ~Same(T) }
<1> SUFFICES ASSUME bad # {} PROVE FALSE
  <2>1. S \notin bad => Same(S)
    OBVIOUS
  <2>2. QED
    BY <2>1
<1>1. PICK T \in bad : \A U \in bad : U \subseteq T => U = T
  <2>1. bad \in SUBSET SUBSET S
    OBVIOUS
  <2> HIDE DEF bad
  <2>2. QED
    BY <2>1, MinimalSet
<1>2. T \in SUBSET S /\ IsFiniteSet(T) /\ ~Same(T)
  BY <1>1, FS_Subset
<1>3. T # {}
  <2>1. SumOf(f, {}) = 0 /\ Cardinality({}) = 0
    BY SumEmpty, FS_EmptySet
  <2>2. Same({})
    BY <2>1
  <2> HIDE DEF Same
  <2>3. QED
    BY <1>2, <2>2
<1> DEFINE x == Chosen(T)
           U == T \ {x}
<1>4. x \in T /\ f[x] = c
  BY <1>2, <1>3, ChosenIn
<1>5. Same(U)
  BY <1>1, <1>2, <1>4
<1>6. SumOf(f, T) = f[x] + SumOf(f, U)
  BY <1>2, <1>3, SumChosen
<1>7. Cardinality(U) = Cardinality(T) - 1 /\ Cardinality(T) \in Nat
  BY <1>2, <1>4, FS_RemoveElement, FS_CardinalityType
<1> HIDE DEF x, U
<1>8. c * (Cardinality(T) - 1) = c * Cardinality(T) - c
  BY <1>7
<1>9. QED
  BY <1>2, <1>4, <1>5, <1>6, <1>7, <1>8

-----------------------------------------------------------------------------
\* Folds over the places of a sequence: FoldLeft takes the last place out first.

\* Of the subsets that a function gives for each element, one is minimal.
LEMMA SmallestPart ==
  ASSUME NEW s, IsFiniteSet(s), s # {}, NEW Part \in [s -> SUBSET s]
  PROVE  \E x \in s : \A y \in s : Part[y] \subseteq Part[x] => Part[y] = Part[x]
<1> DEFINE parts == { Part[x] : x \in s }
<1>1. parts \in SUBSET SUBSET s /\ parts # {}
  OBVIOUS
<1>2. \E t \in parts : \A u \in parts : u \subseteq t => u = t
  <2> HIDE DEF parts
  <2>1. QED
    BY <1>1, MinimalSet
<1>3. QED
  BY <1>2

From(s) == [x \in s |-> { z \in s : x <= z }]
UpTo(s) == [x \in s |-> { z \in s : z <= x }]

LEMMA SmallestEnds ==
  ASSUME NEW s, IsFiniteSet(s), s # {}
  PROVE  /\ \E x \in s : \A y \in s :
              From(s)[y] \subseteq From(s)[x] => From(s)[y] = From(s)[x]
         /\ \E x \in s : \A y \in s :
              UpTo(s)[y] \subseteq UpTo(s)[x] => UpTo(s)[y] = UpTo(s)[x]
<1>1. From(s) \in [s -> SUBSET s] /\ UpTo(s) \in [s -> SUBSET s]
  BY DEF From, UpTo
<1>2. QED
  BY <1>1, SmallestPart

LEMMA Largest ==
  ASSUME NEW s, s \subseteq Int, IsFiniteSet(s), s # {}
  PROVE  Max(s) \in s /\ \A y \in s : y <= Max(s)
<1>1. PICK x \in s : \A y \in s :
        From(s)[y] \subseteq From(s)[x] => From(s)[y] = From(s)[x]
  BY SmallestEnds
<1>2. ASSUME NEW y \in s PROVE y <= x
  <2> SUFFICES ASSUME x < y PROVE FALSE
    OBVIOUS
  <2>1. x \in Int /\ y \in Int /\ \A z \in s : z \in Int
    OBVIOUS
  <2>2. x \in From(s)[x] /\ x \notin From(s)[y]
    BY <2>1 DEF From
  <2>3. ASSUME NEW z \in From(s)[y] PROVE z \in From(s)[x]
    BY <2>1 DEF From
  <2>4. QED
    BY <1>1, <2>2, <2>3
<1>3. \E z \in s : \A y \in s : z >= y
  BY <1>2
<1>4. Max(s) \in s /\ \A y \in s : Max(s) >= y
  BY <1>3 DEF Max
<1>5. QED
  BY <1>4

\* g has, for each subset of S, what is made of start by a step for each place.
Folds(g, start, step, S) ==
  g = [s \in SUBSET S |->
         IF s = {} THEN start ELSE step[<< g[s \ {Max(s)}], Max(s) >>]]

LEMMA FoldsAt ==
  ASSUME NEW start, NEW step, NEW S, NEW g, Folds(g, start, step, S), NEW s \in SUBSET S
  PROVE  g[s] = IF s = {} THEN start ELSE step[<< g[s \ {Max(s)}], Max(s) >>]
BY DEF Folds

LEMMA FoldUnique ==
  ASSUME NEW start, NEW step, NEW S, IsFiniteSet(S),
         \A s \in SUBSET S : s # {} => Max(s) \in s,
         NEW g, NEW h, Folds(g, start, step, S), Folds(h, start, step, S)
  PROVE  g = h
<1> DEFINE bad == { s \in SUBSET S : g[s] # h[s] }
<1>1. bad = {}
  <2> SUFFICES ASSUME bad # {} PROVE FALSE
    OBVIOUS
  <2>1. PICK s \in bad : \A t \in bad : t \subseteq s => t = s
    <3>1. bad \in SUBSET SUBSET S
      OBVIOUS
    <3> HIDE DEF bad
    <3>2. QED
      BY <3>1, MinimalSet
  <2>2. /\ s \in SUBSET S /\ g[s] # h[s]
        /\ g[s] = IF s = {} THEN start ELSE step[<< g[s \ {Max(s)}], Max(s) >>]
        /\ h[s] = IF s = {} THEN start ELSE step[<< h[s \ {Max(s)}], Max(s) >>]
    <3>1. s \in SUBSET S /\ g[s] # h[s]
      BY <2>1
    <3>2. g[s] = IF s = {} THEN start ELSE step[<< g[s \ {Max(s)}], Max(s) >>]
      BY <3>1, FoldsAt
    <3>3. h[s] = IF s = {} THEN start ELSE step[<< h[s \ {Max(s)}], Max(s) >>]
      BY <3>1, FoldsAt
    <3>4. QED
      BY <3>1, <3>2, <3>3
  <2>3. s # {}
    BY <2>2
  <2>4. s \ {Max(s)} \notin bad
    BY <2>1, <2>2, <2>3
  <2>5. g[s \ {Max(s)}] = h[s \ {Max(s)}]
    BY <2>2, <2>4
  <2>6. QED
    BY <2>2, <2>3, <2>5
<1>2. /\ g = [s \in SUBSET S |-> g[s]]
      /\ h = [s \in SUBSET S |-> h[s]]
  BY DEF Folds
<1>3. QED
  BY <1>1, <1>2

LEMMA FoldRestricted ==
  ASSUME NEW start, NEW step, NEW S, NEW g, Folds(g, start, step, S), NEW T \in SUBSET S
  PROVE  Folds([s \in SUBSET T |-> g[s]], start, step, T)
<1> DEFINE h == [s \in SUBSET T |-> g[s]]
<1>1. ASSUME NEW s \in SUBSET T
      PROVE  h[s] = IF s = {} THEN start ELSE step[<< h[s \ {Max(s)}], Max(s) >>]
  <2>1. s \ {Max(s)} \in SUBSET T /\ s \in SUBSET S
    OBVIOUS
  <2>2. h[s] = g[s] /\ h[s \ {Max(s)}] = g[s \ {Max(s)}]
    BY <2>1
  <2> HIDE DEF h
  <2>3. QED
    BY <2>1, <2>2, FoldsAt
<1>2. QED
  BY <1>1 DEF Folds

LEMMA FoldExists ==
  ASSUME NEW start, NEW step, NEW S, IsFiniteSet(S),
         \A s \in SUBSET S : s # {} => Max(s) \in s
  PROVE  \E g : Folds(g, start, step, S)
<1> DEFINE Table(T) == CHOOSE g : Folds(g, start, step, T)
           bad      == { T \in SUBSET S : ~ \E g : Folds(g, start, step, T) }
<1> SUFFICES ASSUME bad # {} PROVE FALSE
  OBVIOUS
<1>1. PICK T \in bad : \A U \in bad : U \subseteq T => U = T
  <2>1. bad \in SUBSET SUBSET S
    OBVIOUS
  <2> HIDE DEF bad
  <2>2. QED
    BY <2>1, MinimalSet
<1>2. ASSUME NEW U \in SUBSET T, U # T PROVE Folds(Table(U), start, step, U)
  <2>1. U \notin bad
    BY <1>1, <1>2
  <2>2. QED
    BY <1>1, <2>1
<1> HIDE DEF Table
<1> DEFINE v(s) == Table(s)[s]
           w(s) == IF s = {} THEN start ELSE step[<< v(s \ {Max(s)}), Max(s) >>]
           h    == [s \in SUBSET T |-> w(s)]
<1>3. ASSUME NEW U \in SUBSET T, U # T PROVE v(U) = w(U)
  <2>1. CASE U = {}
    <3>1. Folds(Table(U), start, step, U) /\ U \in SUBSET U
      BY <1>2, <1>3
    <3>2. Table(U)[U] = IF U = {} THEN start
                        ELSE step[<< Table(U)[U \ {Max(U)}], Max(U) >>]
      BY <3>1, FoldsAt
    <3>3. QED
      BY <2>1, <3>2
  <2>2. CASE U # {}
    <3> DEFINE V == U \ {Max(U)}
    <3>1. V \in SUBSET U /\ V # U
      BY <1>1, <2>2
    <3>2. v(U) = step[<< Table(U)[V], Max(U) >>]
      BY <1>2, <1>3, <2>2, FoldsAt
    <3>3. Table(U)[V] = Table(V)[V]
      <4>1. Folds([s \in SUBSET V |-> Table(U)[s]], start, step, V)
        BY <1>2, <1>3, <3>1, FoldRestricted
      <4>2. Folds(Table(V), start, step, V)
        BY <1>2, <1>3, <3>1
      <4>3. IsFiniteSet(V) /\ V \in SUBSET S
        BY <1>1, <1>3, <3>1, FS_Subset
      <4>4. \A s \in SUBSET V : s # {} => Max(s) \in s
        BY <4>3
      <4>5. [s \in SUBSET V |-> Table(U)[s]] = Table(V)
        BY <4>1, <4>2, <4>3, <4>4, FoldUnique
      <4>6. V \in SUBSET V
        OBVIOUS
      <4> HIDE DEF V
      <4>7. QED
        BY <4>5, <4>6
    <3>4. QED
      BY <2>2, <3>2, <3>3
  <2>3. QED
    BY <2>1, <2>2
<1> HIDE DEF v
<1>4. ASSUME NEW s \in SUBSET T
      PROVE  h[s] = IF s = {} THEN start ELSE step[<< h[s \ {Max(s)}], Max(s) >>]
  <2>1. CASE s = {}
    BY <2>1
  <2>2. CASE s # {}
    <3> DEFINE t == s \ {Max(s)}
    <3>1. t \in SUBSET T /\ t # T
      BY <1>1, <2>2
    <3>2. h[t] = v(t)
      BY <1>3, <3>1
    <3>3. h[s] = step[<< v(t), Max(s) >>]
      BY <2>2
    <3>4. QED
      BY <2>2, <3>2, <3>3
  <2>3. QED
    BY <2>1, <2>2
<1>5. Folds(h, start, step, T)
  BY <1>4 DEF Folds
<1>6. QED
  BY <1>1, <1>5

-----------------------------------------------------------------------------
\* Total of Counters, for functions from a finite set.

LEMMA TotalIsSum ==
  ASSUME NEW S, NEW f, DOMAIN f = S
  PROVE  Total(f) = SumOf(f, S)
BY DEF Total, SumOf

LEMMA TotalType ==
  ASSUME NEW S, IsFiniteSet(S)
  PROVE  /\ \A f \in [S -> Int] : Total(f) \in Int
         /\ \A f \in [S -> Nat] : Total(f) \in Nat
<1>1. ASSUME NEW f \in [S -> Int] PROVE Total(f) \in Int
  BY TotalIsSum, SumType
<1>2. ASSUME NEW f \in [S -> Nat] PROVE Total(f) \in Nat
  BY TotalIsSum, SumType
<1>3. QED
  BY <1>1, <1>2

LEMMA TotalZero ==
  ASSUME NEW S, IsFiniteSet(S), NEW f \in [S -> Int], \A x \in S : f[x] = 0
  PROVE  Total(f) = 0
BY TotalIsSum, SumZero

LEMMA TotalAdd ==
  ASSUME NEW S, IsFiniteSet(S), NEW f \in [S -> Int], NEW g \in [S -> Int],
         NEW h \in [S -> Int], \A x \in S : h[x] = f[x] + g[x]
  PROVE  Total(h) = Total(f) + Total(g)
<1>1. SumOf(h, S) = SumOf(f, S) + SumOf(g, S)
  BY SumAdd
<1>2. QED
  BY <1>1, TotalIsSum

LEMMA TotalMonotone ==
  ASSUME NEW S, IsFiniteSet(S), NEW f \in [S -> Int], NEW g \in [S -> Int],
         \A x \in S : f[x] <= g[x]
  PROVE  Total(f) <= Total(g)
<1>1. SumOf(f, S) <= SumOf(g, S)
  BY SumMonotone
<1>2. QED
  BY <1>1, TotalIsSum

LEMMA TotalChange ==
  ASSUME NEW S, IsFiniteSet(S), NEW f \in [S -> Int], NEW g \in [S -> Int],
         NEW e \in S, \A x \in S \ {e} : g[x] = f[x]
  PROVE  Total(g) = Total(f) - f[e] + g[e]
<1>1. SumOf(g, S) = SumOf(f, S) - f[e] + g[e]
  BY SumChange
<1>2. QED
  BY <1>1, TotalIsSum

-----------------------------------------------------------------------------
\* How many elements of a finite set are in a state of A, when one of them
\* goes from state f[e] to state g[e].
CountIn(f, S, A) == Cardinality({x \in S : f[x] \in A})

LEMMA CountMove ==
  ASSUME NEW S, IsFiniteSet(S), NEW A, NEW f, NEW g, NEW e \in S,
         \A x \in S \ {e} : g[x] = f[x]
  PROVE  /\ CountIn(f, S, A) \in Nat
         /\ CountIn(g, S, A) =
              CountIn(f, S, A) + OneIf(g[e] \in A) - OneIf(f[e] \in A)
<1> DEFINE F == {x \in S : f[x] \in A}
           G == {x \in S : g[x] \in A}
<1>1. IsFiniteSet(F) /\ Cardinality(F) \in Nat
  BY FS_Subset, FS_CardinalityType
<1>2. e \in F <=> f[e] \in A
  OBVIOUS
<1>3. G = IF g[e] \in A THEN F \cup {e} ELSE F \ {e}
  OBVIOUS
<1> HIDE DEF F, G
<1>4. Cardinality(F \cup {e}) = IF e \in F THEN Cardinality(F) ELSE Cardinality(F) + 1
  BY <1>1, FS_AddElement
<1>5. Cardinality(F \ {e}) = IF e \in F THEN Cardinality(F) - 1 ELSE Cardinality(F)
  BY <1>1, FS_RemoveElement
<1>6. Cardinality(G) = Cardinality(F) + OneIf(g[e] \in A) - OneIf(f[e] \in A)
  BY <1>1, <1>2, <1>3, <1>4, <1>5 DEF OneIf
<1>7. QED
  BY <1>1, <1>6 DEF CountIn, F, G
=============================================================================
