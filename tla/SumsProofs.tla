----------------------------- MODULE SumsProofs -----------------------------
(***************************************************************************)
(* Facts about the sums of the models (SumFunction of the community        *)
(* module), whatever they add up, about functions that are defined number  *)
(* by number, and about rounded quotients.                                 *)
(*                                                                         *)
(* The induction is done by hand: were a fact false of some finite set, it *)
(* would be false of a smallest one (SmallestSubset, LeastNumber), and     *)
(* that one is led to a contradiction.                                     *)
(***************************************************************************)
EXTENDS Rounding, Functions, FiniteSetTheorems, WellFoundedInduction, TLAPS

\* Among some sets of a finite set there is a smallest one.
LEMMA SmallestSubset ==
  ASSUME NEW S, IsFiniteSet(S), NEW T \in SUBSET SUBSET S, T # {}
  PROVE  \E m \in T : \A t \in T : t \subseteq m => t = m
<1>1. IsWellFoundedOn(StrictSubsetOrdering(S), SUBSET S)
  BY FS_FiniteSubsetsOfFinite, FS_StrictSubsetOrderingWellFounded, Zenon
<1>2. \E x \in T : \A y \in T : ~ (<<y, x>> \in StrictSubsetOrdering(S))
  BY <1>1, WFMin, Zenon
<1> QED BY <1>2 DEF StrictSubsetOrdering

\* Among some numbers there is a least one.
LEMMA LeastNumber ==
  ASSUME NEW T \in SUBSET Nat, T # {}
  PROVE  \E m \in T : \A t \in T : m <= t
<1>1. \E m \in T : \A t \in T : ~ (<<t, m>> \in OpToRel(<, Nat))
  BY NatLessThanWellFounded, WFMin
<1>2. OpToRel(<, Nat) = {x \in Nat \X Nat : x[1] < x[2]}
  BY DEF OpToRel
<1>3. PICK m \in T : \A t \in T : ~ (<<t, m>> \in OpToRel(<, Nat))
  BY <1>1
<1>4. \A t \in T : ~ (t < m)
  BY <1>2, <1>3
<1> QED BY <1>4

-----------------------------------------------------------------------------
\* The running sums of f over the subsets of D, as the community module defines them.
First(s) == CHOOSE x \in s : TRUE

IsSum(h, f, D) ==
  h = [s \in SUBSET D |-> IF s = {} THEN 0 ELSE f[First(s)] + h[s \ {First(s)}]]

Summed(f, D) == CHOOSE h : IsSum(h, f, D)

SumOn(f, S) == SumFunctionOnSet(f, S)

LEMMA SumIs ==
  ASSUME NEW f, NEW D
  PROVE  SumFunctionOnSet(f, D) = Summed(f, D)[D]
BY DEF SumFunctionOnSet, FoldFunctionOnSet, MapThenFoldSet, IsSum, First, Summed

LEMMA FirstIsIn ==
  ASSUME NEW s, s # {}
  PROVE  First(s) \in s
BY DEF First

LEMMA SumAt ==
  ASSUME NEW f, NEW D, NEW h, IsSum(h, f, D), NEW s \in SUBSET D
  PROVE  h[s] = IF s = {} THEN 0 ELSE f[First(s)] + h[s \ {First(s)}]
BY DEF IsSum

\* There is one running sum at most: two agree wherever both are defined.
LEMMA SumUnique ==
  ASSUME NEW D, IsFiniteSet(D), NEW A \in SUBSET D, NEW B \in SUBSET D,
         NEW f, NEW g, \A x \in A \cap B : f[x] = g[x],
         NEW h, IsSum(h, f, A), NEW k, IsSum(k, g, B),
         NEW s \in SUBSET (A \cap B)
  PROVE  h[s] = k[s]
<1> DEFINE Bad == {t \in SUBSET (A \cap B) : h[t] # k[t]}
<1> SUFFICES ASSUME Bad # {} PROVE FALSE
  OBVIOUS
<1>1. Bad \in SUBSET SUBSET D
  OBVIOUS
<1>2. PICK m \in Bad : \A t \in Bad : t \subseteq m => t = m
  <2> HIDE DEF Bad
  <2> QED BY <1>1, SmallestSubset
<1>3. m \in SUBSET A /\ m \in SUBSET B /\ h[m] # k[m]
  OBVIOUS
<1>4. /\ h[m] = IF m = {} THEN 0 ELSE f[First(m)] + h[m \ {First(m)}]
      /\ k[m] = IF m = {} THEN 0 ELSE g[First(m)] + k[m \ {First(m)}]
  BY <1>3, SumAt
<1>5. m # {}
  BY <1>3, <1>4
<1>6. First(m) \in m
  BY <1>5, FirstIsIn
<1>7. m \ {First(m)} \notin Bad
  BY <1>2, <1>6
<1>8. h[m \ {First(m)}] = k[m \ {First(m)}]
  BY <1>7, <1>3
<1> QED BY <1>3, <1>4, <1>5, <1>6, <1>8

\* There is one, of whole numbers, over every finite set.
LEMMA SumExists ==
  ASSUME NEW D, IsFiniteSet(D), NEW f, \A x \in D : f[x] \in Int
  PROVE  \A A \in SUBSET D : IsSum(Summed(f, A), f, A) /\ Summed(f, A) \in [SUBSET A -> Int]
<1> DEFINE Bad == {A \in SUBSET D : ~ (\E h \in [SUBSET A -> Int] : IsSum(h, f, A))}
<1>1. ASSUME Bad # {} PROVE FALSE
  <2>1. Bad \in SUBSET SUBSET D
    OBVIOUS
  <2>2. PICK m \in Bad : \A t \in Bad : t \subseteq m => t = m
    <3> HIDE DEF Bad
    <3> QED BY <1>1, <2>1, SmallestSubset
  <2>3. m \in SUBSET D
    OBVIOUS
  <2> DEFINE H(t) == CHOOSE h : h \in [SUBSET t -> Int] /\ IsSum(h, f, t)
  <2>4. \A t \in SUBSET m : t # m => H(t) \in [SUBSET t -> Int] /\ IsSum(H(t), f, t)
    <3> SUFFICES ASSUME NEW t \in SUBSET m, t # m
                 PROVE  \E h : h \in [SUBSET t -> Int] /\ IsSum(h, f, t)
      OBVIOUS
    <3>1. t \notin Bad
      BY <2>2
    <3>2. t \in SUBSET D
      BY <2>3
    <3> QED BY <3>1, <3>2
  <2> DEFINE v(t) == IF t = {} THEN 0 ELSE f[First(t)] + H(t \ {First(t)})[t \ {First(t)}]
             g == [t \in SUBSET m |-> v(t)]
  <2>5. \A t \in SUBSET m : t # {} =>
          First(t) \in t /\ t \ {First(t)} \in SUBSET m /\ t \ {First(t)} # m
    BY FirstIsIn
  <2>6. \A t \in SUBSET m : t # m => g[t] = H(t)[t]
    <3> SUFFICES ASSUME NEW t \in SUBSET m, t # m PROVE v(t) = H(t)[t]
      OBVIOUS
    <3>1. IsSum(H(t), f, t)
      BY <2>4
    <3>2. CASE t = {}
      <4> HIDE DEF H
      <4>1. t \in SUBSET t
        OBVIOUS
      <4>2. H(t)[t] = 0
        BY <3>1, <3>2, <4>1, SumAt
      <4> QED BY <3>2, <4>2
    <3>3. CASE t # {}
      <4> DEFINE u == t \ {First(t)}
      <4>1. IsSum(H(u), f, u) /\ u \in SUBSET t /\ u \in SUBSET D /\ t \in SUBSET D
        BY <2>3, <2>4, <2>5, <3>3
      <4>2. H(t)[t] = f[First(t)] + H(t)[u]
        BY <3>1, <3>3, SumAt
      <4> HIDE DEF u, H
      <4>3. u \in SUBSET (t \cap u)
        BY <4>1
      <4>4. H(t)[u] = H(u)[u]
        BY <3>1, <4>1, <4>3, SumUnique
      <4> QED BY <4>2, <4>4, <3>3 DEF u
    <3> QED BY <3>2, <3>3
  <2>7. \A t \in SUBSET m : v(t) \in Int
    <3> SUFFICES ASSUME NEW t \in SUBSET m PROVE v(t) \in Int
      OBVIOUS
    <3>0. CASE t = {}
      BY <3>0
    <3> SUFFICES ASSUME t # {} PROVE v(t) \in Int
      BY <3>0
    <3>1. H(t \ {First(t)}) \in [SUBSET (t \ {First(t)}) -> Int]
      BY <2>4, <2>5
    <3>2. H(t \ {First(t)})[t \ {First(t)}] \in Int
      <4> HIDE DEF H
      <4> QED BY <3>1
    <3>3. f[First(t)] \in Int
      BY <2>3, <2>5
    <3> HIDE DEF H
    <3> QED BY <3>2, <3>3
  <2>8. g \in [SUBSET m -> Int]
    <3> HIDE DEF v
    <3> QED BY <2>7
  <2>9. \A t \in SUBSET m : v(t) = IF t = {} THEN 0 ELSE f[First(t)] + g[t \ {First(t)}]
    <3> HIDE DEF H, g
    <3> QED BY <2>5, <2>6
  <2>10. IsSum(g, f, m)
    <3> HIDE DEF v, Bad, H
    <3>1. g = [t \in SUBSET m |-> IF t = {} THEN 0 ELSE f[First(t)] + g[t \ {First(t)}]]
      BY <2>9
    <3> HIDE DEF g
    <3> QED BY <3>1 DEF IsSum
  <2> HIDE DEF g
  <2> QED BY <2>2, <2>8, <2>10
<1>2. SUFFICES ASSUME NEW A \in SUBSET D
               PROVE  IsSum(Summed(f, A), f, A) /\ Summed(f, A) \in [SUBSET A -> Int]
  OBVIOUS
<1>3. PICK h \in [SUBSET A -> Int] : IsSum(h, f, A)
  BY <1>1
<1>4. IsSum(Summed(f, A), f, A)
  BY <1>3 DEF Summed
<1>5. Summed(f, A) = h
  <2>1. \A s \in SUBSET A : Summed(f, A)[s] = h[s]
    BY <1>3, <1>4, SumUnique
  <2>2. Summed(f, A) = [s \in SUBSET A |-> Summed(f, A)[s]]
    BY <1>4 DEF IsSum
  <2> HIDE DEF Bad
  <2> QED BY <2>1, <2>2
<1> QED BY <1>3, <1>4, <1>5

LEMMA SumEmpty ==
  ASSUME NEW f
  PROVE  SumOn(f, {}) = 0
<1>1. IsFiniteSet({}) /\ \A x \in {} : f[x] \in Int
  BY FS_EmptySet
<1>2. \A A \in SUBSET {} : IsSum(Summed(f, A), f, A)
  <2> DEFINE E == {}
  <2>1. IsFiniteSet(E) /\ \A x \in E : f[x] \in Int
    BY <1>1
  <2> HIDE DEF E
  <2>2. \A A \in SUBSET E : IsSum(Summed(f, A), f, A)
    BY <2>1, SumExists
  <2> QED BY <2>2 DEF E
<1> QED BY <1>2, SumIs, SumAt DEF SumOn

LEMMA SumFirst ==
  ASSUME NEW S, IsFiniteSet(S), S # {}, NEW f, \A x \in S : f[x] \in Int
  PROVE  /\ First(S) \in S
         /\ SumOn(f, S) = f[First(S)] + SumOn(f, S \ {First(S)})
<1> DEFINE R == S \ {First(S)}
<1>1. First(S) \in S
  BY FirstIsIn
<1>2. S \in SUBSET S /\ R \in SUBSET S /\ R \in SUBSET (S \cap R)
  OBVIOUS
<1>3. IsSum(Summed(f, S), f, S) /\ IsSum(Summed(f, R), f, R)
  <2> HIDE DEF R
  <2> QED BY <1>2, SumExists
<1>4. Summed(f, S)[S] = f[First(S)] + Summed(f, S)[R]
  BY <1>3, <1>2, SumAt
<1>5. Summed(f, S)[R] = Summed(f, R)[R]
  <2> HIDE DEF R
  <2>1. \A x \in S \cap R : f[x] = f[x]
    OBVIOUS
  <2>2. \A s \in SUBSET (S \cap R) : Summed(f, S)[s] = Summed(f, R)[s]
    BY <1>2, <1>3, <2>1, SumUnique
  <2> QED BY <1>2, <2>2
<1> QED BY <1>1, <1>4, <1>5, SumIs DEF SumOn

\* The sum of whole numbers is one.
LEMMA SumIsInt ==
  ASSUME NEW S, IsFiniteSet(S), NEW f, \A x \in S : f[x] \in Int
  PROVE  SumOn(f, S) \in Int
<1>1. S \in SUBSET S
  OBVIOUS
<1>2. Summed(f, S) \in [SUBSET S -> Int]
  BY <1>1, SumExists
<1> QED BY <1>1, <1>2, SumIs DEF SumOn

\* A sum depends on nothing but what is added up.
LEMMA SumSame ==
  ASSUME NEW S, IsFiniteSet(S), NEW f, NEW g,
         \A x \in S : f[x] \in Int /\ g[x] = f[x]
  PROVE  SumOn(g, S) = SumOn(f, S)
<1>1. S \in SUBSET S /\ S \in SUBSET (S \cap S)
  OBVIOUS
<1>2. IsSum(Summed(f, S), f, S) /\ IsSum(Summed(g, S), g, S)
  BY <1>1, SumExists
<1>3. Summed(g, S)[S] = Summed(f, S)[S]
  BY <1>1, <1>2, SumUnique
<1> QED BY <1>3, SumIs DEF SumOn

\* The order does not matter: any element can be taken out.
LEMMA SumWithout ==
  ASSUME NEW S, IsFiniteSet(S), NEW f, \A x \in S : f[x] \in Int, NEW x \in S
  PROVE  SumOn(f, S) = f[x] + SumOn(f, S \ {x})
<1> DEFINE Bad == {t \in SUBSET S : \E z \in t : SumOn(f, t) # f[z] + SumOn(f, t \ {z})}
<1> SUFFICES ASSUME Bad # {} PROVE FALSE
  OBVIOUS
<1>1. Bad \in SUBSET SUBSET S
  OBVIOUS
<1>2. PICK m \in Bad : \A t \in Bad : t \subseteq m => t = m
  <2> HIDE DEF Bad
  <2> QED BY <1>1, SmallestSubset
<1>3. m \in SUBSET S
  OBVIOUS
<1>4. PICK z \in m : SumOn(f, m) # f[z] + SumOn(f, m \ {z})
  OBVIOUS
<1> DEFINE y == First(m)
<1>5. IsFiniteSet(m) /\ m # {} /\ IsFiniteSet((m \ {z}) \ {y}) /\ (m \ {z}) \ {y} \in SUBSET S
  <2> HIDE DEF y
  <2> QED BY <1>3, <1>4, FS_Subset, FS_RemoveElement
<1>6. y \in m /\ SumOn(f, m) = f[y] + SumOn(f, m \ {y})
  BY <1>3, <1>5, SumFirst
<1> HIDE DEF y
<1>7. y # z
  BY <1>4, <1>6
<1>8. SumOn(f, m \ {y}) = f[z] + SumOn(f, (m \ {y}) \ {z})
  <2>1. m \ {y} \notin Bad /\ m \ {y} \in SUBSET S /\ z \in m \ {y}
    BY <1>2, <1>3, <1>6, <1>7
  <2> QED BY <2>1
<1>9. SumOn(f, m \ {z}) = f[y] + SumOn(f, (m \ {z}) \ {y})
  <2>1. m \ {z} \notin Bad /\ m \ {z} \in SUBSET S /\ y \in m \ {z}
    BY <1>2, <1>3, <1>4, <1>6, <1>7
  <2> QED BY <2>1
<1>10. SumOn(f, (m \ {y}) \ {z}) = SumOn(f, (m \ {z}) \ {y})
  <2>1. (m \ {y}) \ {z} = (m \ {z}) \ {y}
    OBVIOUS
  <2> QED BY <2>1
<1>11. SumOn(f, (m \ {z}) \ {y}) \in Int /\ f[y] \in Int /\ f[z] \in Int
  BY <1>3, <1>5, <1>6, SumIsInt
<1> HIDE DEF Bad
<1> QED BY <1>4, <1>6, <1>8, <1>9, <1>10, <1>11

\* A sum grows with what is added up.
LEMMA SumAtMost ==
  ASSUME NEW S, IsFiniteSet(S), NEW f, NEW g,
         \A x \in S : f[x] \in Int /\ g[x] \in Int /\ f[x] <= g[x]
  PROVE  SumOn(f, S) <= SumOn(g, S)
<1> DEFINE Bad == {t \in SUBSET S : ~ (SumOn(f, t) <= SumOn(g, t))}
<1> SUFFICES ASSUME Bad # {} PROVE FALSE
  OBVIOUS
<1>1. Bad \in SUBSET SUBSET S
  OBVIOUS
<1>2. PICK m \in Bad : \A t \in Bad : t \subseteq m => t = m
  <2> HIDE DEF Bad
  <2> QED BY <1>1, SmallestSubset
<1>3. m \in SUBSET S /\ ~ (SumOn(f, m) <= SumOn(g, m))
  OBVIOUS
<1>4. m # {}
  BY <1>3, SumEmpty
<1>5. IsFiniteSet(m)
  BY <1>3, FS_Subset
<1> DEFINE y == First(m)
<1>6. /\ y \in m
      /\ SumOn(f, m) = f[y] + SumOn(f, m \ {y})
      /\ SumOn(g, m) = g[y] + SumOn(g, m \ {y})
  BY <1>3, <1>4, <1>5, SumFirst
<1> HIDE DEF y
<1>7. m \ {y} \in SUBSET S /\ IsFiniteSet(m \ {y}) /\ m \ {y} \notin Bad
  BY <1>2, <1>3, <1>5, <1>6, FS_RemoveElement
<1>8. SumOn(f, m \ {y}) \in Int /\ SumOn(g, m \ {y}) \in Int
  BY <1>7, SumIsInt
<1> QED BY <1>3, <1>6, <1>7, <1>8

\* Two sums over the same set are added element by element.
LEMMA SumOfSums ==
  ASSUME NEW S, IsFiniteSet(S), NEW f, NEW g, NEW h,
         \A x \in S : f[x] \in Int /\ g[x] \in Int /\ h[x] = f[x] + g[x]
  PROVE  SumOn(h, S) = SumOn(f, S) + SumOn(g, S)
<1> DEFINE Bad == {t \in SUBSET S : SumOn(h, t) # SumOn(f, t) + SumOn(g, t)}
<1> SUFFICES ASSUME Bad # {} PROVE FALSE
  OBVIOUS
<1>1. Bad \in SUBSET SUBSET S
  OBVIOUS
<1>2. PICK m \in Bad : \A t \in Bad : t \subseteq m => t = m
  <2> HIDE DEF Bad
  <2> QED BY <1>1, SmallestSubset
<1>3. m \in SUBSET S /\ SumOn(h, m) # SumOn(f, m) + SumOn(g, m)
  OBVIOUS
<1>4. m # {}
  <2>1. SumOn(f, {}) = 0 /\ SumOn(g, {}) = 0 /\ SumOn(h, {}) = 0
    BY SumEmpty
  <2> HIDE DEF Bad
  <2> QED BY <1>3, <2>1
<1>5. IsFiniteSet(m)
  BY <1>3, FS_Subset
<1> DEFINE y == First(m)
<1>6. /\ y \in m
      /\ SumOn(f, m) = f[y] + SumOn(f, m \ {y})
      /\ SumOn(g, m) = g[y] + SumOn(g, m \ {y})
      /\ SumOn(h, m) = h[y] + SumOn(h, m \ {y})
  <2>1. \A x \in m : f[x] \in Int /\ g[x] \in Int /\ h[x] \in Int
    BY <1>3
  <2> QED BY <2>1, <1>4, <1>5, SumFirst
<1> HIDE DEF y
<1>7. m \ {y} \in SUBSET S /\ IsFiniteSet(m \ {y}) /\ m \ {y} \notin Bad
  BY <1>2, <1>3, <1>5, <1>6, FS_RemoveElement
<1>8. SumOn(f, m \ {y}) \in Int /\ SumOn(g, m \ {y}) \in Int
  BY <1>7, SumIsInt
<1> QED BY <1>3, <1>6, <1>7, <1>8

\* What is zero can be left out.
LEMMA SumSupport ==
  ASSUME NEW S, IsFiniteSet(S), NEW T \in SUBSET S, NEW f, \A x \in S : f[x] \in Int,
         \A x \in S \ T : f[x] = 0
  PROVE  SumOn(f, S) = SumOn(f, T)
<1> DEFINE Bad == {t \in SUBSET S : T \subseteq t /\ SumOn(f, t) # SumOn(f, T)}
<1> SUFFICES ASSUME Bad # {} PROVE FALSE
  OBVIOUS
<1>1. Bad \in SUBSET SUBSET S
  OBVIOUS
<1>2. PICK m \in Bad : \A t \in Bad : t \subseteq m => t = m
  <2> HIDE DEF Bad
  <2> QED BY <1>1, SmallestSubset
<1>3. m \in SUBSET S /\ T \subseteq m /\ SumOn(f, m) # SumOn(f, T)
  OBVIOUS
<1>4. PICK x \in m : x \notin T
  <2>1. m # T
    BY <1>3
  <2> QED BY <1>3, <2>1
<1>5. IsFiniteSet(m) /\ IsFiniteSet(m \ {x}) /\ m \ {x} \in SUBSET S
  BY <1>3, FS_Subset
<1>6. SumOn(f, m) = f[x] + SumOn(f, m \ {x})
  BY <1>3, <1>5, SumWithout
<1>7. m \ {x} \notin Bad
  BY <1>2, <1>4
<1>8. SumOn(f, m \ {x}) = SumOn(f, T)
  BY <1>3, <1>4, <1>7
<1>9. SumOn(f, m \ {x}) \in Int
  BY <1>5, SumIsInt
<1> HIDE DEF Bad
<1> QED BY <1>3, <1>4, <1>6, <1>8, <1>9

-----------------------------------------------------------------------------
LEMMA SumFunctionIs ==
  ASSUME NEW S, NEW f, DOMAIN f = S
  PROVE  SumFunction(f) = SumOn(f, S)
BY DEF SumFunction, SumOn

\* SumFunction, the sum over the whole domain: it is a whole number,
LEMMA SumInt ==
  ASSUME NEW S, IsFiniteSet(S), NEW f \in [S -> Int]
  PROVE  SumFunction(f) \in Int
BY SumFunctionIs, SumIsInt

\* ... zero when nothing is added up,
LEMMA SumZero ==
  ASSUME NEW S, IsFiniteSet(S), NEW f \in [S -> Int], \A x \in S : f[x] = 0
  PROVE  SumFunction(f) = 0
<1>1. SumOn(f, S) = SumOn(f, S) + SumOn(f, S)
  BY SumOfSums
<1> QED BY <1>1, SumFunctionIs, SumIsInt

\* ... not negative when nothing negative is,
LEMMA SumNat ==
  ASSUME NEW S, IsFiniteSet(S), NEW f \in [S -> Nat]
  PROVE  SumFunction(f) \in Nat
<1> DEFINE g == [x \in S |-> 0]
<1>1. g \in [S -> Int] /\ f \in [S -> Int]
  OBVIOUS
<1>2. SumFunction(g) = 0
  BY <1>1, SumZero
<1>3. SumOn(g, S) = 0
  BY <1>2, SumFunctionIs
<1>4. SumOn(g, S) <= SumOn(f, S)
  BY SumAtMost
<1> QED BY <1>3, <1>4, SumFunctionIs, SumIsInt

\* ... and moves with the one value that changes.
LEMMA SumChangesAt ==
  ASSUME NEW S, IsFiniteSet(S), NEW f \in [S -> Int], NEW g \in [S -> Int],
         NEW x \in S, \A y \in S : y # x => g[y] = f[y]
  PROVE  SumFunction(g) = SumFunction(f) + (g[x] - f[x])
<1> DEFINE R == S \ {x}
<1>1. IsFiniteSet(R) /\ \A y \in R : f[y] \in Int /\ g[y] = f[y]
  BY FS_RemoveElement
<1>2. SumOn(g, R) = SumOn(f, R)
  <2> HIDE DEF R
  <2> QED BY <1>1, SumSame
<1>3. SumOn(f, R) \in Int
  <2> HIDE DEF R
  <2> QED BY <1>1, SumIsInt
<1>4. SumOn(f, S) = f[x] + SumOn(f, R) /\ SumOn(g, S) = g[x] + SumOn(g, R)
  BY SumWithout
<1> HIDE DEF R
<1>5. SumFunction(f) = SumOn(f, S) /\ SumFunction(g) = SumOn(g, S)
  BY SumFunctionIs
<1> QED BY <1>2, <1>3, <1>4, <1>5

-----------------------------------------------------------------------------
\* h starts at base; F makes each value of the number and of the value before.
IsChain(h, F, base, n) ==
  h = [k \in 0 .. n |-> IF k = 0 THEN base ELSE F[<<k, h[k - 1]>>]]

\* A function that is defined number by number, each value from the one before, exists.
LEMMA ChainExists ==
  ASSUME NEW n \in Nat, NEW base \in Int, NEW F \in [(1 .. n) \X Int -> Int]
  PROVE  \E h \in [0 .. n -> Int] : IsChain(h, F, base, n)
<1> DEFINE Bad == {m \in 0 .. n : ~ \E h \in [0 .. m -> Int] : IsChain(h, F, base, m)}
<1> SUFFICES Bad = {}
  OBVIOUS
<1> SUFFICES ASSUME Bad # {} PROVE FALSE
  OBVIOUS
<1>1. PICK m \in Bad : \A t \in Bad : m <= t
  <2>1. Bad \in SUBSET Nat
    OBVIOUS
  <2> HIDE DEF Bad
  <2> QED BY <2>1, LeastNumber
<1>2. m \in 0 .. n /\ ~ \E h \in [0 .. m -> Int] : IsChain(h, F, base, m)
  OBVIOUS
<1>3. m # 0
  <2> SUFFICES ASSUME m = 0 PROVE FALSE
    OBVIOUS
  <2> DEFINE h == [k \in 0 .. 0 |-> base]
  <2>1. h \in [0 .. 0 -> Int] /\ IsChain(h, F, base, 0)
    BY DEF IsChain
  <2> QED BY <1>2, <2>1
<1>4. m - 1 \notin Bad /\ m - 1 \in 0 .. n
  BY <1>1, <1>2, <1>3
<1>5. PICK h \in [0 .. (m - 1) -> Int] : IsChain(h, F, base, m - 1)
  BY <1>4
<1> DEFINE g == [k \in 0 .. m |-> IF k < m THEN h[k] ELSE F[<<m, h[m - 1]>>]]
<1>6. h[m - 1] \in Int /\ m \in 1 .. n /\ \A k \in 0 .. (m - 1) : h[k] \in Int
  BY <1>2, <1>3
<1>7. F[<<m, h[m - 1]>>] \in Int
  BY <1>6
<1>8. g \in [0 .. m -> Int]
  BY <1>2, <1>6, <1>7
<1>9. \A k \in 0 .. (m - 1) : h[k] = IF k = 0 THEN base ELSE F[<<k, h[k - 1]>>]
  BY <1>5 DEF IsChain
<1>12. /\ g[m] = F[<<m, h[m - 1]>>]
       /\ \A k \in 0 .. (m - 1) : g[k] = h[k]
  BY <1>2, <1>3
<1> HIDE DEF g
<1>10. \A k \in 0 .. m : g[k] = IF k = 0 THEN base ELSE F[<<k, g[k - 1]>>]
  <2> SUFFICES ASSUME NEW k \in 0 .. m
               PROVE  g[k] = IF k = 0 THEN base ELSE F[<<k, g[k - 1]>>]
    OBVIOUS
  <2>1. CASE k = m
    <3>1. g[k - 1] = h[m - 1] /\ k # 0
      BY <1>2, <1>3, <1>12, <2>1
    <3> QED BY <1>12, <2>1, <3>1
  <2>2. CASE k # m /\ k # 0
    <3>1. k - 1 \in 0 .. (m - 1) /\ k \in 0 .. (m - 1)
      BY <1>2, <2>2
    <3>2. g[k - 1] = h[k - 1] /\ g[k] = h[k]
      BY <1>12, <3>1
    <3> QED BY <1>9, <2>2, <3>1, <3>2
  <2>3. CASE k # m /\ k = 0
    <3>1. 0 \in 0 .. (m - 1)
      BY <1>2, <1>3
    <3> QED BY <1>9, <1>12, <2>3, <3>1
  <2> QED BY <2>1, <2>2, <2>3
<1>11. IsChain(g, F, base, m)
  <2>1. g = [k \in 0 .. m |-> g[k]]
    BY <1>8
  <2> QED BY <1>10, <2>1 DEF IsChain
<1> QED BY <1>2, <1>8, <1>11

-----------------------------------------------------------------------------
\* A rounded quotient (lib/money.ts) is a whole number.
LEMMA RoundDivInt ==
  ASSUME NEW a \in Int, NEW b \in Nat \ {0}
  PROVE  RoundDiv(a, b) \in Int
BY DEF RoundDiv

\* Banker's rounding of a fraction of something that is not negative neither goes
\* below zero nor above it.
LEMMA RoundDivNat ==
  ASSUME NEW a \in Nat, NEW b \in Nat \ {0}
  PROVE  RoundDiv(a, b) \in Nat /\ RoundDiv(a, b) <= a
<1> DEFINE q == a \div b
           r == a % b
<1>1. q \in Nat /\ r \in Nat /\ a = b * q + r /\ r < b
  OBVIOUS
<1>2. RoundDiv(a, b) = IF 2 * r > b \/ (2 * r = b /\ q % 2 = 1) THEN q + 1 ELSE q
  BY DEF RoundDiv
<1> HIDE DEF q, r
<1>3. q <= b * q
  BY <1>1
<1>4. CASE 2 * r > b \/ (2 * r = b /\ q % 2 = 1)
  BY <1>1, <1>2, <1>3, <1>4
<1>5. CASE ~ (2 * r > b \/ (2 * r = b /\ q % 2 = 1))
  BY <1>1, <1>2, <1>3, <1>5
<1> QED BY <1>4, <1>5
-----------------------------------------------------------------------------
\* The fold of a finite set whose elements are taken out in a fixed order, c(s) from s:
\* base is what nothing comes to, F what an element and the rest come to.
IsFold(h, F, c, base, D) ==
  h = [s \in SUBSET D |-> IF s = {} THEN base ELSE F[<<c[s], h[s \ {c[s]}]>>]]

\* A fold exists, and its values are of the kind F makes.
LEMMA FoldExists ==
  ASSUME NEW D, IsFiniteSet(D), NEW V, NEW base \in V, NEW F \in [D \X V -> V],
         NEW c, \A s \in SUBSET D : s # {} => c[s] \in s
  PROVE  \E h \in [SUBSET D -> V] : IsFold(h, F, c, base, D)
<1> DEFINE L(k) == {s \in SUBSET D : Cardinality(s) <= k}
           Folds(h, k) == \A s \in L(k) : h[s] = IF s = {} THEN base ELSE F[<<c[s], h[s \ {c[s]}]>>]
           Bad == {k \in Nat : ~ \E h \in [L(k) -> V] : Folds(h, k)}
<1>1. \A s \in SUBSET D : IsFiniteSet(s) /\ Cardinality(s) \in Nat /\ Cardinality(s) <= Cardinality(D)
  BY FS_Subset, FS_CardinalityType
<1>2. \A s \in SUBSET D : s # {} =>
        /\ c[s] \in D /\ s \ {c[s]} \in SUBSET D
        /\ Cardinality(s \ {c[s]}) = Cardinality(s) - 1
  BY <1>1, FS_RemoveElement
<1>3. Bad = {}
  <2> SUFFICES ASSUME Bad # {} PROVE FALSE
    OBVIOUS
  <2>1. PICK m \in Bad : \A t \in Bad : m <= t
    <3>1. Bad \in SUBSET Nat
      OBVIOUS
    <3> HIDE DEF Bad
    <3> QED BY <3>1, LeastNumber
  <2>2. m \in Nat /\ ~ \E h \in [L(m) -> V] : Folds(h, m)
    OBVIOUS
  <2>3. m # 0
    <3> SUFFICES ASSUME m = 0 PROVE FALSE
      OBVIOUS
    <3> DEFINE h == [s \in L(0) |-> base]
    <3>1. \A s \in L(0) : s = {}
      <4> SUFFICES ASSUME NEW s \in SUBSET D, Cardinality(s) <= 0 PROVE s = {}
        OBVIOUS
      <4>1. Cardinality(s) = 0
        BY <1>1
      <4> QED BY <1>1, <4>1, FS_EmptySet
    <3>2. h \in [L(0) -> V] /\ Folds(h, 0)
      BY <3>1
    <3> QED BY <2>2, <3>2
  <2>4. m - 1 \in Nat /\ m - 1 \notin Bad
    <3> HIDE DEF Bad
    <3> QED BY <2>1, <2>2, <2>3
  <2>5. PICK h \in [L(m - 1) -> V] : Folds(h, m - 1)
    BY <2>4
  <2> DEFINE g == [s \in L(m) |-> IF s = {} THEN base ELSE F[<<c[s], h[s \ {c[s]}]>>]]
  <2>6. \A s \in L(m) : s # {} => s \ {c[s]} \in L(m - 1) /\ c[s] \in D
    BY <1>1, <1>2, <2>2
  <2>7. \A s \in L(m - 1) : s \in L(m) /\ h[s] = IF s = {} THEN base ELSE F[<<c[s], h[s \ {c[s]}]>>]
    BY <1>1, <2>2, <2>5
  <2> HIDE DEF L
  <2>8. \A s \in L(m - 1) : g[s] = h[s]
    BY <2>7
  <2>9. g \in [L(m) -> V]
    <3> SUFFICES ASSUME NEW s \in L(m), s # {} PROVE F[<<c[s], h[s \ {c[s]}]>>] \in V
      OBVIOUS
    <3>1. h[s \ {c[s]}] \in V /\ c[s] \in D
      BY <2>5, <2>6
    <3> QED BY <3>1
  <2>10. Folds(g, m)
    <3> SUFFICES ASSUME NEW s \in L(m)
                 PROVE  g[s] = IF s = {} THEN base ELSE F[<<c[s], g[s \ {c[s]}]>>]
      OBVIOUS
    <3>1. s # {} => g[s \ {c[s]}] = h[s \ {c[s]}]
      BY <2>6, <2>8
    <3> QED BY <3>1
  <2> HIDE DEF Folds, g, Bad
  <2> QED BY <2>2, <2>9, <2>10
<1> DEFINE n == Cardinality(D)
<1>4. n \in Nat /\ L(n) = SUBSET D
  BY <1>1, FS_CardinalityType
<1>5. PICK h \in [L(n) -> V] : Folds(h, n)
  BY <1>3, <1>4
<1>6. h \in [SUBSET D -> V]
  BY <1>4, <1>5
<1>7. \A s \in SUBSET D : h[s] = IF s = {} THEN base ELSE F[<<c[s], h[s \ {c[s]}]>>]
  BY <1>4, <1>5
<1>8. h = [s \in SUBSET D |-> h[s]]
  BY <1>6
<1>9. IsFold(h, F, c, base, D)
  BY <1>7, <1>8 DEF IsFold
<1> QED BY <1>6, <1>9
=============================================================================
