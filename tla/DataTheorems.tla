---------------------------- MODULE DataTheorems ----------------------------
(*************************************************************************)
(* Facts about data that the proofs of the components share: induction   *)
(* over the natural numbers, the functions the models define by          *)
(* recursion to close a set of files, and sequences. Induction is stated *)
(* with a set in place of a predicate, which every prover can            *)
(* instantiate; it follows from the well-foundedness of < on the natural *)
(* numbers.                                                              *)
(*************************************************************************)
EXTENDS Naturals, FiniteSetTheorems, SequenceTheorems, WellFoundedInduction, TLAPS

(* The order of the natural numbers, as a relation. *)
NatOrder == {p \in Nat \X Nat : p[1] < p[2]}

(* Every nonempty set of natural numbers has a least element. *)
LEMMA LeastNatural ==
  ASSUME NEW T, T \subseteq Nat, T # {}
  PROVE  \E m \in T : \A k \in T : m <= k
<1>1. IsWellFoundedOn(NatOrder, Nat)
  BY NatLessThanWellFounded DEF OpToRel, NatOrder
<1>2. PICK m \in T : \A k \in T : <<k, m>> \notin NatOrder
  BY <1>1, WFMin
<1>3. \A k \in T : k < m => <<k, m>> \in NatOrder
  BY DEF NatOrder
<1>4. ASSUME NEW k \in T
      PROVE  m <= k
  <2>1. k \in Nat /\ m \in Nat /\ ~(k < m)
    BY <1>2, <1>3
  <2>. QED BY <2>1
<1>. QED BY <1>4

(* A set that holds 0 and the successor of each of its numbers holds all
   natural numbers. *)
LEMMA SetInduction ==
  ASSUME NEW T, 0 \in T, \A n \in Nat : n \in T => n + 1 \in T
  PROVE  Nat \subseteq T
<1>. SUFFICES ASSUME Nat \ T # {}
              PROVE  FALSE
  OBVIOUS
<1>1. PICK m \in Nat \ T : \A k \in Nat \ T : m <= k
  BY LeastNatural
<1>2. m # 0 /\ m - 1 \in Nat
  BY <1>1
<1>3. m - 1 \in T
  BY <1>1, <1>2
<1>. QED BY <1>1, <1>2, <1>3

(* A step can be repeated any number of times: the recursive definition
   g[0] = s, g[n + 1] = step[g[n]] defines a function. *)
IsIteration(g, S, s, step) ==
  g \in [Nat -> S] /\ g[0] = s /\ \A n \in Nat : g[n + 1] = step[g[n]]

LEMMA Iteration ==
  ASSUME NEW S, NEW s, NEW step, s \in S, step \in [S -> S]
  PROVE  \E g : IsIteration(g, S, s, step)
<1>. DEFINE Part(h, n) == /\ h \in [0 .. n -> S] /\ h[0] = s
                          /\ \A i \in 0 .. n : i # n => h[i + 1] = step[h[i]]
            T == {n \in Nat : \E h : Part(h, n)}
<1>1. 0 \in T
  <2>1. Part([i \in 0 .. 0 |-> s], 0)
    OBVIOUS
  <2>. QED BY <2>1
<1>2. ASSUME NEW n \in Nat, n \in T
      PROVE  n + 1 \in T
  <2>1. PICK h : Part(h, n)
    BY <1>2
  <2>. DEFINE g == [i \in 0 .. n + 1 |-> IF i = n + 1 THEN step[h[n]] ELSE h[i]]
  <2>2. h[n] \in S
    BY <2>1
  <2>3. g \in [0 .. n + 1 -> S] /\ g[0] = s
    BY <2>1, <2>2
  <2>4. \A i \in 0 .. n + 1 : i # n + 1 => g[i + 1] = step[g[i]]
    BY <2>1
  <2>5. Part(g, n + 1)
    BY <2>3, <2>4
  <2>. QED BY <2>5
<1>3. Nat \subseteq T
  <2>. HIDE DEF T
  <2>. QED BY <1>1, <1>2, SetInduction
<1>. DEFINE H == [n \in Nat |-> CHOOSE h : Part(h, n)]
            g == [n \in Nat |-> H[n][n]]
<1>4. \A n \in Nat : Part(H[n], n)
  BY <1>3
<1>. HIDE DEF H
<1>5. ASSUME NEW n \in Nat
      PROVE  \A i \in 0 .. n : H[n + 1][i] = H[n][i]
  <2>. DEFINE U == {i \in Nat : i <= n => H[n + 1][i] = H[n][i]}
  <2>1. 0 \in U
    <3>1. H[n + 1][0] = s /\ H[n][0] = s
      BY <1>4
    <3>. QED BY <3>1
  <2>2. ASSUME NEW i \in Nat, i \in U
        PROVE  i + 1 \in U
    <3>. SUFFICES ASSUME i + 1 <= n
                  PROVE  H[n + 1][i + 1] = H[n][i + 1]
      OBVIOUS
    <3>1. Part(H[n], n) /\ Part(H[n + 1], n + 1)
      BY <1>4
    <3>2. i \in 0 .. n /\ i # n /\ i \in 0 .. n + 1 /\ i # n + 1
      OBVIOUS
    <3>3. H[n][i + 1] = step[H[n][i]] /\ H[n + 1][i + 1] = step[H[n + 1][i]]
      BY <3>1, <3>2
    <3>4. H[n + 1][i] = H[n][i]
      BY <2>2, <3>2
    <3>. QED BY <3>3, <3>4
  <2>3. Nat \subseteq U
    <3>. HIDE DEF U
    <3>. QED BY <2>1, <2>2, SetInduction
  <2>. QED BY <2>3
<1>6. g \in [Nat -> S]
  BY <1>4
<1>7. g[0] = s
  BY <1>4
<1>8. ASSUME NEW n \in Nat
      PROVE  g[n + 1] = step[g[n]]
  <2>1. Part(H[n + 1], n + 1)
    BY <1>4
  <2>2. n \in 0 .. n + 1 /\ n # n + 1
    OBVIOUS
  <2>4. H[n + 1][n + 1] = step[H[n + 1][n]]
    BY <2>1, <2>2
  <2>3. H[n + 1][n] = H[n][n]
    BY <1>5
  <2>. QED BY <2>3, <2>4
<1>9. IsIteration(g, S, s, step)
  <2>. HIDE DEF g
  <2>. QED BY <1>6, <1>7, <1>8 DEF IsIteration
<1>. QED BY <1>9

----------------------------------------
(* Sets grown step by step. *)

(* A step that makes a set of elements of S larger or leaves it, and
   preserves which of two sets is the larger. *)
IsGrowth(grow, S) ==
  /\ grow \in [SUBSET S -> SUBSET S]
  /\ \A X \in SUBSET S : X \subseteq grow[X]
  /\ \A X, Y \in SUBSET S : X \subseteq Y => grow[X] \subseteq grow[Y]

(* The least set that holds s and that grow leaves alone. *)
IsLeastClosed(all, s, grow, S) ==
  /\ all \in SUBSET S /\ s \subseteq all /\ grow[all] = all
  /\ \A X \in SUBSET S : s \subseteq X /\ grow[X] = X => all \subseteq X

(* Growing s as often as S has elements reaches the least set around s
   that is closed: each growth that is not the last one adds an element. *)
LEMMA Growth ==
  ASSUME NEW S, IsFiniteSet(S), NEW s \in SUBSET S, NEW grow, IsGrowth(grow, S),
         NEW g \in [Nat -> SUBSET S], g[0] = s, \A n \in Nat : g[n + 1] = grow[g[n]]
  PROVE  IsLeastClosed(g[Cardinality(S)], s, grow, S)
<1>1. \A X \in SUBSET S : /\ IsFiniteSet(X) /\ Cardinality(X) \in Nat
                          /\ Cardinality(X) <= Cardinality(S)
                          /\ Cardinality(X) = Cardinality(S) => X = S
  BY FS_Subset, FS_CardinalityType
<1>2. \A X, Y \in SUBSET S : X \subseteq Y /\ X # Y => Cardinality(X) < Cardinality(Y)
  <2>. TAKE X, Y \in SUBSET S
  <2>1. X \subseteq Y => Cardinality(X) <= Cardinality(Y) /\ (Cardinality(X) = Cardinality(Y) => X = Y)
    BY <1>1, FS_Subset
  <2>2. Cardinality(X) \in Nat /\ Cardinality(Y) \in Nat
    BY <1>1
  <2>. QED BY <2>1, <2>2
<1>3. ASSUME NEW n \in Nat
      PROVE  /\ g[n] \in SUBSET S /\ grow[g[n]] \in SUBSET S
             /\ g[n] \subseteq grow[g[n]] /\ g[n + 1] = grow[g[n]]
  BY DEF IsGrowth
<1>. DEFINE T == {n \in Nat : grow[g[n]] = g[n] \/ n <= Cardinality(g[n])}
<1>4. 0 \in T
  <2>1. 0 <= Cardinality(g[0])
    BY <1>1, <1>3
  <2>. QED BY <2>1
<1>5. ASSUME NEW n \in Nat, n \in T
      PROVE  n + 1 \in T
  <2>1. CASE grow[g[n]] = g[n]
    BY <1>3, <2>1
  <2>2. CASE grow[g[n]] # g[n]
    <3>1. Cardinality(g[n]) < Cardinality(g[n + 1])
      BY <1>2, <1>3, <2>2
    <3>2. n <= Cardinality(g[n])
      BY <1>5, <2>2
    <3>3. Cardinality(g[n]) \in Nat /\ Cardinality(g[n + 1]) \in Nat
      BY <1>1, <1>3
    <3>4. n + 1 <= Cardinality(g[n + 1])
      BY <3>1, <3>2, <3>3
    <3>. QED BY <3>4
  <2>. QED BY <2>1, <2>2
<1>6. Nat \subseteq T
  <2>. HIDE DEF T
  <2>. QED BY <1>4, <1>5, SetInduction
<1>7. Cardinality(S) \in Nat
  BY FS_CardinalityType
<1>. DEFINE all == g[Cardinality(S)]
<1>8. all \in SUBSET S /\ grow[all] \in SUBSET S /\ all \subseteq grow[all]
  BY <1>3, <1>7
<1>9. grow[all] = all
  <2>1. SUFFICES ASSUME Cardinality(S) <= Cardinality(all)
                 PROVE  grow[all] = all
    BY <1>6, <1>7
  <2>2. Cardinality(all) = Cardinality(S)
    BY <2>1, <1>1, <1>7, <1>8
  <2>3. all = S
    BY <2>2, <1>1, <1>8
  <2>. QED BY <2>3, <1>8
<1>10. s \subseteq all
  <2>. DEFINE U == {n \in Nat : s \subseteq g[n]}
  <2>1. Nat \subseteq U
    <3>1. 0 \in U
      OBVIOUS
    <3>2. ASSUME NEW n \in Nat, n \in U
          PROVE  n + 1 \in U
      BY <1>3, <3>2
    <3>. HIDE DEF U
    <3>. QED BY <3>1, <3>2, SetInduction
  <2>. QED BY <2>1, <1>7
<1>11. ASSUME NEW X \in SUBSET S, s \subseteq X, grow[X] = X
       PROVE  all \subseteq X
  <2>. DEFINE U == {n \in Nat : g[n] \subseteq X}
  <2>1. Nat \subseteq U
    <3>1. 0 \in U
      BY <1>11
    <3>2. ASSUME NEW n \in Nat, n \in U
          PROVE  n + 1 \in U
      <4>1. grow[g[n]] \subseteq grow[X]
        BY <1>3, <3>2 DEF IsGrowth
      <4>. QED BY <4>1, <1>3, <1>11
    <3>. HIDE DEF U
    <3>. QED BY <3>1, <3>2, SetInduction
  <2>. QED BY <2>1, <1>7
<1>. QED BY <1>8, <1>9, <1>10, <1>11 DEF IsLeastClosed

(* The recursive function that grows s n times exists, and after
   Cardinality(S) growths it has reached the least closed set. *)
LEMMA GrowthDefined ==
  ASSUME NEW S, IsFiniteSet(S), NEW s \in SUBSET S, NEW grow, IsGrowth(grow, S)
  PROVE  \E c \in [Nat -> SUBSET S] :
           /\ c = [n \in Nat |-> IF n = 0 THEN s ELSE grow[c[n - 1]]]
           /\ IsLeastClosed(c[Cardinality(S)], s, grow, S)
<1>0. grow \in [SUBSET S -> SUBSET S]
  BY DEF IsGrowth
<1>1. PICK c \in [Nat -> SUBSET S] : c[0] = s /\ \A n \in Nat : c[n + 1] = grow[c[n]]
  <2>. DEFINE P == SUBSET S
  <2>1. s \in P /\ grow \in [P -> P]
    BY <1>0
  <2>. HIDE DEF P
  <2>2. \E c : IsIteration(c, P, s, grow)
    BY <2>1, Iteration
  <2>. QED BY <2>2 DEF P, IsIteration
<1>2. ASSUME NEW n \in Nat
      PROVE  c[n] = IF n = 0 THEN s ELSE grow[c[n - 1]]
  <2>1. CASE n = 0
    BY <1>1, <2>1
  <2>2. CASE n # 0
    <3>1. n - 1 \in Nat /\ (n - 1) + 1 = n
      BY <2>2
    <3>. QED BY <1>1, <2>2, <3>1
  <2>. QED BY <2>1, <2>2
<1>3. IsLeastClosed(c[Cardinality(S)], s, grow, S)
  BY <1>1, Growth
<1>4. c = [n \in Nat |-> IF n = 0 THEN s ELSE grow[c[n - 1]]]
  BY <1>2
<1>. QED BY <1>3, <1>4

----------------------------------------
(* Files and their owners, files and their imports. *)

(* all is the least set around m that holds every f whose owner r[f] it
   holds. *)
IsDescendants(all, m, r, S) ==
  /\ all \in SUBSET S /\ m \in all
  /\ \A f \in S : r[f] \in all => f \in all
  /\ \A X \in SUBSET S : m \in X /\ (\A f \in S : r[f] \in X => f \in X) => all \subseteq X

(* The function by which Resolver.Climb and CodegenOrder.Tree collect
   what an owner owns, directly or not, collects exactly that. *)
LEMMA Descendants ==
  ASSUME NEW S, IsFiniteSet(S), NEW m \in S, NEW r
  PROVE  LET climb == CHOOSE c : c = [n \in Nat |->
                 IF n = 0 THEN {m} ELSE c[n - 1] \cup {f \in S : r[f] \in c[n - 1]}]
         IN  IsDescendants(climb[Cardinality(S)], m, r, S)
<1>. DEFINE grow == [X \in SUBSET S |-> X \cup {f \in S : r[f] \in X}]
<1>1. IsGrowth(grow, S)
  BY DEF IsGrowth
<1>2. \A X \in SUBSET S : grow[X] = X \cup {f \in S : r[f] \in X}
  OBVIOUS
<1>. HIDE DEF grow
<1>3. PICK c \in [Nat -> SUBSET S] :
        /\ c = [n \in Nat |-> IF n = 0 THEN {m} ELSE grow[c[n - 1]]]
        /\ IsLeastClosed(c[Cardinality(S)], {m}, grow, S)
  BY <1>1, GrowthDefined
<1>4. \A n \in Nat : n # 0 => grow[c[n - 1]] = c[n - 1] \cup {f \in S : r[f] \in c[n - 1]}
  BY <1>2, <1>3
<1>5. c = [n \in Nat |-> IF n = 0 THEN {m} ELSE c[n - 1] \cup {f \in S : r[f] \in c[n - 1]}]
  BY <1>3, <1>4
<1>6. ASSUME NEW X \in SUBSET S, m \in X, \A f \in S : r[f] \in X => f \in X
      PROVE  c[Cardinality(S)] \subseteq X
  <2>1. grow[X] = X
    BY <1>2, <1>6
  <2>. QED BY <2>1, <1>3, <1>6 DEF IsLeastClosed
<1>7. IsDescendants(c[Cardinality(S)], m, r, S)
  BY <1>2, <1>3, <1>6, ZenonT(60) DEF IsDescendants, IsLeastClosed
<1>8. ASSUME NEW d, d = [n \in Nat |->
               IF n = 0 THEN {m} ELSE d[n - 1] \cup {f \in S : r[f] \in d[n - 1]}]
      PROVE  d = c
  <2>. DEFINE T == {n \in Nat : d[n] = c[n]}
  <2>1. 0 \in T
    <3>1. d[0] = {m} /\ c[0] = {m}
      BY <1>5, <1>8
    <3>. QED BY <3>1
  <2>2. ASSUME NEW n \in Nat, n \in T
        PROVE  n + 1 \in T
    <3>1. n + 1 \in Nat /\ n + 1 # 0 /\ (n + 1) - 1 = n
      OBVIOUS
    <3>2. d[n + 1] = d[n] \cup {f \in S : r[f] \in d[n]}
      BY <1>8, <3>1
    <3>3. c[n + 1] = c[n] \cup {f \in S : r[f] \in c[n]}
      BY <1>5, <3>1
    <3>4. d[n + 1] = c[n + 1]
      BY <2>2, <3>2, <3>3
    <3>. QED BY <3>1, <3>4
  <2>3. Nat \subseteq T
    <3>. HIDE DEF T
    <3>. QED BY <2>1, <2>2, SetInduction
  <2>4. \A n \in Nat : d[n] = c[n]
    BY <2>3
  <2>5. d = [n \in Nat |-> d[n]] /\ c = [n \in Nat |-> c[n]]
    BY <1>5, <1>8
  <2>. QED BY <2>4, <2>5
<1>. DEFINE climb == CHOOSE k : k = [n \in Nat |->
               IF n = 0 THEN {m} ELSE k[n - 1] \cup {f \in S : r[f] \in k[n - 1]}]
<1>9. climb = [n \in Nat |->
               IF n = 0 THEN {m} ELSE climb[n - 1] \cup {f \in S : r[f] \in climb[n - 1]}]
  BY <1>5
<1>. HIDE DEF climb
<1>10. climb = c
  BY <1>8, <1>9
<1>11. IsDescendants(climb[Cardinality(S)], m, r, S)
  BY <1>7, <1>10
<1>. QED BY <1>11 DEF climb

(* all is the least set around m that holds whatever I gives its
   members. *)
IsReachable(all, m, I, S) ==
  /\ all \in SUBSET S /\ m \in all
  /\ \A f \in all : I[f] \subseteq all
  /\ \A X \in SUBSET S : m \in X /\ (\A f \in X : I[f] \subseteq X) => all \subseteq X

(* The function by which Resolver.Within follows imports reaches exactly
   what can be reached. *)
LEMMA Reachable ==
  ASSUME NEW S, IsFiniteSet(S), NEW m \in S, NEW I \in [S -> SUBSET S]
  PROVE  \E c \in [Nat -> SUBSET S] :
           /\ c = [n \in Nat |-> IF n = 0 THEN {m}
                                         ELSE c[n - 1] \cup UNION {I[f] : f \in c[n - 1]}]
           /\ IsReachable(c[Cardinality(S)], m, I, S)
<1>. DEFINE grow == [X \in SUBSET S |-> X \cup UNION {I[f] : f \in X}]
<1>1. \A X \in SUBSET S : grow[X] = X \cup UNION {I[f] : f \in X}
  OBVIOUS
<1>2. \A X \in SUBSET S : \A f : f \in grow[X] <=> f \in X \/ \E g \in X : f \in I[g]
  BY <1>1
<1>3. IsGrowth(grow, S)
  <2>1. grow \in [SUBSET S -> SUBSET S]
    OBVIOUS
  <2>. HIDE DEF grow
  <2>. QED BY <1>2, <2>1 DEF IsGrowth
<1>. HIDE DEF grow
<1>4. PICK c \in [Nat -> SUBSET S] :
        /\ c = [n \in Nat |-> IF n = 0 THEN {m} ELSE grow[c[n - 1]]]
        /\ IsLeastClosed(c[Cardinality(S)], {m}, grow, S)
  BY <1>3, GrowthDefined
<1>5. \A n \in Nat : n # 0 => grow[c[n - 1]] = c[n - 1] \cup UNION {I[f] : f \in c[n - 1]}
  BY <1>1, <1>4
<1>6. c = [n \in Nat |-> IF n = 0 THEN {m} ELSE c[n - 1] \cup UNION {I[f] : f \in c[n - 1]}]
  BY <1>4, <1>5
<1>7. ASSUME NEW X \in SUBSET S, m \in X, \A f \in X : I[f] \subseteq X
      PROVE  c[Cardinality(S)] \subseteq X
  <2>1. grow[X] = X
    <3>1. X \subseteq grow[X] /\ grow[X] \subseteq X
      BY <1>2, <1>7
    <3>. QED BY <3>1
  <2>. QED BY <2>1, <1>4, <1>7 DEF IsLeastClosed
<1>8. ASSUME NEW f \in c[Cardinality(S)]
      PROVE  I[f] \subseteq c[Cardinality(S)]
  BY <1>2, <1>4 DEF IsLeastClosed
<1>9. IsReachable(c[Cardinality(S)], m, I, S)
  BY <1>4, <1>7, <1>8 DEF IsReachable, IsLeastClosed
<1>. QED BY <1>6, <1>9

----------------------------------------
(* Trees: the elements of D other than the roots R have a parent up[s]. *)

IsForest(D, R, up) ==
  /\ \A s \in D \ R : up[s] \in D
  /\ \E K \in Nat : \E rank \in [D -> 1 .. K] : \A s \in D \ R : rank[up[s]] < rank[s]

(* A set that holds the roots, and with a parent its children, holds all. *)
LEMMA TreeInduction ==
  ASSUME NEW D, NEW R, NEW up, IsForest(D, R, up),
         NEW T, \A s \in D : s \in R \/ up[s] \in T => s \in T
  PROVE  D \subseteq T
<1>1. PICK K \in Nat : \E rank \in [D -> 1 .. K] : \A s \in D \ R : rank[up[s]] < rank[s]
  BY DEF IsForest
<1>2. PICK rank \in [D -> 1 .. K] : \A s \in D \ R : rank[up[s]] < rank[s]
  BY <1>1
<1>3. \A s \in D : rank[s] \in Nat /\ rank[s] >= 1 /\ rank[s] <= K
  OBVIOUS
<1>. DEFINE U == {n \in Nat : \A s \in D : rank[s] <= n => s \in T}
<1>4. 0 \in U
  BY <1>3
<1>5. ASSUME NEW n \in Nat, n \in U
      PROVE  n + 1 \in U
  <2>1. ASSUME NEW s \in D, rank[s] <= n + 1
        PROVE  s \in T
    <3>1. CASE s \in R
      BY <3>1
    <3>2. CASE s \notin R
      <4>1. up[s] \in D /\ rank[up[s]] < rank[s]
        BY <1>2, <3>2 DEF IsForest
      <4>2. rank[up[s]] <= n
        BY <1>3, <2>1, <4>1
      <4>3. up[s] \in T
        BY <1>5, <4>1, <4>2
      <4>. QED BY <4>3
    <3>. QED BY <3>1, <3>2
  <2>. QED BY <2>1
<1>6. Nat \subseteq U
  <2>. HIDE DEF U
  <2>. QED BY <1>4, <1>5, SetInduction
<1>7. K \in U
  BY <1>6
<1>. QED BY <1>3, <1>7

(* A function can be defined along the parents: from base at the roots,
   and by step from what the parent has elsewhere. *)
IsInherited(g, D, R, up, V, base, step) ==
  /\ g \in [D -> V]
  /\ \A s \in D : g[s] = IF s \in R THEN base[s] ELSE step[<<s, g[up[s]]>>]

LEMMA TreeRecursion ==
  ASSUME NEW D, NEW R, NEW up, IsForest(D, R, up),
         NEW V, NEW base, NEW step, base \in [D -> V], step \in [D \X V -> V]
  PROVE  \E g : IsInherited(g, D, R, up, V, base, step)
<1>. DEFINE F == [D -> V]
            again == [h \in F |-> [s \in D |-> IF s \in R THEN base[s] ELSE step[<<s, h[up[s]]>>]]]
<1>0. \A s \in D \ R : up[s] \in D
  BY DEF IsForest
<1>1. base \in F /\ again \in [F -> F]
  <2>1. ASSUME NEW h \in F
        PROVE  again[h] \in F
    <3>1. \A s \in D \ R : <<s, h[up[s]]>> \in D \X V
      BY <1>0
    <3>2. \A s \in D : (IF s \in R THEN base[s] ELSE step[<<s, h[up[s]]>>]) \in V
      BY <3>1
    <3>. QED BY <3>2
  <2>. QED BY <2>1
<1>2. \E g \in [Nat -> F] : g[0] = base /\ \A n \in Nat : g[n + 1] = again[g[n]]
  <2>. HIDE DEF F, again
  <2>1. \E g : IsIteration(g, F, base, again)
    BY <1>1, Iteration
  <2>. QED BY <2>1 DEF IsIteration
<1>. HIDE DEF again
<1>13. PICK g \in [Nat -> F] : g[0] = base /\ \A n \in Nat : g[n + 1] = again[g[n]]
  BY <1>2
<1>3. ASSUME NEW n \in Nat, NEW s \in D
      PROVE  g[n + 1][s] = IF s \in R THEN base[s] ELSE step[<<s, g[n][up[s]]>>]
  <2>1. g[n + 1] = again[g[n]] /\ g[n] \in F
    BY <1>13
  <2>. QED BY <2>1 DEF again
<1>4. PICK K \in Nat : \E rank \in [D -> 1 .. K] : \A s \in D \ R : rank[up[s]] < rank[s]
  BY DEF IsForest
<1>5. PICK rank \in [D -> 1 .. K] : \A s \in D \ R : rank[up[s]] < rank[s]
  BY <1>4
<1>6. \A s \in D : rank[s] \in Nat /\ rank[s] >= 1 /\ rank[s] <= K
  OBVIOUS
<1>. DEFINE U == {n \in Nat : \A s \in D : rank[s] <= n => g[n + 1][s] = g[n][s]}
<1>7. 0 \in U
  BY <1>6
<1>8. ASSUME NEW n \in Nat, n \in U
      PROVE  n + 1 \in U
  <2>1. ASSUME NEW s \in D, rank[s] <= n + 1
        PROVE  g[(n + 1) + 1][s] = g[n + 1][s]
    <3>1. n + 1 \in Nat
      OBVIOUS
    <3>2. CASE s \in R
      BY <1>3, <3>1, <3>2
    <3>3. CASE s \notin R
      <4>1. up[s] \in D /\ rank[up[s]] < rank[s]
        BY <1>0, <1>5, <3>3
      <4>2. rank[up[s]] <= n
        BY <1>6, <2>1, <4>1
      <4>3. g[n + 1][up[s]] = g[n][up[s]]
        BY <1>8, <4>1, <4>2
      <4>4. g[(n + 1) + 1][s] = step[<<s, g[n + 1][up[s]]>>] /\ g[n + 1][s] = step[<<s, g[n][up[s]]>>]
        BY <1>3, <3>1, <3>3
      <4>. QED BY <4>3, <4>4
    <3>. QED BY <3>2, <3>3
  <2>2. n + 1 \in Nat
    OBVIOUS
  <2>. QED BY <2>1, <2>2
<1>9. K \in U
  <2>1. Nat \subseteq U
    <3>. HIDE DEF U
    <3>. QED BY <1>7, <1>8, SetInduction
  <2>. QED BY <2>1
<1>10. \A s \in D : g[K + 1][s] = g[K][s]
  BY <1>6, <1>9
<1>11. ASSUME NEW s \in D
       PROVE  g[K][s] = IF s \in R THEN base[s] ELSE step[<<s, g[K][up[s]]>>]
  BY <1>3, <1>10
<1>12. g[K] \in F
  BY <1>13
<1>14. IsInherited(g[K], D, R, up, V, base, step)
  BY <1>11, <1>12 DEF IsInherited
<1>. QED BY <1>14

(* A function can be defined along the numbers up to N, with a step that
   knows where it is. *)
IsNumbered(g, S, s, N, step) ==
  g \in [0 .. N -> S] /\ g[0] = s /\ \A n \in 1 .. N : g[n] = step[<<n, g[n - 1]>>]

LEMMA NumberedIteration ==
  ASSUME NEW S, NEW s, NEW N \in Nat, NEW step, s \in S, step \in [(1 .. N) \X S -> S]
  PROVE  \E g : IsNumbered(g, S, s, N, step)
<1>. DEFINE P == Nat \X S
            next == [p \in P |-> <<p[1] + 1, IF p[1] + 1 <= N THEN step[<<p[1] + 1, p[2]>>] ELSE p[2]>>]
<1>1. <<0, s>> \in P /\ next \in [P -> P]
  <2>1. ASSUME NEW p \in P
        PROVE  next[p] \in P
    <3>1. p[1] \in Nat /\ p[2] \in S
      OBVIOUS
    <3>2. CASE p[1] + 1 <= N
      <4>1. p[1] + 1 \in 1 .. N
        BY <3>1, <3>2
      <4>2. step[<<p[1] + 1, p[2]>>] \in S
        BY <3>1, <4>1
      <4>3. p[1] + 1 \in Nat
        BY <3>1
      <4>. QED BY <3>2, <4>2, <4>3
    <3>3. CASE ~(p[1] + 1 <= N)
      <4>1. p[1] + 1 \in Nat
        BY <3>1
      <4>. QED BY <3>1, <3>3, <4>1
    <3>. QED BY <3>2, <3>3
  <2>. QED BY <2>1
<1>7. \E h \in [Nat -> P] : h[0] = <<0, s>> /\ \A n \in Nat : h[n + 1] = next[h[n]]
  <2>. HIDE DEF P, next
  <2>1. \E h : IsIteration(h, P, <<0, s>>, next)
    BY <1>1, Iteration
  <2>. QED BY <2>1 DEF IsIteration
<1>2. PICK h \in [Nat -> P] : h[0] = <<0, s>> /\ \A n \in Nat : h[n + 1] = next[h[n]]
  BY <1>7
<1>3. \A n \in Nat : h[n][1] \in Nat /\ h[n][2] \in S
  BY <1>2
<1>. DEFINE U == {n \in Nat : h[n][1] = n}
<1>4. Nat \subseteq U
  <2>1. 0 \in U
    BY <1>2
  <2>2. ASSUME NEW n \in Nat, n \in U
        PROVE  n + 1 \in U
    <3>1. h[n + 1] = next[h[n]] /\ h[n] \in P
      BY <1>2
    <3>2. h[n + 1][1] = h[n][1] + 1
      BY <3>1
    <3>3. h[n][1] = n /\ n + 1 \in Nat
      BY <2>2
    <3>. QED BY <3>2, <3>3
  <2>. HIDE DEF U
  <2>. QED BY <2>1, <2>2, SetInduction
<1>. DEFINE g == [n \in 0 .. N |-> h[n][2]]
<1>5. g \in [0 .. N -> S] /\ g[0] = s
  <2>1. \A n \in 0 .. N : n \in Nat
    OBVIOUS
  <2>2. 0 \in 0 .. N
    OBVIOUS
  <2>. QED BY <1>2, <1>3, <2>1, <2>2
<1>6. ASSUME NEW n \in 1 .. N
      PROVE  g[n] = step[<<n, g[n - 1]>>]
  <2>1. n - 1 \in Nat /\ (n - 1) + 1 = n /\ n - 1 \in 0 .. N /\ n \in 0 .. N /\ n <= N
    OBVIOUS
  <2>2. h[n] = next[h[n - 1]] /\ h[n - 1] \in P
    BY <1>2, <2>1
  <2>3. h[n - 1][1] = n - 1
    BY <1>4, <2>1
  <2>5. h[n][2] = IF h[n - 1][1] + 1 <= N THEN step[<<h[n - 1][1] + 1, h[n - 1][2]>>] ELSE h[n - 1][2]
    BY <2>2
  <2>4. h[n][2] = step[<<n, h[n - 1][2]>>]
    BY <2>1, <2>3, <2>5
  <2>. QED BY <2>1, <2>4
<1>8. IsNumbered(g, S, s, N, step)
  <2>. HIDE DEF g
  <2>. QED BY <1>5, <1>6 DEF IsNumbered
<1>. QED BY <1>8

----------------------------------------
(* Sequences. *)

(* The elements of a sequence. *)
Elems(s) == {s[i] : i \in DOMAIN s}

(* Append adds its element, and keeps a sequence without repetitions so. *)
LEMMA AppendElems ==
  ASSUME NEW S, NEW s \in Seq(S), NEW e \in S, e \notin Elems(s)
  PROVE  /\ Elems(Append(s, e)) = Elems(s) \cup {e}
         /\ (\A i, j \in DOMAIN s : s[i] = s[j] => i = j)
              => \A i, j \in DOMAIN Append(s, e) :
                   Append(s, e)[i] = Append(s, e)[j] => i = j
<1> DEFINE a == Append(s, e)
<1>1. /\ a \in Seq(S) /\ Len(a) = Len(s) + 1 /\ a[Len(s) + 1] = e
      /\ \A i \in 1 .. Len(s) : a[i] = s[i]
  BY AppendProperties
<1>2. /\ DOMAIN s = 1 .. Len(s) /\ DOMAIN a = 1 .. Len(s) + 1
      /\ Len(s) \in Nat
  BY <1>1, LenProperties
<1>. HIDE DEF a
<1>3. Elems(a) = Elems(s) \cup {e}
  BY <1>1, <1>2 DEF Elems
<1>4. ASSUME \A i, j \in DOMAIN s : s[i] = s[j] => i = j,
             NEW i \in DOMAIN a, NEW j \in DOMAIN a, a[i] = a[j]
      PROVE  i = j
  BY <1>1, <1>2, <1>4 DEF Elems
<1>. QED BY <1>3, <1>4 DEF a

(* Tail drops the head and keeps the rest, and with no repetitions the
   head does not come back. *)
LEMMA TailElems ==
  ASSUME NEW S, NEW s \in Seq(S), s # <<>>
  PROVE  /\ Head(s) \in S /\ Tail(s) \in Seq(S) /\ Len(Tail(s)) = Len(s) - 1
         /\ Elems(s) = Elems(Tail(s)) \cup {Head(s)}
         /\ (\A i, j \in DOMAIN s : s[i] = s[j] => i = j)
              => /\ Head(s) \notin Elems(Tail(s))
                 /\ \A i, j \in DOMAIN Tail(s) : Tail(s)[i] = Tail(s)[j] => i = j
<1> DEFINE t == Tail(s)
<1>1. /\ Head(s) \in S /\ t \in Seq(S) /\ Len(t) = Len(s) - 1
      /\ \A i \in 1 .. Len(t) : t[i] = s[i + 1]
  BY HeadTailProperties
<1>2. /\ DOMAIN s = 1 .. Len(s) /\ DOMAIN t = 1 .. Len(s) - 1
      /\ Len(s) \in Nat /\ Len(s) # 0
  BY <1>1, LenProperties, EmptySeq
<1>3. Head(s) = s[1]
  BY <1>2
<1>. HIDE DEF t
<1>4. Elems(s) = Elems(t) \cup {Head(s)}
  <2>1. ASSUME NEW x \in Elems(s) PROVE x \in Elems(t) \cup {Head(s)}
    <3>1. PICK i \in 1 .. Len(s) : x = s[i]
      BY <2>1, <1>2 DEF Elems
    <3>2. CASE i = 1
      BY <3>1, <3>2, <1>3
    <3>3. CASE i # 1
      <4>1. i - 1 \in 1 .. Len(t) /\ s[i] = t[i - 1]
        BY <3>1, <3>3, <1>1, <1>2
      <4>. QED BY <4>1, <3>1, <1>1, <1>2 DEF Elems
    <3>. QED BY <3>2, <3>3
  <2>2. ASSUME NEW x \in Elems(t) PROVE x \in Elems(s)
    <3>1. PICK i \in 1 .. Len(t) : x = t[i]
      BY <2>2, <1>1, <1>2 DEF Elems
    <3>2. i + 1 \in DOMAIN s /\ x = s[i + 1]
      BY <3>1, <1>1, <1>2
    <3>. QED BY <3>2 DEF Elems
  <2>3. Head(s) \in Elems(s)
    BY <1>2, <1>3 DEF Elems
  <2>. QED BY <2>1, <2>2, <2>3
<1>5. ASSUME \A i, j \in DOMAIN s : s[i] = s[j] => i = j
      PROVE  /\ Head(s) \notin Elems(t)
             /\ \A i, j \in DOMAIN t : t[i] = t[j] => i = j
  <2>1. Head(s) \notin Elems(t)
    <3>1. SUFFICES ASSUME NEW i \in 1 .. Len(t), t[i] = s[1] PROVE FALSE
      BY <1>1, <1>2, <1>3 DEF Elems
    <3>2. /\ t[i] = s[i + 1] /\ i + 1 \in DOMAIN s /\ 1 \in DOMAIN s
          /\ i + 1 # 1
      BY <1>1, <1>2
    <3>. QED BY <3>1, <3>2, <1>5
  <2>2. ASSUME NEW i \in DOMAIN t, NEW j \in DOMAIN t, t[i] = t[j] PROVE i = j
    <3>1. /\ i \in Int /\ j \in Int /\ t[i] = s[i + 1] /\ t[j] = s[j + 1]
          /\ i + 1 \in DOMAIN s /\ j + 1 \in DOMAIN s
      BY <1>1, <1>2
    <3>2. i + 1 = j + 1
      BY <2>2, <3>1, <1>5
    <3>. QED BY <3>1, <3>2
  <2>. QED BY <2>1, <2>2
<1>. QED BY <1>1, <1>4, <1>5 DEF t

=============================================================================
