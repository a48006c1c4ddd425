----------------------------- MODULE PvpProofs ------------------------------
(***************************************************************************)
(* The PvP worker pops what is there and settles its battles: for any      *)
(* finite set of players, any points, length of a battle and bounds.       *)
(*                                                                         *)
(* A turn may settle several battles, and a player may fight in several of *)
(* them: that the points of all players together stay what they were needs *)
(* the laws of sums over finite sets, which come first.                    *)
(***************************************************************************)
EXTENDS Pvp, FiniteSetTheorems, SequenceTheorems, WellFoundedInduction, TLAPS

-----------------------------------------------------------------------------
(* Sums over finite sets.                                                  *)

\* Total: the sum of f over S, as the model adds up points.
Total(f, S) == MapThenSumSet(LAMBDA x : f[x], S)

\* The element a sum goes on with, and the partial sums of the subsets of S.
Chosen(T) == CHOOSE x \in T : TRUE
Sums(g, f, S) ==
    g = [T \in SUBSET S |-> IF T = {} THEN 0 ELSE f[Chosen(T)] + g[T \ {Chosen(T)}]]

\* A set of finite sets has a member with no other below it.
LEMMA SmallestSubset ==
    ASSUME NEW S, IsFiniteSet(S), NEW B \in SUBSET (SUBSET S), B # {}
    PROVE  \E U \in B : \A V \in SUBSET U : V # U => V \notin B
<1>1. B \subseteq FiniteSubsetsOf(S)
  BY FS_FiniteSubsetsOfFinite
<1>2. PICK U \in B : \A V \in B : ~(<<V, U>> \in StrictSubsetOrdering(S))
  BY <1>1, FS_StrictSubsetOrderingWellFounded, WFMin
<1>3. ASSUME NEW V \in SUBSET U, V # U PROVE V \notin B
  <2>1. U \subseteq S /\ V \subseteq S
    OBVIOUS
  <2>2. <<V, U>> \in StrictSubsetOrdering(S)
    BY <1>3, <2>1 DEF StrictSubsetOrdering
  <2> QED
    BY <1>2, <2>2
<1> QED
  BY <1>3

\* What partial sums are.
LEMMA SumsAre ==
    ASSUME NEW g, NEW f, NEW S, Sums(g, f, S), NEW T \in SUBSET S
    PROVE  /\ T = {} => g[T] = 0
           /\ T # {} => /\ Chosen(T) \in T /\ T \ {Chosen(T)} \in SUBSET S
                        /\ g[T] = f[Chosen(T)] + g[T \ {Chosen(T)}]
<1>1. g[T] = IF T = {} THEN 0 ELSE f[Chosen(T)] + g[T \ {Chosen(T)}]
  BY DEF Sums
<1>2. T # {} => Chosen(T) \in T
  BY DEF Chosen
<1> QED
  BY <1>1, <1>2

\* They do not depend on the set whose subsets are summed up.
LEMMA SumsAgree ==
    ASSUME NEW f, NEW S, NEW T, NEW g, NEW h, IsFiniteSet(S), Sums(g, f, S), Sums(h, f, T),
           NEW U \in SUBSET S, U \in SUBSET T
    PROVE  g[U] = h[U]
<1> DEFINE B == {V \in SUBSET U : g[V] # h[V]}
<1> SUFFICES ASSUME B # {} PROVE FALSE
  OBVIOUS
<1>1. B \in SUBSET (SUBSET S)
  OBVIOUS
<1> HIDE DEF B
<1>2. PICK V \in B : \A W \in SUBSET V : W # V => W \notin B
  BY <1>1, SmallestSubset
<1>3. V \in SUBSET S /\ V \in SUBSET T /\ V \in SUBSET U /\ g[V] # h[V]
  BY DEF B
<1>4. V # {}
  <2>1. V = {} => g[V] = 0 /\ h[V] = 0
    BY <1>3, SumsAre
  <2> QED
    BY <1>3, <2>1
<1>5. PICK c : c = Chosen(V)
  OBVIOUS
<1>6. c \in V /\ g[V] = f[c] + g[V \ {c}] /\ h[V] = f[c] + h[V \ {c}]
  <2>0. c \in V
    BY <1>4, <1>5 DEF Chosen
  <2>1. g[V] = f[c] + g[V \ {c}]
    BY <1>3, <1>4, <1>5, SumsAre
  <2>2. h[V] = f[c] + h[V \ {c}]
    BY <1>3, <1>4, <1>5, SumsAre
  <2> QED
    BY <2>0, <2>1, <2>2
<1>7. g[V \ {c}] = h[V \ {c}]
  BY <1>2, <1>3, <1>6 DEF B
<1> QED
  BY <1>3, <1>6, <1>7

\* A finite set has partial sums.
LEMMA SumsExist ==
    ASSUME NEW f, NEW S, IsFiniteSet(S)
    PROVE  \E g : Sums(g, f, S)
<1> DEFINE B == {U \in SUBSET S : ~\E g : Sums(g, f, U)}
<1> SUFFICES ASSUME B # {} PROVE FALSE
  OBVIOUS
<1>0. B \in SUBSET (SUBSET S)
  OBVIOUS
<1> HIDE DEF B
<1>1. PICK U \in B : \A V \in SUBSET U : V # U => V \notin B
  BY <1>0, SmallestSubset
<1>2. U \in SUBSET S /\ ~\E g : Sums(g, f, U)
  BY DEF B
<1>3. ASSUME NEW V \in SUBSET U, V # U PROVE \E g : Sums(g, f, V)
  BY <1>1, <1>2, <1>3 DEF B
<1> DEFINE W(V) == CHOOSE g : Sums(g, f, V)
           val(T) == IF T = {} THEN 0 ELSE f[Chosen(T)] + W(T \ {Chosen(T)})[T \ {Chosen(T)}]
           h == [T \in SUBSET U |-> val(T)]
<1>4. ASSUME NEW V \in SUBSET U, V # U PROVE Sums(W(V), f, V)
  BY <1>3, <1>4
<1> HIDE DEF W
<1>5. ASSUME NEW V \in SUBSET U, V # U PROVE W(V)[V] = val(V)
  <2>1. Sums(W(V), f, V) /\ V \in SUBSET V
    BY <1>4, <1>5
  <2>2. CASE V = {}
    BY <2>1, <2>2, SumsAre
  <2>3. CASE V # {}
    <3>1. PICK c, X : c = Chosen(V) /\ X = V \ {c}
      OBVIOUS
    <3>2. c \in V /\ W(V)[V] = f[c] + W(V)[X]
      BY <2>1, <2>3, <3>1, SumsAre
    <3>3. X \in SUBSET U /\ X # U /\ X \in SUBSET V /\ X \in SUBSET X
      BY <3>1, <3>2
    <3>4. IsFiniteSet(V)
      BY <1>2, FS_Subset
    <3>5. W(V)[X] = W(X)[X]
      BY <1>4, <2>1, <3>3, <3>4, SumsAgree
    <3> QED
      BY <2>3, <3>1, <3>2, <3>5
  <2> QED
    BY <2>2, <2>3
<1>6. h = [T \in SUBSET U |-> IF T = {} THEN 0 ELSE f[Chosen(T)] + h[T \ {Chosen(T)}]]
  <2>1. ASSUME NEW T \in SUBSET U, T # {} PROVE h[T] = f[Chosen(T)] + h[T \ {Chosen(T)}]
    <3>1. PICK c, X : c = Chosen(T) /\ X = T \ {c}
      OBVIOUS
    <3>2. c \in T
      BY <2>1, <3>1 DEF Chosen
    <3>3. X \in SUBSET U /\ X # U
      BY <3>1, <3>2
    <3>4. h[X] = val(X) /\ W(X)[X] = val(X)
      BY <1>5, <3>3
    <3>5. h[T] = f[c] + W(X)[X]
      BY <2>1, <3>1
    <3> QED
      BY <3>1, <3>4, <3>5
  <2>2. h[{}] = 0
    OBVIOUS
  <2> HIDE DEF val
  <2>3. h = [T \in SUBSET U |-> h[T]]
    OBVIOUS
  <2> HIDE DEF h
  <2> QED
    BY <2>1, <2>2, <2>3
<1>7. Sums(h, f, U)
  BY <1>6 DEF Sums
<1> QED
  BY <1>2, <1>7

\* The sum is the partial sum of all.
LEMMA TotalIs ==
    ASSUME NEW f, NEW S, IsFiniteSet(S), NEW g, Sums(g, f, S)
    PROVE  Total(f, S) = g[S]
<1>1. Total(f, S) = (CHOOSE h : Sums(h, f, S))[S]
  BY DEF Total, MapThenSumSet, MapThenFoldSet, Sums, Chosen
<1>2. PICK h : h = CHOOSE k : Sums(k, f, S)
  OBVIOUS
<1>3. Sums(h, f, S)
  BY <1>2
<1>4. h[S] = g[S]
  BY <1>3, SumsAgree
<1> QED
  BY <1>1, <1>2, <1>4

\* Sums by what the sum goes on with.
LEMMA TotalStep ==
    ASSUME NEW f, NEW S, IsFiniteSet(S)
    PROVE  /\ S = {} => Total(f, S) = 0
           /\ S # {} => \E c \in S : Total(f, S) = f[c] + Total(f, S \ {c})
<1>1. PICK g : Sums(g, f, S)
  BY SumsExist
<1>2. Total(f, S) = g[S] /\ S \in SUBSET S
  BY <1>1, TotalIs
<1>3. CASE S = {}
  BY <1>1, <1>2, <1>3, SumsAre
<1>4. CASE S # {}
  <2>1. PICK c, X : c = Chosen(S) /\ X = S \ {c}
    OBVIOUS
  <2>2. c \in S
    BY <1>4, <2>1 DEF Chosen
  <2>3. g[S] = f[c] + g[X]
    BY <1>1, <1>2, <1>4, <2>1, SumsAre
  <2>4. PICK h : Sums(h, f, X)
    <3>1. IsFiniteSet(X)
      BY <2>1, FS_Subset
    <3> QED
      BY <3>1, SumsExist
  <2>5. Total(f, X) = h[X] /\ h[X] = g[X]
    <3>1. IsFiniteSet(X) /\ X \in SUBSET S /\ X \in SUBSET X
      BY <2>1, FS_Subset
    <3>2. Total(f, X) = h[X]
      BY <2>4, <3>1, TotalIs
    <3>3. h[X] = g[X]
      BY <1>1, <2>4, <3>1, SumsAgree
    <3> QED
      BY <3>2, <3>3
  <2> QED
    BY <1>2, <2>1, <2>2, <2>3, <2>5
<1> QED
  BY <1>3, <1>4

\* f has integers on S.
Integers(f, S) == \A x \in S : f[x] \in Int

\* A sum of integers is one.
LEMMA TotalType ==
    ASSUME NEW f, NEW S, IsFiniteSet(S), Integers(f, S)
    PROVE  Total(f, S) \in Int
<1> DEFINE B == {U \in SUBSET S : Total(f, U) \notin Int}
<1> SUFFICES ASSUME B # {} PROVE FALSE
  OBVIOUS
<1>0. B \in SUBSET (SUBSET S)
  OBVIOUS
<1> HIDE DEF B
<1>1. PICK U \in B : \A V \in SUBSET U : V # U => V \notin B
  BY <1>0, SmallestSubset
<1>2. U \in SUBSET S /\ Total(f, U) \notin Int
  BY DEF B
<1>3. IsFiniteSet(U)
  BY <1>2, FS_Subset
<1>4. U # {}
  BY <1>2, <1>3, TotalStep
<1>5. PICK c \in U : Total(f, U) = f[c] + Total(f, U \ {c})
  BY <1>3, <1>4, TotalStep
<1>6. Total(f, U \ {c}) \in Int
  BY <1>1, <1>2 DEF B
<1>7. f[c] \in Int
  BY <1>2 DEF Integers
<1> QED
  BY <1>2, <1>5, <1>6, <1>7

\* Any element may go first.
LEMMA TotalRemove ==
    ASSUME NEW f, NEW S, IsFiniteSet(S), Integers(f, S), NEW a \in S
    PROVE  Total(f, S) = f[a] + Total(f, S \ {a})
<1> DEFINE B == {U \in SUBSET S : \E x \in U : Total(f, U) # f[x] + Total(f, U \ {x})}
<1> SUFFICES ASSUME B # {} PROVE FALSE
  OBVIOUS
<1>0. B \in SUBSET (SUBSET S)
  OBVIOUS
<1> HIDE DEF B
<1>1. PICK U \in B : \A V \in SUBSET U : V # U => V \notin B
  BY <1>0, SmallestSubset
<1>2. PICK x \in U : Total(f, U) # f[x] + Total(f, U \ {x})
  BY DEF B
<1>3. U \in SUBSET S /\ IsFiniteSet(U)
  BY FS_Subset DEF B
<1>4. PICK c \in U : Total(f, U) = f[c] + Total(f, U \ {c})
  BY <1>2, <1>3, TotalStep
<1>5. c # x
  BY <1>2, <1>4
<1>6. PICK X, C, O : X = U \ {x} /\ C = U \ {c} /\ O = U \ {x, c}
  OBVIOUS
<1>7. X \in SUBSET U /\ C \in SUBSET U /\ X # U /\ C # U /\ c \in X /\ x \in C
      /\ X \ {c} = O /\ C \ {x} = O
  BY <1>5, <1>6
<1>8. X \notin B /\ C \notin B /\ X \in SUBSET S /\ C \in SUBSET S
  BY <1>1, <1>3, <1>7
<1>9. Total(f, X) = f[c] + Total(f, O) /\ Total(f, C) = f[x] + Total(f, O)
  BY <1>7, <1>8 DEF B
<1>10. f[x] \in Int /\ f[c] \in Int /\ Total(f, O) \in Int
  <2>1. IsFiniteSet(O) /\ O \in SUBSET S
    BY <1>3, <1>6, FS_Subset
  <2> QED
    BY <1>3, <2>1, TotalType DEF Integers
<1>11. Total(f, U) = f[c] + Total(f, C) /\ Total(f, U) # f[x] + Total(f, X)
  BY <1>2, <1>4, <1>6
<1> QED
  BY <1>9, <1>10, <1>11

\* Sums of functions that agree on the set agree.
LEMMA TotalSame ==
    ASSUME NEW f, NEW g, NEW S, IsFiniteSet(S), \A x \in S : f[x] = g[x]
    PROVE  Total(f, S) = Total(g, S)
<1>1. PICK h : Sums(h, f, S)
  BY SumsExist
<1>2. Sums(h, g, S)
  <2>1. \A T \in SUBSET S : T # {} => f[Chosen(T)] = g[Chosen(T)]
    BY DEF Chosen
  <2>2. [T \in SUBSET S |-> IF T = {} THEN 0 ELSE f[Chosen(T)] + h[T \ {Chosen(T)}]]
        = [T \in SUBSET S |-> IF T = {} THEN 0 ELSE g[Chosen(T)] + h[T \ {Chosen(T)}]]
    BY <2>1
  <2> QED
    BY <1>1, <2>2 DEF Sums
<1> QED
  BY <1>1, <1>2, TotalIs

\* A sum grows as its element does.
LEMMA TotalChange ==
    ASSUME NEW f, NEW g, NEW S, IsFiniteSet(S), Integers(f, S), NEW a \in S, NEW c \in Int,
           g[a] = f[a] + c, \A x \in S : x # a => g[x] = f[x]
    PROVE  Total(g, S) = Total(f, S) + c
<1>1. PICK R : R = S \ {a}
  OBVIOUS
<1>2. IsFiniteSet(R) /\ Integers(f, R) /\ Integers(g, S)
  BY <1>1, FS_Subset DEF Integers
<1>3. Total(f, R) = Total(g, R)
  BY <1>1, <1>2, TotalSame
<1>4. Total(f, S) = f[a] + Total(f, R) /\ Total(g, S) = g[a] + Total(g, R)
  BY <1>1, <1>2, TotalRemove
<1>5. f[a] \in Int /\ Total(f, R) \in Int
  BY <1>2, TotalType DEF Integers
<1> QED
  BY <1>3, <1>4, <1>5

\* The sum of sums.
LEMMA TotalPlus ==
    ASSUME NEW f, NEW g, NEW h, NEW S, IsFiniteSet(S), Integers(f, S), Integers(g, S),
           \A x \in S : h[x] = f[x] + g[x]
    PROVE  Total(h, S) = Total(f, S) + Total(g, S)
<1> DEFINE B == {U \in SUBSET S : Total(h, U) # Total(f, U) + Total(g, U)}
<1> SUFFICES ASSUME B # {} PROVE FALSE
  OBVIOUS
<1>0. B \in SUBSET (SUBSET S)
  OBVIOUS
<1> HIDE DEF B
<1>1. PICK U \in B : \A V \in SUBSET U : V # U => V \notin B
  BY <1>0, SmallestSubset
<1>2. U \in SUBSET S /\ Total(h, U) # Total(f, U) + Total(g, U)
  BY DEF B
<1>3. IsFiniteSet(U) /\ Integers(f, U) /\ Integers(g, U) /\ Integers(h, U)
  BY <1>2, FS_Subset DEF Integers
<1>4. U # {}
  BY <1>2, <1>3, TotalStep
<1>5. PICK a \in U : TRUE
  BY <1>4
<1>6. PICK R : R = U \ {a}
  OBVIOUS
<1>7. Total(h, R) = Total(f, R) + Total(g, R)
  <2>1. R \in SUBSET U /\ R # U /\ R \in SUBSET S
    BY <1>2, <1>6
  <2> QED
    BY <1>1, <2>1 DEF B
<1>8. /\ Total(f, U) = f[a] + Total(f, R) /\ Total(g, U) = g[a] + Total(g, R)
      /\ Total(h, U) = h[a] + Total(h, R)
  BY <1>3, <1>6, TotalRemove
<1>9. /\ f[a] \in Int /\ g[a] \in Int /\ h[a] = f[a] + g[a]
      /\ Total(f, R) \in Int /\ Total(g, R) \in Int
  <2>1. IsFiniteSet(R) /\ Integers(f, R) /\ Integers(g, R)
    BY <1>3, <1>6, FS_Subset DEF Integers
  <2> QED
    BY <1>2, <1>3, <2>1, TotalType DEF Integers
<1> QED
  BY <1>2, <1>7, <1>8, <1>9

\* A sum of nothing but zeros.
LEMMA TotalZero ==
    ASSUME NEW f, NEW S, IsFiniteSet(S), \A x \in S : f[x] = 0
    PROVE  Total(f, S) = 0
<1>0. Integers(f, S)
  BY DEF Integers
<1>1. PICK t : t = Total(f, S)
  OBVIOUS
<1>2. t = t + t
  <2>1. Total(f, S) = Total(f, S) + Total(f, S)
    BY <1>0, TotalPlus
  <2> QED
    BY <1>1, <2>1
<1>3. t \in Int
  BY <1>0, <1>1, TotalType
<1>4. t = 0
  BY <1>2, <1>3
<1> QED
  BY <1>1, <1>4

-----------------------------------------------------------------------------
(* What battles that end in one turn move between the points of players.   *)

\* What player p gets of the battles T: battle d is between the player at[d] and d, and
\* moves A[d] points.
Share(A, at, T, p) == Total(A, {d \in T : at[d] = p}) + (IF p \in T THEN -A[p] ELSE 0)

\* All together get nothing.
LEMMA NothingIsLost ==
    ASSUME NEW S, IsFiniteSet(S), NEW A, Integers(A, S), NEW T \in SUBSET S,
           NEW at, \A d \in T : at[d] \in S
    PROVE  Total([p \in S |-> Share(A, at, T, p)], S) = 0
<1> DEFINE F(U) == [p \in S |-> Share(A, at, U, p)]
           B == {U \in SUBSET T : Total(F(U), S) # 0}
<1> SUFFICES ASSUME B # {} PROVE FALSE
  OBVIOUS
<1>0. IsFiniteSet(T) /\ B \in SUBSET (SUBSET T)
  BY FS_Subset
<1> HIDE DEF B
<1>1. PICK U \in B : \A V \in SUBSET U : V # U => V \notin B
  BY <1>0, SmallestSubset
<1>2. U \in SUBSET T /\ Total(F(U), S) # 0
  BY DEF B
<1>3. \A V \in SUBSET T : Integers(F(V), S)
  <2> SUFFICES ASSUME NEW V \in SUBSET T, NEW p \in S PROVE Share(A, at, V, p) \in Int
    BY DEF Integers
  <2> PICK Q : Q = {d \in V : at[d] = p}
    OBVIOUS
  <2>1. Q \in SUBSET S /\ IsFiniteSet(Q)
    BY FS_Subset
  <2>2. Integers(A, Q) /\ A[p] \in Int
    BY <2>1 DEF Integers
  <2>3. Total(A, Q) \in Int
    BY <2>1, <2>2, TotalType
  <2> QED
    BY <2>2, <2>3 DEF Share
<1>4. U # {}
  <2>1. ASSUME U = {}, NEW p \in S PROVE F(U)[p] = 0
    <3>1. {d \in U : at[d] = p} = {} /\ p \notin U /\ Total(A, {}) = 0
      BY <2>1, FS_EmptySet, TotalStep
    <3> QED
      BY <3>1 DEF Share
  <2>2. U = {} => Total(F(U), S) = 0
    <3> HIDE DEF F
    <3> QED
      BY <2>1, TotalZero
  <2> QED
    BY <1>2, <2>2
<1>5. PICK d \in U : TRUE
  BY <1>4
<1>6. PICK V, e, c : V = U \ {d} /\ e = at[d] /\ c = A[d]
  OBVIOUS
<1>7. d \in S /\ e \in S /\ c \in Int /\ V \in SUBSET T
  BY <1>2, <1>6 DEF Integers
<1>8. Total(F(V), S) = 0
  <2>1. V \in SUBSET U /\ V # U /\ V \in SUBSET T
    BY <1>2, <1>6
  <2> QED
    BY <1>1, <2>1 DEF B
<1> DEFINE G == [p \in S |-> IF p = e THEN F(V)[p] + c ELSE F(V)[p]]
<1>9. Total(G, S) = Total(F(V), S) + c /\ Integers(G, S)
  <2>1. Integers(F(V), S)
    BY <1>3, <1>7
  <2> HIDE DEF F
  <2>2. Integers(G, S) /\ G[e] = F(V)[e] + c /\ \A p \in S : p # e => G[p] = F(V)[p]
    BY <1>7, <2>1 DEF Integers
  <2> HIDE DEF G
  <2> QED
    BY <1>7, <2>1, <2>2, TotalChange
<1>10. ASSUME NEW p \in S
       PROVE  F(U)[p] = IF p = d THEN G[p] + -c ELSE G[p]
  <2> PICK P, Q : P = {x \in U : at[x] = p} /\ Q = {x \in V : at[x] = p}
    OBVIOUS
  <2>1. /\ F(U)[p] = Total(A, P) + (IF p \in U THEN -A[p] ELSE 0)
        /\ F(V)[p] = Total(A, Q) + (IF p \in V THEN -A[p] ELSE 0)
    BY DEF Share
  <2>2. P \in SUBSET S /\ Q \in SUBSET S /\ IsFiniteSet(P) /\ IsFiniteSet(Q)
        /\ Integers(A, P) /\ Integers(A, Q)
    BY <1>2, <1>7, FS_Subset DEF Integers
  <2>3. Total(A, P) = IF p = e THEN c + Total(A, Q) ELSE Total(A, Q)
    <3>1. CASE p = e
      <4>1. d \in P /\ Q = P \ {d}
        BY <1>6, <3>1
      <4> QED
        BY <1>6, <2>2, <3>1, <4>1, TotalRemove
    <3>2. CASE p # e
      <4>1. Q = P
        BY <1>6, <3>2
      <4> QED
        BY <3>2, <4>1
    <3> QED
      BY <3>1, <3>2
  <2>4. Total(A, Q) \in Int /\ A[p] \in Int
    BY <2>2, TotalType DEF Integers
  <2>5. (p \in U <=> p \in V \/ p = d) /\ d \notin V
    BY <1>6
  <2>6. G[p] = IF p = e THEN F(V)[p] + c ELSE F(V)[p]
    OBVIOUS
  <2> HIDE DEF F, G
  <2>7. CASE p = d
    <3>1. F(U)[p] = Total(A, P) + -c /\ F(V)[p] = Total(A, Q)
      BY <1>6, <2>1, <2>4, <2>5, <2>7
    <3> QED
      BY <1>7, <2>3, <2>4, <2>6, <2>7, <3>1
  <2>8. CASE p # d
    <3>1. PICK z : z = IF p \in V THEN -A[p] ELSE 0
      OBVIOUS
    <3>2. z \in Int /\ F(U)[p] = Total(A, P) + z /\ F(V)[p] = Total(A, Q) + z
      BY <2>1, <2>4, <2>5, <2>8, <3>1
    <3> QED
      BY <1>7, <2>3, <2>4, <2>6, <2>8, <3>2
  <2> QED
    BY <2>7, <2>8
<1>11. Total(F(U), S) = Total(G, S) + -c
  <2>1. F(U)[d] = G[d] + -c /\ \A p \in S : p # d => F(U)[p] = G[p]
    BY <1>7, <1>10
  <2>2. -c \in Int
    BY <1>7
  <2> HIDE DEF F, G
  <2> QED
    BY <1>7, <1>9, <2>1, <2>2, TotalChange
<1>12. Total(F(U), S) = 0
  <2> HIDE DEF F, G
  <2> QED
    BY <1>7, <1>8, <1>9, <1>11
<1> QED
  BY <1>2, <1>12

\* The points of all players after such a turn.
LEMMA PointsMove ==
    ASSUME NEW S, IsFiniteSet(S), NEW A, Integers(A, S), NEW T \in SUBSET S,
           NEW at, \A d \in T : at[d] \in S,
           NEW f \in [S -> Int], NEW g, \A p \in S : g[p] = f[p] + Share(A, at, T, p)
    PROVE  (\A p \in S : g[p] \in Int) /\ Total(g, S) = Total(f, S)
<1> DEFINE F == [p \in S |-> Share(A, at, T, p)]
<1>1. Total(F, S) = 0
  BY NothingIsLost
<1>2. \A p \in S : g[p] = f[p] + F[p]
  OBVIOUS
<1>3. \A p \in S : Share(A, at, T, p) \in Int
  <2> TAKE p \in S
  <2> PICK D : D = {d \in T : at[d] = p}
    OBVIOUS
  <2>1. D \in SUBSET S /\ IsFiniteSet(D)
    BY FS_Subset
  <2>2. Integers(A, D) /\ A[p] \in Int
    BY <2>1 DEF Integers
  <2>3. Total(A, D) \in Int
    BY <2>1, <2>2, TotalType
  <2> QED
    BY <2>2, <2>3 DEF Share
<1>4. Integers(f, S) /\ Integers(F, S)
  BY <1>3 DEF Integers
<1>5. \A p \in S : g[p] \in Int
  BY <1>3
<1> HIDE DEF F
<1>6. Total(g, S) = Total(f, S) + Total(F, S) /\ Total(f, S) \in Int
  BY <1>2, <1>4, TotalPlus, TotalType
<1> QED
  BY <1>1, <1>5, <1>6

-----------------------------------------------------------------------------
(* The inductive invariant.                                                *)

\* A battle, as far as the proofs look at it.
Battles == [number : Nat, atker : Uids, ticks : Nat, died : Nat, townhall : BOOLEAN,
            star : 0..3, start : BOOLEAN, atkPoint : Int, dfdPoint : Int, loot : Nat]

\* The table b of battles and the reports s: every battle in the table has a number of its
\* own and is not reported yet, and no result is reported twice.
TablesOK(b, s) ==
    /\ b = [d \in Uids |-> b[d]] /\ s \in Seq(Nat)
    /\ \A d \in Uids : b[d] # None => /\ b[d] \in Battles
                                         /\ b[d].number \in DOMAIN s /\ s[b[d].number] = 0
    /\ \A d \in Uids, e \in Uids :
           b[d] # None => (b[e] # None => (d # e => b[d].number # b[e].number))
    /\ \A n \in DOMAIN s : s[n] <= 1

\* What is queued, who attacked whom, and what is left to pop.
QueueOK ==
    /\ msgQueue \in Seq(Requests) /\ todo \in Nat
    /\ playerPairs \in [Uids -> Uids \cup {None}]
    /\ PopsWhatIsThere

\* The points of all players together are those they started with.
PointsOK ==
    /\ points \in [Uids -> Int]
    /\ Total(points, Uids) = Total(StartPoints, Uids)

PvpInv == QueueOK /\ PointsOK /\ TablesOK(battleMaps, settled)

\* What the handlers find in a request.
LEMMA RequestsAre ==
    ASSUME NEW r \in Requests
    PROVE  r.uid \in Uids /\ (r.id = "start" => r.other \in Uids \cup {None})
           /\ r.townhall \in BOOLEAN
<1>1. CASE r \in Others
  <2>1. PICK p \in Uids, id \in Ids \ {"start", "die"} : r = Request(p, id)
    BY <1>1 DEF Others, Players
  <2> QED
    BY <2>1 DEF Request, Ids
<1>2. CASE r \in Starts
  <2>1. PICK p \in Uids, d \in Uids \cup {None} :
           r = [Request(p, "start") EXCEPT !.other = d]
    BY <1>2 DEF Starts, Players
  <2> QED
    BY <2>1 DEF Request
<1>3. CASE r \in Dies
  <2> DEFINE D(p, b, t) == [Request(p, "die") EXCEPT !.building = b, !.townhall = b /\ t,
                                                     !.resource = b /\ ~t]
  <2>1. Dies = {D(p, b, t) : p \in Players, b \in BOOLEAN, t \in BOOLEAN}
    BY DEF Dies
  <2>2. PICK p \in Players, b \in BOOLEAN, t \in BOOLEAN : r = D(p, b, t)
    <3> HIDE DEF D
    <3> QED
      BY <1>3, <2>1
  <2> QED
    BY <2>2 DEF Request, Players
<1> QED
  BY <1>1, <1>2, <1>3 DEF Requests

\* The reports of the battles ds, which leave the table b.
ReportsOf(b, s, ds) == [n \in DOMAIN s |-> s[n] + Cardinality({d \in ds : b[d].number = n})]

\* Battles that leave the table are reported, those that stay keep their number.
LEMMA TablesKept ==
    ASSUME NEW b, NEW s, TablesOK(b, s),
           NEW ds \in SUBSET Uids, \A d \in ds : b[d] # None,
           NEW c, c = [d \in Uids |-> c[d]],
           \A d \in Uids : c[d] # None => /\ d \notin ds /\ b[d] # None
                                             /\ c[d] \in Battles /\ c[d].number = b[d].number
    PROVE  TablesOK(c, ReportsOf(b, s, ds))
<1> DEFINE t == ReportsOf(b, s, ds)
           G(n) == {d \in ds : b[d].number = n}
<1>1. s \in Seq(Nat) /\ DOMAIN s = 1..Len(s) /\ Len(s) \in Nat
  BY DEF TablesOK
<1>2. ASSUME NEW n \in DOMAIN s
      PROVE  /\ t[n] \in Nat /\ t[n] <= 1
             /\ G(n) = {} => t[n] = s[n]
  <2>1. s[n] \in Nat /\ s[n] <= 1
    BY <1>1, <1>2 DEF TablesOK
  <2>2. t[n] = s[n] + Cardinality(G(n))
    BY DEF ReportsOf
  <2>3. CASE G(n) = {}
    <3> HIDE DEF G, t
    <3>1. Cardinality(G(n)) = 0
      BY <2>3, FS_EmptySet
    <3> QED
      BY <2>1, <2>2, <3>1
  <2>4. CASE G(n) # {}
    <3>1. PICK d \in ds : b[d].number = n
      BY <2>4
    <3>2. \A e \in ds : b[e].number = n => e = d
      BY <3>1 DEF TablesOK
    <3>3. G(n) = {d}
      BY <3>1, <3>2
    <3>4. Cardinality(G(n)) = 1
      BY <3>3, FS_Singleton
    <3>5. s[n] = 0
      BY <3>1 DEF TablesOK
    <3> QED
      BY <2>2, <2>4, <3>4, <3>5
  <2> QED
    BY <2>3, <2>4
<1>3. DOMAIN t = DOMAIN s
  BY DEF ReportsOf
<1>4. t \in Seq(Nat)
  <2>1. t = [n \in 1..Len(s) |-> t[n]]
    BY <1>1 DEF ReportsOf
  <2> HIDE DEF t
  <2> QED
    BY <1>1, <1>2, <2>1
<1>5. ASSUME NEW d \in Uids, c[d] # None
      PROVE  c[d] \in Battles /\ c[d].number \in DOMAIN t /\ t[c[d].number] = 0
  <2>1. PICK n : n = b[d].number
    OBVIOUS
  <2>2. d \notin ds /\ b[d] # None /\ c[d].number = n /\ n \in DOMAIN s /\ s[n] = 0
    BY <1>5, <2>1 DEF TablesOK
  <2>3. G(n) = {}
    BY <2>1, <2>2 DEF TablesOK
  <2>4. t[n] = 0
    BY <1>2, <2>2, <2>3
  <2> QED
    BY <1>3, <1>5, <2>2, <2>4
<1>6. \A d \in Uids, e \in Uids :
          c[d] # None => (c[e] # None => (d # e => c[d].number # c[e].number))
  BY DEF TablesOK
<1> HIDE DEF t, G
<1> QED
  <2>1. TablesOK(c, t)
    BY <1>2, <1>3, <1>4, <1>5, <1>6 DEF TablesOK
  <2> QED
    BY <2>1 DEF t

\* Nothing is reported: the tables keep their order.
LEMMA TablesSame ==
    ASSUME NEW b, NEW s, TablesOK(b, s),
           NEW c, c = [d \in Uids |-> c[d]],
           \A d \in Uids : c[d] # None => /\ b[d] # None
                                             /\ c[d] \in Battles /\ c[d].number = b[d].number
    PROVE  TablesOK(c, s)
<1>1. TablesOK(c, ReportsOf(b, s, {}))
  BY TablesKept
<1>2. ReportsOf(b, s, {}) = s
  <2>1. \A n \in DOMAIN s : s[n] + Cardinality({d \in {} : b[d].number = n}) = s[n]
    <3> TAKE n \in DOMAIN s
    <3>1. s[n] \in Nat
      BY DEF TablesOK
    <3>2. {d \in {} : b[d].number = n} = {}
      OBVIOUS
    <3>3. Cardinality({}) = 0
      BY FS_EmptySet
    <3> QED
      BY <3>1, <3>2, <3>3
  <2>2. s = [n \in DOMAIN s |-> s[n]]
    BY DEF TablesOK
  <2> QED
    BY <2>1, <2>2 DEF ReportsOf
<1> QED
  BY <1>1, <1>2

\* What the attacker gets is an integer.
LEMMA GettedType ==
    ASSUME NEW b \in Battles
    PROVE  AtkerGettedPoint(b) \in Int
<1>1. b.atkPoint - b.dfdPoint \in Int /\ b.star \in 0..3
  BY DEF Battles
<1>2. ASSUME NEW n \in Int, NEW d \in {10, 20} PROVE Quotient(n, d) \in Int
  BY DEF Quotient
<1>3. b.star \div 3 \in Int
  BY <1>1
<1> PICK diff, q, x, y : /\ diff = b.atkPoint - b.dfdPoint /\ q = b.star \div 3
                         /\ x = Quotient(diff, 10) /\ y = Quotient(diff, 20)
  OBVIOUS
<1>4. x \in Int /\ y \in Int /\ q \in Int
  BY <1>1, <1>2, <1>3
<1>5. AtkerGettedPoint(b) = IF b.star > 0
                            THEN (30 - x) * q + (IF b.star = 3 THEN 6 ELSE 0)
                            ELSE -(20 + y)
  BY DEF AtkerGettedPoint, THREE_STAR_REWARD
<1>6. (30 - x) * q \in Int
  BY <1>4
<1> QED
  BY <1>4, <1>5, <1>6

\* What a set of battles brings its attackers, by the sum of what each brings.
LEMMA GainedIs ==
    ASSUME NEW D, IsFiniteSet(D), NEW A, \A d \in D : A[d] = AtkerGettedPoint(battleMaps[d])
    PROVE  MapThenSumSet(LAMBDA d : AtkerGettedPoint(battleMaps[d]), D) = Total(A, D)
<1> DEFINE Fights(g) == g = [T \in SUBSET D |-> IF T = {} THEN 0
                                ELSE AtkerGettedPoint(battleMaps[Chosen(T)]) + g[T \ {Chosen(T)}]]
<1>1. MapThenSumSet(LAMBDA d : AtkerGettedPoint(battleMaps[d]), D) = (CHOOSE g : Fights(g))[D]
  BY DEF MapThenSumSet, MapThenFoldSet, Chosen
<1>2. ASSUME NEW g PROVE Fights(g) <=> Sums(g, A, D)
  <2>1. \A T \in SUBSET D : T # {} => A[Chosen(T)] = AtkerGettedPoint(battleMaps[Chosen(T)])
    BY DEF Chosen
  <2>2. [T \in SUBSET D |-> IF T = {} THEN 0
            ELSE AtkerGettedPoint(battleMaps[Chosen(T)]) + g[T \ {Chosen(T)}]]
        = [T \in SUBSET D |-> IF T = {} THEN 0 ELSE A[Chosen(T)] + g[T \ {Chosen(T)}]]
    BY <2>1
  <2> QED
    BY <2>2 DEF Sums
<1>3. \E g : Fights(g)
  BY <1>2, SumsExist
<1> HIDE DEF Fights
<1>4. PICK h : h = CHOOSE g : Fights(g)
  OBVIOUS
<1>5. Fights(h)
  BY <1>3, <1>4
<1>6. Total(A, D) = h[D]
  BY <1>2, <1>5, TotalIs
<1> QED
  BY <1>1, <1>4, <1>6


\* It holds at the start.
LEMMA PvpInit == Init => PvpInv
<1> SUFFICES ASSUME Init PROVE PvpInv
  OBVIOUS
<1> USE PvpAssumption DEF Init
<1>1. QueueOK
  BY DEF QueueOK, PopsWhatIsThere
<1>2. PointsOK
  BY DEF PointsOK
<1>3. TablesOK(battleMaps, settled)
  BY DEF TablesOK
<1> QED
  BY <1>1, <1>2, <1>3 DEF PvpInv

\* A request that is popped is one; what is left to pop is still there.
LEMMA PopKeeps ==
    ASSUME QueueOK, NEW id, Pop(id), todo' \in {todo - 1, 0},
           playerPairs' \in [Uids -> Uids \cup {None}]
    PROVE  /\ QueueOK'
           /\ Head(msgQueue) \in Requests /\ uid \in Uids
           /\ id = "start" => Head(msgQueue).other \in Uids \cup {None}
<1>1. msgQueue \in Seq(Requests) /\ msgQueue # <<>> /\ todo \in Nat /\ todo > 0
      /\ todo <= Len(msgQueue)
  BY DEF QueueOK, Pop, PopCommon, PopsWhatIsThere
<1>2. Head(msgQueue) \in Requests /\ Tail(msgQueue) \in Seq(Requests)
      /\ Len(Tail(msgQueue)) = Len(msgQueue) - 1 /\ Len(msgQueue) \in Nat /\ Len(msgQueue) # 0
  BY <1>1, HeadTailProperties, EmptySeq
<1>3. msgQueue' = Tail(msgQueue) /\ Head(msgQueue).id = id
  BY DEF Pop
<1>4. uid \in Uids /\ (id = "start" => Head(msgQueue).other \in Uids \cup {None})
  BY <1>2, <1>3, RequestsAre DEF uid
<1> QED
  BY <1>1, <1>2, <1>3, <1>4 DEF QueueOK, PopsWhatIsThere

\* The peer of a player is a uid.
LEMMA PeerIs ==
    ASSUME QueueOK, TablesOK(battleMaps, settled), NEW u \in Uids
    PROVE  GetPeerUid(u) \in Uids
BY PvpAssumption DEF GetPeerUid, QueueOK, TablesOK, Battles

\* Battles that end at the order of a player.
LEMMA RetreatKeeps ==
    ASSUME TablesOK(battleMaps, settled), NEW d \in Uids, battleMaps[d] # None, Retreat(d)
    PROVE  TablesOK(battleMaps, settled)'
<1> PICK b, s, c, t : b = battleMaps /\ s = settled /\ c = battleMaps' /\ t = settled'
  OBVIOUS
<1>1. c = [b EXCEPT ![d] = None] /\ t = ReportsOf(b, s, {d})
  BY DEF Retreat, Reported, ReportsOf
<1>2. TablesOK(b, s) /\ b[d] # None
  OBVIOUS
<1>3. c = [x \in Uids |-> c[x]]
  BY <1>1, <1>2 DEF TablesOK
<1>4. \A x \in Uids : c[x] # None => x \notin {d} /\ c[x] = b[x]
  BY <1>1, <1>2 DEF TablesOK
<1>5. \A x \in Uids : c[x] # None => x \notin {d} /\ b[x] # None
                                        /\ c[x] \in Battles /\ c[x].number = b[x].number
  BY <1>2, <1>4 DEF TablesOK
<1>6. {d} \in SUBSET Uids /\ \A x \in {d} : b[x] # None
  BY <1>2
<1>7. TablesOK(c, ReportsOf(b, s, {d}))
  BY <1>2, <1>3, <1>5, <1>6, TablesKept
<1> QED
  BY <1>1, <1>7

\* Nothing is reported, and the battles in the table change but for their numbers.
LEMMA ChangeKeeps ==
    ASSUME TablesOK(battleMaps, settled), NEW d \in Uids,
           NEW r, battleMaps[d] # None => r \in Battles /\ r.number = battleMaps[d].number,
           battleMaps' = IF battleMaps[d] = None THEN battleMaps ELSE [battleMaps EXCEPT ![d] = r],
           settled' = settled
    PROVE  TablesOK(battleMaps, settled)'
<1> PICK b, s, c : b = battleMaps /\ s = settled /\ c = battleMaps'
  OBVIOUS
<1>1. TablesOK(b, s)
  OBVIOUS
<1>2. b = [x \in Uids |-> b[x]]
  BY <1>1 DEF TablesOK
<1>3. c = [x \in Uids |-> c[x]]
  BY <1>2
<1>4. \A x \in Uids : c[x] # None => b[x] # None /\ c[x] \in Battles
                                        /\ c[x].number = b[x].number
  <2> SUFFICES ASSUME NEW x \in Uids, c[x] # None
               PROVE  b[x] # None /\ c[x] \in Battles /\ c[x].number = b[x].number
    OBVIOUS
  <2>1. CASE b[d] # None /\ x = d
    BY <1>2, <2>1
  <2>2. CASE ~(b[d] # None /\ x = d)
    <3>1. c[x] = b[x]
      BY <1>2, <2>2
    <3> QED
      BY <1>1, <3>1 DEF TablesOK
  <2> QED
    BY <2>1, <2>2
<1>5. TablesOK(c, s)
  BY <1>1, <1>3, <1>4, TablesSame
<1> QED
  BY <1>5

\* A battle that begins has a number of its own.
LEMMA StartKeeps ==
    ASSUME TablesOK(battleMaps, settled), NEW a \in Uids, NEW d \in Uids,
           points \in [Uids -> Int],
           battleMaps' = [battleMaps EXCEPT ![d] = BattleMap(Len(settled) + 1, a)],
           settled' = Append(settled, 0)
    PROVE  TablesOK(battleMaps, settled)'
<1> PICK b, s, c, t, m : /\ b = battleMaps /\ s = settled /\ c = battleMaps' /\ t = settled'
                         /\ m = BattleMap(Len(settled) + 1, a)
  OBVIOUS
<1>1. TablesOK(b, s)
  OBVIOUS
<1>2. b = [x \in Uids |-> b[x]] /\ s \in Seq(Nat) /\ Len(s) \in Nat
      /\ DOMAIN s = 1..Len(s)
  BY <1>1 DEF TablesOK
<1>3. m \in Battles /\ m.number = Len(s) + 1
  BY <1>2 DEF BattleMap, GetPlayerPointsByID, Battles
<1>4. t \in Seq(Nat) /\ DOMAIN t = 1..(Len(s) + 1) /\ t[Len(s) + 1] = 0
      /\ \A n \in DOMAIN s : t[n] = s[n]
  <2>1. t = Append(s, 0)
    OBVIOUS
  <2> QED
    BY <1>2, <2>1
<1>5. c = [b EXCEPT ![d] = m]
  OBVIOUS
<1>6. c = [x \in Uids |-> c[x]] /\ c[d] = m /\ \A x \in Uids : x # d => c[x] = b[x]
  BY <1>2, <1>5
<1>7. ASSUME NEW x \in Uids, x # d, c[x] # None
      PROVE  /\ c[x] \in Battles /\ c[x].number \in 1..Len(s) /\ t[c[x].number] = 0
             /\ c[x] = b[x] /\ b[x] # None
  <2>1. c[x] = b[x]
    BY <1>6, <1>7
  <2>2. b[x] \in Battles /\ b[x].number \in DOMAIN s /\ s[b[x].number] = 0
    BY <1>1, <1>7, <2>1 DEF TablesOK
  <2> QED
    BY <1>2, <1>4, <1>7, <2>1, <2>2
<1>8. ASSUME NEW x \in Uids, c[x] # None
      PROVE  c[x] \in Battles /\ c[x].number \in DOMAIN t /\ t[c[x].number] = 0
  <2>1. CASE x = d
    BY <1>2, <1>3, <1>4, <1>6, <2>1
  <2>2. CASE x # d
    BY <1>2, <1>4, <1>7, <1>8, <2>2
  <2> QED
    BY <2>1, <2>2
<1>9. ASSUME NEW x \in Uids, NEW y \in Uids, c[x] # None, c[y] # None, x # y
      PROVE  c[x].number # c[y].number
  <2>1. CASE x = d
    <3>1. c[x].number = Len(s) + 1
      BY <1>3, <1>6, <2>1
    <3>2. c[y].number \in 1..Len(s)
      BY <1>7, <1>9, <2>1
    <3> QED
      BY <1>2, <3>1, <3>2
  <2>2. CASE y = d
    <3>1. c[y].number = Len(s) + 1
      BY <1>3, <1>6, <2>2
    <3>2. c[x].number \in 1..Len(s)
      BY <1>7, <1>9, <2>2
    <3> QED
      BY <1>2, <3>1, <3>2
  <2>3. CASE x # d /\ y # d
    <3>1. c[x] = b[x] /\ c[y] = b[y] /\ b[x] # None /\ b[y] # None
      BY <1>7, <1>9, <2>3
    <3> QED
      BY <1>1, <1>9, <3>1 DEF TablesOK
  <2> QED
    BY <2>1, <2>2, <2>3
<1>10. ASSUME NEW n \in DOMAIN t PROVE t[n] <= 1
  <2>1. CASE n = Len(s) + 1
    BY <1>4, <2>1
  <2>2. CASE n # Len(s) + 1
    <3>1. n \in DOMAIN s
      BY <1>2, <1>4, <1>10, <2>2
    <3> QED
      BY <1>1, <1>4, <3>1 DEF TablesOK
  <2> QED
    BY <2>1, <2>2
<1>11. TablesOK(c, t)
  BY <1>4, <1>6, <1>8, <1>9, <1>10 DEF TablesOK
<1> QED
  BY <1>11


\* The battles whose time is up end, and move points between players.
LEMMA UpdateKeeps ==
    ASSUME PvpInv, UpdateBattleMaps
    PROVE  PvpInv'
<1>0. PICK b, s, c, t, T : /\ b = battleMaps /\ s = settled /\ c = battleMaps' /\ t = settled'
                              /\ T = TimeUp
  OBVIOUS
<1>1. TablesOK(b, s) /\ points \in [Uids -> Int]
  BY <1>0 DEF PvpInv, PointsOK
<1>2. T \in SUBSET Uids /\ \A d \in T : b[d] # None
  BY <1>0 DEF TimeUp
<1>3. QueueOK'
  BY DEF PvpInv, QueueOK, PopsWhatIsThere, UpdateBattleMaps
<1>4. TablesOK(c, t)
  <2>1. t = ReportsOf(b, s, T)
    BY <1>0 DEF UpdateBattleMaps, Reported, ReportsOf
  <2>2. c = [d \in Uids |-> IF d \in T THEN None
                               ELSE IF b[d] # None /\ b[d].start THEN Ticked(b[d]) ELSE b[d]]
    BY <1>0 DEF UpdateBattleMaps
  <2>3. c = [d \in Uids |-> c[d]]
    BY <2>2
  <2>4. ASSUME NEW d \in Uids, c[d] # None
        PROVE  d \notin T /\ b[d] # None /\ c[d] \in Battles /\ c[d].number = b[d].number
    <3>1. d \notin T /\ (c[d] = b[d] \/ (b[d] # None /\ c[d] = Ticked(b[d])))
      BY <2>2, <2>4
    <3>2. b[d] # None
      BY <2>4, <3>1
    <3>3. b[d] \in Battles
      BY <1>1, <3>2 DEF TablesOK
    <3>4. CASE c[d] = b[d]
      BY <3>1, <3>2, <3>3, <3>4
    <3>5. CASE c[d] = Ticked(b[d])
      <4> PICK m : m = b[d]
        OBVIOUS
      <4>1. Ticked(m) \in Battles /\ Ticked(m).number = m.number
        BY <3>3 DEF Ticked, Battles
      <4> QED
        BY <3>1, <3>2, <3>5, <4>1
    <3> QED
      BY <3>1, <3>4, <3>5
  <2> QED
    BY <1>1, <1>2, <2>1, <2>3, <2>4, TablesKept
<1>5. PICK A, at : /\ A = [d \in Uids |-> IF b[d] # None THEN AtkerGettedPoint(b[d]) ELSE 0]
                      /\ at = [d \in Uids |-> b[d].atker]
  OBVIOUS
<1>6. Integers(A, Uids)
  <2> SUFFICES ASSUME NEW d \in Uids PROVE A[d] \in Int
    BY DEF Integers
  <2>1. b[d] # None => AtkerGettedPoint(b[d]) \in Int
    BY <1>1, GettedType DEF TablesOK
  <2> QED
    BY <1>5, <2>1
<1>7. \A d \in T : at[d] \in Uids /\ A[d] = AtkerGettedPoint(b[d])
  <2> TAKE d \in T
  <2>1. d \in Uids /\ b[d] # None /\ b[d] \in Battles
    BY <1>1, <1>2 DEF TablesOK
  <2> QED
    BY <1>5, <2>1 DEF Battles
<1>8. IsFiniteSet(Uids) /\ IsFiniteSet(T)
  BY <1>2, FS_Subset, PvpAssumption
<1>9. ASSUME NEW p \in Uids PROVE Gained(p) = Share(A, at, T, p)
  <2> PICK D : D = {d \in T : at[d] = p}
    OBVIOUS
  <2>1. D = {d \in TimeUp : battleMaps[d].atker = p}
    BY <1>0, <1>2, <1>5
  <2>2. IsFiniteSet(D)
    BY <1>8, FS_Subset
  <2>3. \A d \in D : A[d] = AtkerGettedPoint(battleMaps[d])
    BY <1>0, <1>5, <1>7
  <2>4. MapThenSumSet(LAMBDA d : AtkerGettedPoint(battleMaps[d]), D) = Total(A, D)
    BY <2>2, <2>3, GainedIs
  <2>5. Gained(p) = Total(A, D) + (IF p \in T THEN DfderGettedPoint(battleMaps[p]) ELSE 0)
    BY <1>0, <2>1, <2>4 DEF Gained
  <2>6. p \in T => DfderGettedPoint(battleMaps[p]) = -A[p]
    BY <1>0, <1>5, <1>7 DEF DfderGettedPoint
  <2> QED
    BY <2>5, <2>6 DEF Share
<1>10. PointsOK'
  <2>1. PICK f, g : f = points /\ g = points'
    OBVIOUS
  <2>2. g = [p \in Uids |-> f[p] + Gained(p)]
    BY <1>0, <2>1 DEF UpdateBattleMaps, PlusPlayerPoint
  <2>3. \A p \in Uids : g[p] = f[p] + Share(A, at, T, p)
    BY <1>9, <2>2
  <2>4. f \in [Uids -> Int] /\ \A d \in T : at[d] \in Uids
    BY <1>1, <1>7, <2>1
  <2>5. (\A p \in Uids : g[p] \in Int) /\ Total(g, Uids) = Total(f, Uids)
    BY <1>2, <1>6, <1>8, <2>3, <2>4, PointsMove
  <2>6. g \in [Uids -> Int]
    BY <2>2, <2>5
  <2> QED
    BY <2>1, <2>5, <2>6 DEF PvpInv, PointsOK
<1> QED
  BY <1>0, <1>3, <1>4, <1>10 DEF PvpInv

\* Every step keeps it.
LEMMA PvpStep == PvpInv /\ [Next]_vars => PvpInv'
<1> SUFFICES ASSUME PvpInv, [Next]_vars PROVE PvpInv'
  OBVIOUS
<1>1. /\ QueueOK /\ PointsOK /\ TablesOK(battleMaps, settled)
      /\ battleMaps = [d \in Uids |-> battleMaps[d]]
      /\ playerPairs \in [Uids -> Uids \cup {None}]
  BY DEF PvpInv, QueueOK, TablesOK
<1>2. CASE \E r \in Requests : Push(r)
  <2>1. PICK r \in Requests : Push(r)
    BY <1>2
  <2>2. QueueOK'
    BY <1>1, <2>1 DEF QueueOK, Push, PopsWhatIsThere, tables
  <2> QED
    BY <1>1, <2>1, <2>2 DEF PvpInv, PointsOK, Push, tables
<1>3. CASE Pulse \/ Poll \/ HandleEnds \/ UNCHANGED vars
  <2>1. QueueOK'
    BY <1>1, <1>3 DEF QueueOK, PopsWhatIsThere, Pulse, Poll, HandleEnds, tables, vars
  <2>2. UNCHANGED tables
    BY <1>3 DEF Pulse, Poll, HandleEnds, tables, vars
  <2> QED
    BY <1>1, <2>1, <2>2 DEF PvpInv, PointsOK, tables
<1>4. CASE HandleLogin
  <2>1. QueueOK' /\ uid \in Uids
    BY <1>1, <1>4, PopKeeps DEF HandleLogin, Continue
  <2>2. TablesOK(battleMaps, settled)'
    <3> PICK u, r : u = uid /\ r = [battleMaps[u] EXCEPT !.start = FALSE]
      OBVIOUS
    <3>1. battleMaps[u] # None => r \in Battles /\ r.number = battleMaps[u].number
      BY <1>1, <2>1 DEF TablesOK, Battles
    <3>2. battleMaps' = IF battleMaps[u] = None THEN battleMaps ELSE [battleMaps EXCEPT ![u] = r]
      BY <1>4 DEF HandleLogin
    <3>3. settled' = settled
      BY <1>4 DEF HandleLogin
    <3> QED
      BY <1>1, <2>1, <3>1, <3>2, <3>3, ChangeKeeps
  <2> QED
    BY <1>1, <1>4, <2>1, <2>2 DEF PvpInv, PointsOK, HandleLogin
<1>5. CASE HandleLogout
  <2>1. QueueOK' /\ uid \in Uids
    BY <1>1, <1>5, PopKeeps DEF HandleLogout, Continue
  <2>2. TablesOK(battleMaps, settled)'
    <3> PICK peer : peer = GetPeerUid(uid)
      OBVIOUS
    <3>1. CASE UNCHANGED <<battleMaps, settled>>
      BY <1>1, <3>1
    <3>2. CASE /\ IsAttackerOrDefender(uid) = 2 /\ GetBattleMap(peer) # None
               /\ Retreat(peer)
      <4>1. peer \in Uids /\ battleMaps[peer] # None
        BY <1>1, <2>1, <3>2, PeerIs DEF GetBattleMap
      <4> QED
        BY <1>1, <3>2, <4>1, RetreatKeeps
    <3> QED
      BY <1>5, <3>1, <3>2 DEF HandleLogout
  <2> QED
    BY <1>1, <1>5, <2>1, <2>2 DEF PvpInv, PointsOK, HandleLogout
<1>6. CASE HandleStartAttack
  <2> PICK a : a = uid
    OBVIOUS
  <2>1. Pop("start") /\ todo' = todo - 1 /\ points' = points
    BY <1>6 DEF HandleStartAttack, Continue
  <2>2. PICK d \in PlayerIDs(Head(msgQueue).other) :
           IF battleMaps[d] # None THEN UNCHANGED <<battleMaps, playerPairs, settled>>
           ELSE /\ battleMaps' = [battleMaps EXCEPT ![d] = BattleMap(Len(settled) + 1, uid)]
                /\ playerPairs' = [playerPairs EXCEPT ![uid] = d]
                /\ settled' = Append(settled, 0)
    BY <1>6 DEF HandleStartAttack
  <2>3. a \in Uids /\ d \in Uids
    <3>1. msgQueue \in Seq(Requests) /\ msgQueue # <<>> /\ Head(msgQueue).id = "start"
      BY <1>1, <2>1 DEF QueueOK, Pop, PopCommon
    <3>2. Head(msgQueue) \in Requests
      BY <3>1, HeadTailProperties
    <3> QED
      BY <2>2, <3>1, <3>2, RequestsAre DEF uid, PlayerIDs
  <2>4. playerPairs' \in [Uids -> Uids \cup {None}]
    BY <1>1, <2>2, <2>3
  <2>5. QueueOK'
    BY <1>1, <2>1, <2>4, PopKeeps
  <2>6. TablesOK(battleMaps, settled)'
    <3>1. CASE UNCHANGED <<battleMaps, settled>>
      BY <1>1, <3>1
    <3>2. CASE /\ battleMaps' = [battleMaps EXCEPT ![d] = BattleMap(Len(settled) + 1, a)]
               /\ settled' = Append(settled, 0)
      <4>1. points \in [Uids -> Int]
        BY <1>1 DEF PointsOK
      <4> QED
        BY <1>1, <2>3, <3>2, <4>1, StartKeeps
    <3> QED
      BY <2>2, <3>1, <3>2
  <2> QED
    BY <1>1, <2>1, <2>5, <2>6 DEF PvpInv, PointsOK
<1>7. CASE HandleObjectDie
  <2>1. QueueOK' /\ uid \in Uids /\ Head(msgQueue) \in Requests
    BY <1>1, <1>7, PopKeeps DEF HandleObjectDie, Continue
  <2>2. TablesOK(battleMaps, settled)'
    <3> PICK u, r, peer : u = uid /\ r = Head(msgQueue) /\ peer = GetPeerUid(uid)
      OBVIOUS
    <3> PICK b, h, hit : /\ b = GetBattleMap(peer)
                         /\ h = PlusDied([b EXCEPT !.townhall = @ \/ r.townhall])
                         /\ hit = Looted(h, r)
      OBVIOUS
    <3>1. CASE UNCHANGED <<battleMaps, settled>>
      BY <1>1, <3>1
    <3>2. CASE /\ b # None
               /\ battleMaps' = [battleMaps EXCEPT ![peer] = hit] /\ settled' = settled
      <4>1. peer \in Uids /\ b = battleMaps[peer] /\ b \in Battles
        <5>1. b = battleMaps[peer]
          BY <3>2 DEF GetBattleMap
        <5>2. peer \in Uids
          BY <1>1, <2>1, PeerIs
        <5> QED
          BY <1>1, <3>2, <5>1, <5>2 DEF TablesOK
      <4>2. r.townhall \in BOOLEAN
        BY <2>1, RequestsAre
      <4> PICK k : k = [b EXCEPT !.townhall = @ \/ r.townhall]
        OBVIOUS
      <4>3. k \in Battles /\ k.number = b.number
        BY <4>1, <4>2 DEF Battles
      <4>4. h \in Battles /\ h.number = b.number
        <5> PICK died, star, ratio :
              /\ died = IF k.died < BuildingNum THEN k.died + 1 ELSE k.died
              /\ ratio = died \div BuildingNum
              /\ star = IF ratio >= 1 THEN 3
                        ELSE IF 2 * ratio >= 1 THEN (IF k.townhall THEN 2 ELSE 1) ELSE k.star
          OBVIOUS
        <5>1. h = [k EXCEPT !.died = died, !.star = star]
          BY DEF PlusDied
        <5>2. died \in Nat /\ star \in 0..3
          BY <4>3, PvpAssumption DEF Battles
        <5> QED
          BY <4>3, <5>1, <5>2 DEF Battles
      <4>5. hit \in Battles /\ hit.number = b.number
        <5> PICK g : g = [h EXCEPT !.loot = @ + 1]
          OBVIOUS
        <5>1. h.loot + 1 \in Nat
          BY <4>4 DEF Battles
        <5>2. g \in Battles /\ g.number = h.number
          BY <4>4, <5>1 DEF Battles
        <5>3. hit = g \/ hit = h
          BY DEF Looted
        <5> QED
          BY <4>4, <5>2, <5>3
      <4>6. battleMaps' = IF battleMaps[peer] = None THEN battleMaps
                          ELSE [battleMaps EXCEPT ![peer] = hit]
        BY <3>2, <4>1
      <4>7. hit \in Battles /\ hit.number = battleMaps[peer].number
        BY <4>1, <4>5
      <4>8. settled' = settled /\ peer \in Uids /\ TablesOK(battleMaps, settled)
        BY <1>1, <3>2, <4>1
      <4> QED
        BY <4>6, <4>7, <4>8, ChangeKeeps
    <3> QED
      BY <1>7, <3>1, <3>2 DEF HandleObjectDie
  <2> QED
    BY <1>1, <1>7, <2>1, <2>2 DEF PvpInv, PointsOK, HandleObjectDie
<1>8. CASE ObjectDieCrashes
  <2>1. QueueOK'
    BY <1>1, <1>8 DEF QueueOK, PopsWhatIsThere, ObjectDieCrashes
  <2>2. TablesOK(battleMaps, settled)'
    <3> PICK b, s, c : b = battleMaps /\ s = settled /\ c = [p \in Uids |-> None]
      OBVIOUS
    <3>1. TablesOK(c, s)
      BY <1>1, TablesSame
    <3> QED
      BY <1>8, <3>1 DEF ObjectDieCrashes
  <2> QED
    BY <1>1, <1>8, <2>1, <2>2 DEF PvpInv, PointsOK, ObjectDieCrashes
<1>9. CASE HandleIsready
  <2>1. QueueOK' /\ uid \in Uids
    BY <1>1, <1>9, PopKeeps DEF HandleIsready, Continue
  <2>2. TablesOK(battleMaps, settled)'
    <3> PICK u, r : u = uid /\ r = [battleMaps[u] EXCEPT !.start = TRUE]
      OBVIOUS
    <3>1. battleMaps[u] # None => r \in Battles /\ r.number = battleMaps[u].number
      BY <1>1, <2>1 DEF TablesOK, Battles
    <3>2. settled' = settled
      BY <1>9 DEF HandleIsready
    <3>3. CASE battleMaps' = battleMaps
      BY <1>1, <3>2, <3>3
    <3>4. CASE battleMaps' = IF battleMaps[u] = None THEN battleMaps
                             ELSE [battleMaps EXCEPT ![u] = r]
      BY <1>1, <2>1, <3>1, <3>2, <3>4, ChangeKeeps
    <3> QED
      BY <1>9, <3>3, <3>4 DEF HandleIsready
  <2> QED
    BY <1>1, <1>9, <2>1, <2>2 DEF PvpInv, PointsOK, HandleIsready
<1>10. CASE HandleStopBattle
  <2>1. QueueOK' /\ uid \in Uids
    BY <1>1, <1>10, PopKeeps DEF HandleStopBattle, Continue
  <2>2. TablesOK(battleMaps, settled)'
    <3> PICK peer : peer = GetPeerUid(uid)
      OBVIOUS
    <3>1. CASE GetBattleMap(peer) = None
      BY <1>1, <1>10, <3>1 DEF HandleStopBattle
    <3>2. CASE GetBattleMap(peer) # None
      <4>1. battleMaps[peer] # None
        BY <3>2 DEF GetBattleMap
      <4>2. peer \in Uids
        BY <1>1, <2>1, PeerIs
      <4>3. Retreat(peer)
        BY <1>10, <3>2 DEF HandleStopBattle
      <4> QED
        BY <1>1, <4>1, <4>2, <4>3, RetreatKeeps
    <3> QED
      BY <3>1, <3>2
  <2> QED
    BY <1>1, <1>10, <2>1, <2>2 DEF PvpInv, PointsOK, HandleStopBattle
<1>11. CASE HandleRelay
  <2>1. QueueOK'
    BY <1>1, <1>11, PopKeeps DEF HandleRelay, Continue, PassedOn, tables
  <2> QED
    BY <1>1, <1>11, <2>1 DEF PvpInv, PointsOK, HandleRelay, PassedOn, tables
<1>12. CASE UpdateBattleMaps
  BY <1>12, UpdateKeeps
<1> QED
  BY <1>2, <1>3, <1>4, <1>5, <1>6, <1>7, <1>8, <1>9, <1>10, <1>11, <1>12
     DEF Next, MainLoop, HandleMsg

\* It is an invariant.
LEMMA PvpInvariant == Spec => []PvpInv
  BY PvpInit, PvpStep, PTL DEF Spec

\* PopsWhatIsThere: pop() never throws, however the threads interleave.
THEOREM PvpPops == Spec => []PopsWhatIsThere
<1>1. PvpInv => PopsWhatIsThere
  BY DEF PvpInv, QueueOK
<1> QED
  BY <1>1, PvpInvariant, PTL

\* BattlesSettled: updateBattleMaps, msgAtkerStopBattleRequest and LogoutRequest together
\* report a battle at most once, and no point is won or lost but between players.
THEOREM PvpSettles == Spec => []BattlesSettled
<1>1. PvpInv => BattlesSettled
  <2> SUFFICES ASSUME PvpInv PROVE BattlesSettled
    OBVIOUS
  <2>1. MapThenSumSet(LAMBDA p : points[p], Uids)
        = MapThenSumSet(LAMBDA p : StartPoints[p], Uids)
    BY DEF PvpInv, PointsOK, Total
  <2>2. /\ \A n \in DOMAIN settled : settled[n] <= 1
        /\ \A d \in Uids : battleMaps[d] # None => settled[battleMaps[d].number] = 0
    BY DEF PvpInv, TablesOK
  <2> QED
    BY <2>1, <2>2 DEF BattlesSettled
<1> QED
  BY <1>1, PvpInvariant, PTL


=============================================================================
