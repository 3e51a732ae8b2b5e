----------------------------- MODULE Recursion -----------------------------
(***************************************************************************)
(* Induction over natural numbers, and functions that are defined by       *)
(* recursion.  The induction theorems of the library take an operator as a *)
(* parameter; here a property is the set of the numbers that have it, and  *)
(* a step of a recursion is a function.                                    *)
(***************************************************************************)
EXTENDS Integers, FiniteSetTheorems, TLAPS

\* A set of natural numbers that is not empty has a least element. The library has
\* it that the finite sets are well-founded under inclusion; 1 .. n stands for n.
LEMMA Least ==
    ASSUME NEW T \in SUBSET Nat, T # {}
    PROVE  \E x \in T : \A y \in T : x <= y
<1> DEFINE Upto == {1 .. n : n \in T}
           R == StrictSubsetOrdering(Nat)
           F == FiniteSubsetsOf(Nat)
<1>1. \A n \in Nat : 1 .. n \in F
  <2>1. \A n \in Nat : IsFiniteSet(1 .. n) /\ 1 .. n \in SUBSET Nat
    BY FS_Interval
  <2> QED BY <2>1, Zenon DEF FiniteSubsetsOf
<1>2. Upto \subseteq F /\ Upto # {}
  BY <1>1
<1>3. IsWellFoundedOn(R, F)
  BY FS_StrictSubsetOrderingWellFounded
<1>4. \E I \in Upto : \A J \in Upto : <<J, I>> \notin R
  <2> HIDE DEF Upto, R, F
  <2> QED BY <1>2, <1>3, WFMin, Zenon
<1>5. PICK x \in T : \A y \in T : <<1 .. y, 1 .. x>> \notin R
  BY <1>4
<1>6. \A y \in Nat : y < x => <<1 .. y, 1 .. x>> \in R
  <2> TAKE y \in Nat
  <2> HAVE y < x
  <2>1. x \in 1 .. x /\ x \notin 1 .. y /\ 1 .. y \subseteq 1 .. x /\ 1 .. x \subseteq Nat
    OBVIOUS
  <2>2. 1 .. y # 1 .. x
    BY <2>1
  <2> QED BY <2>1, <2>2, Zenon DEF StrictSubsetOrdering
<1>7. \A y \in T : ~ (y < x)
  BY <1>5, <1>6
<1> QED BY <1>7

\* P holds 0 and, up to N, with every number the next.
Inductive(P, N) == 0 \in P /\ \A n \in 0 .. N : n \in P /\ n < N => n + 1 \in P

\* Induction over an interval: such a set holds all of it.
LEMMA Induct ==
    ASSUME NEW N \in Nat, NEW P, Inductive(P, N)
    PROVE  0 .. N \subseteq P
<1> USE DEF Inductive
<1> DEFINE Out == {n \in 0 .. N : n \notin P}
<1> SUFFICES ASSUME Out # {} PROVE FALSE
  OBVIOUS
<1>1. PICK x \in Out : \A y \in Out : x <= y
  <2>1. Out \in SUBSET Nat
    OBVIOUS
  <2> HIDE DEF Out
  <2> QED BY <2>1, Least
<1>2. x # 0 /\ x - 1 \in 0 .. N /\ x - 1 \notin Out
  BY <1>1
<1> QED BY <1>1, <1>2

\* Two functions that start alike and go on alike are alike.
GoAlike(f, g, N) ==
    /\ f[0] = g[0]
    /\ \A i \in 0 .. N : i < N /\ f[i] = g[i] => f[i + 1] = g[i + 1]

Alike(f, g, N) == \A i \in 0 .. N : f[i] = g[i]

\* Two functions that start alike and go on alike are alike.
LEMMA Agree ==
    ASSUME NEW N \in Nat, NEW f, NEW g, GoAlike(f, g, N)
    PROVE  Alike(f, g, N)
<1> USE DEF GoAlike, Alike
<1> DEFINE P == {i \in 0 .. N : f[i] = g[i]}
<1>1. 0 \in P
  OBVIOUS
<1>2. \A i \in 0 .. N : i \in P /\ i < N => i + 1 \in P
  OBVIOUS
<1>3. 0 .. N \subseteq P
  <2> HIDE DEF P
  <2>1. Inductive(P, N)
    BY <1>1, <1>2 DEF Inductive
  <2> QED BY <2>1, Induct, Zenon
<1> QED BY <1>3

\* G computes a function on D, with values in S, each from those of lower rank.
Computes(G, rank, K, D, S) ==
    /\ S # {} /\ rank \in [D -> 0 .. K] /\ G \in [[D -> S] -> [D -> S]]
    /\ \A f, g \in [D -> S], i \in D :
        (\A j \in D : rank[j] < rank[i] => f[j] = g[j]) => G[f][i] = G[g][i]

IsComputed(G, D, S) == \E d \in [D -> S] : d = G[d]

\* A function each of whose values is computed from those of lower rank exists.
LEMMA Recursive ==
    ASSUME NEW D, NEW S, NEW K \in Nat, NEW rank, NEW G, Computes(G, rank, K, D, S)
    PROVE  IsComputed(G, D, S)
<1> USE DEF Computes
<1> DEFINE Upto(k, f) == \A i \in D : rank[i] < k => f[i] = G[f][i]
           P == {k \in 0 .. K + 1 : \E f \in [D -> S] : Upto(k, f)}
<1>1. \A i \in D : rank[i] \in 0 .. K
  OBVIOUS
<1>2. 0 \in P
  <2>1. PICK s \in S : TRUE
    OBVIOUS
  <2>2. [i \in D |-> s] \in [D -> S]
    OBVIOUS
  <2>3. Upto(0, [i \in D |-> s]) /\ 0 \in 0 .. K + 1
    BY <1>1
  <2> HIDE DEF Upto
  <2> QED BY <2>2, <2>3
<1>3. ASSUME NEW k \in 0 .. K + 1, k \in P, k < K + 1 PROVE k + 1 \in P
  <2>1. PICK f \in [D -> S] : Upto(k, f)
    BY <1>3
  <2> DEFINE g == [i \in D |-> IF rank[i] < k THEN f[i] ELSE G[f][i]]
  <2>2. g \in [D -> S]
    OBVIOUS
  <2>3. ASSUME NEW i \in D, rank[i] < k + 1 PROVE g[i] = G[g][i]
    <3>1. \A j \in D : rank[j] < rank[i] => f[j] = g[j]
      BY <1>1, <2>3
    <3>2. G[f][i] = G[g][i]
      <4> HIDE DEF g
      <4> QED BY <2>2, <3>1
    <3>3. g[i] = G[f][i]
      BY <2>1, <2>3
    <3> QED BY <3>2, <3>3
  <2>4. Upto(k + 1, g) /\ k + 1 \in 0 .. K + 1
    <3> HIDE DEF g
    <3> QED BY <1>3, <2>3
  <2> HIDE DEF g, Upto
  <2> QED BY <2>2, <2>4
<1>4. K + 1 \in P
  <2>1. K + 1 \in Nat /\ K + 1 \in 0 .. K + 1
    OBVIOUS
  <2> HIDE DEF P
  <2>2. \A n \in 0 .. K + 1 : n \in P /\ n < K + 1 => n + 1 \in P
    BY <1>3
  <2>3. Inductive(P, K + 1)
    BY <1>2, <2>2 DEF Inductive
  <2>4. 0 .. K + 1 \subseteq P
    BY <2>1, <2>3, Induct, Zenon
  <2> QED BY <2>1, <2>4
<1>5. PICK d \in [D -> S] : \A i \in D : d[i] = G[d][i]
  BY <1>1, <1>4
<1>6. d = G[d]
  BY <1>5
<1> QED BY <1>6 DEF IsComputed

\* d starts with base and makes each value from the one before.
IsChain(d, base, Step, N, S) ==
    /\ d \in [0 .. N -> S]
    /\ d = [i \in 0 .. N |-> IF i = 0 THEN base ELSE Step[i][d[i - 1]]]

\* A function each of whose values is computed from the one before exists.
LEMMA Chain ==
    ASSUME NEW N \in Nat, NEW S, NEW base \in S, NEW Step, Step \in [1 .. N -> [S -> S]]
    PROVE  \E d : IsChain(d, base, Step, N, S)
<1> DEFINE D == 0 .. N
           G == [f \in [D -> S] |-> [i \in D |-> IF i = 0 THEN base ELSE Step[i][f[i - 1]]]]
           rank == [i \in D |-> i]
<1>1. rank \in [D -> 0 .. N] /\ S # {}
  OBVIOUS
<1>2. ASSUME NEW f \in [D -> S], NEW i \in D PROVE (IF i = 0 THEN base ELSE Step[i][f[i - 1]]) \in S
  <2>1. CASE i = 0
    BY <2>1
  <2>2. CASE i # 0
    <3>1. i \in 1 .. N /\ i - 1 \in D
      BY <2>2
    <3>2. Step[i] \in [S -> S] /\ f[i - 1] \in S
      BY <3>1
    <3> QED BY <2>2, <3>2
  <2> QED BY <2>1, <2>2
<1>3. G \in [[D -> S] -> [D -> S]]
  BY <1>2
<1>4. \A f, g \in [D -> S], i \in D :
          (\A j \in D : rank[j] < rank[i] => f[j] = g[j]) => G[f][i] = G[g][i]
  <2> TAKE f, g \in [D -> S], i \in D
  <2> HAVE \A j \in D : rank[j] < rank[i] => f[j] = g[j]
  <2>1. i # 0 => f[i - 1] = g[i - 1]
    OBVIOUS
  <2> QED BY <2>1
<1>5. Computes(G, rank, N, D, S)
  <2> HIDE DEF D, G, rank
  <2> QED BY <1>1, <1>3, <1>4 DEF Computes
<1>6. IsComputed(G, D, S)
  <2> HIDE DEF D, G, rank
  <2> QED BY <1>5, Recursive
<1> QED BY <1>6 DEF IsComputed, IsChain
=============================================================================
