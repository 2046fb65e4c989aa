--------------------------- MODULE Limits_proofs ---------------------------
(***************************************************************************)
(* What TLAPS proves about the limits: the fleet budgets, the token        *)
(* reservations and the two state backends, for any number of requests,    *)
(* budgets and limits and any amounts.                                     *)
(*                                                                         *)
(* The first part is about sums over finite sets of requests.  Induction   *)
(* is by a smallest counterexample: the strict subsets of a finite set are *)
(* well-founded, which FiniteSetTheorems states about sets of sets.        *)
(***************************************************************************)
EXTENDS SharedBudget, TokenLimit, StateBackend, FiniteSetTheorems, TLAPS

(* A collection of subsets of a finite set that has a set whenever it has  *)
(* all its strict subsets has them all.                                    *)
LEMMA AllSubsets ==
  ASSUME NEW S, IsFiniteSet(S), NEW P \in SUBSET SUBSET S,
         \A X \in SUBSET S : (\A Y \in SUBSET X : Y # X => Y \in P) => X \in P
  PROVE  \A X \in SUBSET S : X \in P
PROOF
<1> SUFFICES ASSUME (SUBSET S) \ P # {} PROVE FALSE
  OBVIOUS
<1> DEFINE R == StrictSubsetOrdering(S)
<1>1. IsWellFoundedOn(R, SUBSET S)
  <2>1. FiniteSubsetsOf(S) = SUBSET S
    BY FS_FiniteSubsetsOfFinite
  <2>2. IsWellFoundedOn(StrictSubsetOrdering(S), FiniteSubsetsOf(S))
    BY FS_StrictSubsetOrderingWellFounded
  <2> QED BY <2>1, <2>2
<1>2. \A X, Y \in SUBSET S : <<Y, X>> \in R <=> Y \subseteq X /\ Y # X
  BY DEF StrictSubsetOrdering
<1> HIDE DEF R
<1> DEFINE T == (SUBSET S) \ P
<1>3. T \subseteq SUBSET S /\ T # {}
  OBVIOUS
<1> HIDE DEF T
<1>4. PICK X \in T : \A Y \in T : ~ (<<Y, X>> \in R)
  BY <1>1, <1>3, WFMin
<1>5. X \in SUBSET S /\ X \notin P
  BY DEF T
<1>6. ASSUME NEW Y \in SUBSET X, Y # X PROVE Y \in P
  <2>1. Y \in SUBSET S
    BY <1>5
  <2>2. <<Y, X>> \in R
    BY <1>2, <1>5, <1>6, <2>1
  <2> QED BY <1>4, <2>1, <2>2 DEF T
<1> QED BY <1>5, <1>6

-----------------------------------------------------------------------------
(* Sums. *)

Picked(Y) == CHOOSE x \in Y : TRUE

(* g is the table of the sums of f over the subsets of X.                  *)
TableOn(g, f, X) ==
  g = [Y \in SUBSET X |-> IF Y = {} THEN 0 ELSE f[Picked(Y)] + g[Y \ {Picked(Y)}]]

SumTable(f, X) == CHOOSE g : TableOn(g, f, X)

(* The sum is the last entry of the table.                                 *)
LEMMA SumIsTable ==
  ASSUME NEW f, NEW X
  PROVE  SumFunctionOnSet(f, X) = SumTable(f, X)[X]
PROOF
  BY DEF SumFunctionOnSet, FoldFunctionOnSet, MapThenFoldSet, SumTable, TableOn, Picked

(* The entries of a table.                                                 *)
LEMMA TableEntries ==
  ASSUME NEW f, NEW X, NEW g, TableOn(g, f, X)
  PROVE  /\ g[{}] = 0
         /\ \A Y \in SUBSET X : Y # {} => g[Y] = f[Picked(Y)] + g[Y \ {Picked(Y)}]
PROOF
  BY DEF TableOn

(* A set that is not empty has the element picked from it.                 *)
LEMMA PickedIsIn ==
  ASSUME NEW Y, Y # {}
  PROVE  Picked(Y) \in Y
PROOF
  BY DEF Picked

(* Tables agree where both are defined.                                    *)
LEMMA TablesAgree ==
  ASSUME NEW f, NEW X, NEW Z, IsFiniteSet(X), NEW g, NEW h, TableOn(g, f, X), TableOn(h, f, Z)
  PROVE  \A Y \in SUBSET X : Y \subseteq Z => g[Y] = h[Y]
PROOF
<1> DEFINE P == {Y \in SUBSET X : Y \subseteq Z => g[Y] = h[Y]}
<1>1. ASSUME NEW Y \in SUBSET X, \A W \in SUBSET Y : W # Y => W \in P PROVE Y \in P
  <2> SUFFICES ASSUME Y \subseteq Z PROVE g[Y] = h[Y]
    OBVIOUS
  <2>1. CASE Y = {}
    BY <2>1, TableEntries
  <2>2. CASE Y # {}
    <3> DEFINE W == Y \ {Picked(Y)}
    <3>1. W \in SUBSET Y /\ W # Y /\ W \subseteq Z
      BY <2>2, PickedIsIn
    <3>2. g[W] = h[W]
      BY <1>1, <3>1
    <3>3. g[Y] = f[Picked(Y)] + g[W] /\ h[Y] = f[Picked(Y)] + h[W]
      <4>1. Y \in SUBSET Z
        OBVIOUS
      <4>2. \A V \in SUBSET X : V # {} => g[V] = f[Picked(V)] + g[V \ {Picked(V)}]
        BY TableEntries
      <4>3. \A V \in SUBSET Z : V # {} => h[V] = f[Picked(V)] + h[V \ {Picked(V)}]
        BY TableEntries
      <4> QED BY <2>2, <4>1, <4>2, <4>3
    <3> QED BY <3>2, <3>3
  <2> QED BY <2>1, <2>2
<1>2. P \in SUBSET SUBSET X
  OBVIOUS
<1> HIDE DEF P
<1>3. \A Y \in SUBSET X : Y \in P
  BY <1>1, <1>2, AllSubsets
<1> QED BY <1>3 DEF P

(* Every finite set has its table.                                         *)
LEMMA TableExists ==
  ASSUME NEW f, NEW S, IsFiniteSet(S)
  PROVE  \A X \in SUBSET S : TableOn(SumTable(f, X), f, X)
PROOF
<1> DEFINE G(Y) == SumTable(f, Y)
           P == {X \in SUBSET S : TableOn(G(X), f, X)}
<1>1. ASSUME NEW X \in SUBSET S, \A Y \in SUBSET X : Y # X => Y \in P PROVE X \in P
  <2> DEFINE rest == X \ {Picked(X)}
             h == [Y \in SUBSET X |-> IF Y # X THEN G(Y)[Y]
                                      ELSE IF X = {} THEN 0 ELSE f[Picked(X)] + G(rest)[rest]]
  <2>0. \A Y \in SUBSET X : Y # X => TableOn(G(Y), f, Y) /\ IsFiniteSet(Y)
    <3> SUFFICES ASSUME NEW Y \in SUBSET X, Y # X PROVE TableOn(G(Y), f, Y) /\ IsFiniteSet(Y)
      OBVIOUS
    <3>1. TableOn(G(Y), f, Y)
      BY <1>1
    <3>2. Y \in SUBSET S
      OBVIOUS
    <3>3. IsFiniteSet(Y)
      BY <3>2, FS_Subset
    <3> QED BY <3>1, <3>3
  <2>1. ASSUME NEW Y \in SUBSET X
        PROVE  h[Y] = IF Y = {} THEN 0 ELSE f[Picked(Y)] + h[Y \ {Picked(Y)}]
    <3> DEFINE W == Y \ {Picked(Y)}
    <3>1. CASE Y = X
      <4>1. CASE X = {}
        BY <3>1, <4>1
      <4>2. CASE X # {}
        <5>1. rest \in SUBSET X /\ rest # X
          BY <4>2, PickedIsIn
        <5>2. h[rest] = G(rest)[rest]
          BY <5>1
        <5>3. h[X] = f[Picked(X)] + G(rest)[rest]
          BY <4>2
        <5> QED BY <3>1, <4>2, <5>2, <5>3
      <4> QED BY <4>1, <4>2
    <3>2. CASE Y # X
      <4>0. h[Y] = G(Y)[Y] /\ TableOn(G(Y), f, Y)
        BY <2>0, <3>2
      <4>1. CASE Y = {}
        <5>1. G(Y)[Y] = 0
          BY <4>0, <4>1, TableEntries
        <5> QED BY <4>0, <4>1, <5>1
      <4>2. CASE Y # {}
        <5>1. W \in SUBSET Y /\ W # Y /\ W \in SUBSET X /\ W # X
          BY <3>2, <4>2, PickedIsIn
        <5>2. h[W] = G(W)[W] /\ TableOn(G(W), f, W) /\ IsFiniteSet(W)
          BY <2>0, <5>1
        <5>3. G(Y)[Y] = f[Picked(Y)] + G(Y)[W]
          <6>1. Y \in SUBSET Y
            OBVIOUS
          <6> QED BY <4>0, <4>2, <6>1, TableEntries
        <5>4. G(W)[W] = G(Y)[W]
          <6>1. W \in SUBSET W /\ W \subseteq Y
            OBVIOUS
          <6>2. \A V \in SUBSET W : V \subseteq Y => G(W)[V] = G(Y)[V]
            <7> DEFINE a == G(W)
                       b == G(Y)
            <7>1. TableOn(a, f, W)
              BY <5>2
            <7>2. TableOn(b, f, Y)
              BY <4>0
            <7>3. IsFiniteSet(W)
              BY <5>2
            <7> HIDE DEF a, b, W
            <7>4. \A V \in SUBSET W : V \subseteq Y => a[V] = b[V]
              BY <7>1, <7>2, <7>3, TablesAgree
            <7> QED BY <7>4 DEF a, b
          <6> QED BY <6>1, <6>2
        <5> QED BY <4>0, <4>2, <5>2, <5>3, <5>4
      <4> QED BY <4>1, <4>2
    <3> QED BY <3>1, <3>2
  <2>2. h = [Y \in SUBSET X |-> h[Y]]
    OBVIOUS
  <2> HIDE DEF h
  <2>3. h = [Y \in SUBSET X |-> IF Y = {} THEN 0 ELSE f[Picked(Y)] + h[Y \ {Picked(Y)}]]
    BY <2>1, <2>2
  <2>4. TableOn(h, f, X)
    BY <2>3 DEF TableOn
  <2>5. TableOn(G(X), f, X)
    BY <2>4 DEF SumTable
  <2> QED BY <2>5
<1>2. P \in SUBSET SUBSET S
  OBVIOUS
<1> HIDE DEF P
<1>3. \A X \in SUBSET S : X \in P
  BY <1>1, <1>2, AllSubsets
<1> QED BY <1>3 DEF P

(* The empty sum, and the sum without the element picked.                  *)
LEMMA SumSteps ==
  ASSUME NEW f, NEW D, IsFiniteSet(D)
  PROVE  /\ SumFunctionOnSet(f, {}) = 0
         /\ \A X \in SUBSET D : X # {} =>
              SumFunctionOnSet(f, X) = f[Picked(X)] + SumFunctionOnSet(f, X \ {Picked(X)})
PROOF
<1>0. \A X \in SUBSET D : TableOn(SumTable(f, X), f, X) /\ IsFiniteSet(X)
  BY TableExists, FS_Subset
<1>1. SumFunctionOnSet(f, {}) = 0
  <2>1. TableOn(SumTable(f, {}), f, {})
    BY <1>0
  <2>2. SumTable(f, {})[{}] = 0
    BY <2>1, TableEntries
  <2> QED BY <2>2, SumIsTable
<1>2. ASSUME NEW X \in SUBSET D, X # {}
      PROVE  SumFunctionOnSet(f, X) = f[Picked(X)] + SumFunctionOnSet(f, X \ {Picked(X)})
  <2> DEFINE W == X \ {Picked(X)}
             a == SumTable(f, W)
             b == SumTable(f, X)
  <2>1. W \in SUBSET D /\ W \in SUBSET W /\ W \subseteq X /\ X \in SUBSET X
    OBVIOUS
  <2>2. TableOn(a, f, W) /\ TableOn(b, f, X) /\ IsFiniteSet(W)
    BY <1>0, <2>1
  <2>3. SumFunctionOnSet(f, X) = b[X] /\ SumFunctionOnSet(f, W) = a[W]
    BY SumIsTable
  <2>4. b[X] = f[Picked(X)] + b[W]
    BY <1>2, <2>1, <2>2, TableEntries
  <2> HIDE DEF W, a, b
  <2>5. \A V \in SUBSET W : V \subseteq X => a[V] = b[V]
    BY <2>2, TablesAgree
  <2> QED BY <2>1, <2>3, <2>4, <2>5 DEF W
<1> QED BY <1>1, <1>2

(* Sums of numbers are numbers.                                            *)
LEMMA SumType ==
  ASSUME NEW D, IsFiniteSet(D), NEW f \in [D -> Nat]
  PROVE  \A X \in SUBSET D : SumFunctionOnSet(f, X) \in Nat
PROOF
<1> DEFINE P == {X \in SUBSET D : SumFunctionOnSet(f, X) \in Nat}
<1>1. ASSUME NEW X \in SUBSET D, \A Y \in SUBSET X : Y # X => Y \in P PROVE X \in P
  <2>1. CASE X = {}
    BY <2>1, SumSteps
  <2>2. CASE X # {}
    <3> DEFINE x == Picked(X)
    <3>1. x \in X
      BY <2>2, PickedIsIn
    <3>2. SumFunctionOnSet(f, X) = f[x] + SumFunctionOnSet(f, X \ {x})
      BY <2>2, SumSteps
    <3> HIDE DEF x
    <3>3. SumFunctionOnSet(f, X \ {x}) \in Nat /\ f[x] \in Nat
      BY <1>1, <3>1
    <3> QED BY <3>2, <3>3
  <2> QED BY <2>1, <2>2
<1>2. P \in SUBSET SUBSET D
  OBVIOUS
<1> HIDE DEF P
<1>3. \A X \in SUBSET D : X \in P
  BY <1>1, <1>2, AllSubsets
<1> QED BY <1>3 DEF P

(* Any element can be taken out of a sum.                                  *)
LEMMA SumElement ==
  ASSUME NEW D, IsFiniteSet(D), NEW f \in [D -> Nat]
  PROVE  \A X \in SUBSET D : \A x \in X :
           SumFunctionOnSet(f, X) = f[x] + SumFunctionOnSet(f, X \ {x})
PROOF
<1> DEFINE Sum(X) == SumFunctionOnSet(f, X)
           P == {X \in SUBSET D : \A x \in X : Sum(X) = f[x] + Sum(X \ {x})}
<1>0. \A X \in SUBSET D : Sum(X) \in Nat
  BY SumType
<1>1. ASSUME NEW X \in SUBSET D, \A Y \in SUBSET X : Y # X => Y \in P PROVE X \in P
  <2> SUFFICES ASSUME NEW x \in X PROVE Sum(X) = f[x] + Sum(X \ {x})
    OBVIOUS
  <2> DEFINE c == Picked(X)
  <2>1. c \in X /\ Sum(X) = f[c] + Sum(X \ {c})
    BY SumSteps, PickedIsIn
  <2> HIDE DEF c
  <2>2. CASE x = c
    BY <2>1, <2>2
  <2>3. CASE x # c
    <3> DEFINE both == (X \ {c}) \ {x}
    <3>1. both = (X \ {x}) \ {c} /\ both \in SUBSET D /\ f[x] \in Nat /\ f[c] \in Nat
      BY <2>1
    <3>2. X \ {c} \in P /\ x \in X \ {c}
      BY <1>1, <2>1, <2>3
    <3>3. X \ {x} \in P /\ c \in X \ {x}
      BY <1>1, <2>1, <2>3
    <3>4. Sum(X \ {c}) = f[x] + Sum(both)
      BY <3>2
    <3>5. Sum(X \ {x}) = f[c] + Sum((X \ {x}) \ {c})
      BY <3>3
    <3>6. Sum(X \ {x}) = f[c] + Sum(both) /\ Sum(both) \in Nat
      BY <1>0, <3>1, <3>5
    <3> HIDE DEF both
    <3> QED BY <2>1, <3>1, <3>4, <3>6
  <2> QED BY <2>2, <2>3
<1>2. P \in SUBSET SUBSET D
  OBVIOUS
<1> HIDE DEF P
<1>3. \A X \in SUBSET D : X \in P
  BY <1>1, <1>2, AllSubsets
<1> QED BY <1>3 DEF P

(* Smaller terms have a smaller sum.                                       *)
LEMMA SumAtMost ==
  ASSUME NEW D, IsFiniteSet(D), NEW f \in [D -> Nat], NEW g \in [D -> Nat]
  PROVE  \A X \in SUBSET D : (\A x \in X : f[x] <= g[x]) =>
           SumFunctionOnSet(f, X) <= SumFunctionOnSet(g, X)
PROOF
<1> DEFINE F(X) == SumFunctionOnSet(f, X)
           G(X) == SumFunctionOnSet(g, X)
           P == {X \in SUBSET D : (\A x \in X : f[x] <= g[x]) => F(X) <= G(X)}
<1>0. \A X \in SUBSET D : F(X) \in Nat /\ G(X) \in Nat
  BY SumType
<1>1. ASSUME NEW X \in SUBSET D, \A Y \in SUBSET X : Y # X => Y \in P PROVE X \in P
  <2> SUFFICES ASSUME \A x \in X : f[x] <= g[x] PROVE F(X) <= G(X)
    OBVIOUS
  <2>1. CASE X = {}
    <3>1. F({}) = 0 /\ G({}) = 0
      BY SumSteps
    <3> QED BY <2>1, <3>1
  <2>2. CASE X # {}
    <3>1. PICK x \in X : TRUE
      BY <2>2
    <3> DEFINE W == X \ {x}
    <3>2. F(X) = f[x] + F(W)
      BY SumElement
    <3>3. G(X) = g[x] + G(W)
      BY SumElement
    <3>4. W \in SUBSET X /\ W # X /\ W \in SUBSET D /\ \A y \in W : f[y] <= g[y]
      OBVIOUS
    <3>5. F(W) <= G(W)
      BY <1>1, <3>4
    <3>6. F(W) \in Nat /\ G(W) \in Nat /\ f[x] \in Nat /\ g[x] \in Nat /\ f[x] <= g[x]
      BY <1>0, <3>4
    <3> HIDE DEF W
    <3> QED BY <3>2, <3>3, <3>5, <3>6
  <2> QED BY <2>1, <2>2
<1>2. P \in SUBSET SUBSET D
  OBVIOUS
<1> HIDE DEF P
<1>3. \A X \in SUBSET D : X \in P
  BY <1>1, <1>2, AllSubsets
<1> QED BY <1>3 DEF P

(* Equal terms have equal sums.                                            *)
LEMMA SumSame ==
  ASSUME NEW D, IsFiniteSet(D), NEW f \in [D -> Nat], NEW g \in [D -> Nat],
         NEW X \in SUBSET D, \A x \in X : f[x] = g[x]
  PROVE  SumFunctionOnSet(f, X) = SumFunctionOnSet(g, X)
PROOF
<1>1. \A x \in X : f[x] <= g[x] /\ g[x] <= f[x]
  OBVIOUS
<1>2. SumFunctionOnSet(f, X) <= SumFunctionOnSet(g, X)
  BY <1>1, SumAtMost
<1>3. SumFunctionOnSet(g, X) <= SumFunctionOnSet(f, X)
  BY <1>1, SumAtMost
<1>4. SumFunctionOnSet(f, X) \in Nat /\ SumFunctionOnSet(g, X) \in Nat
  BY SumType
<1> QED BY <1>2, <1>3, <1>4

(* The sum over two sets without a common element.                         *)
LEMMA SumUnion ==
  ASSUME NEW D, IsFiniteSet(D), NEW f \in [D -> Nat], NEW Z \in SUBSET D
  PROVE  \A X \in SUBSET D : X \cap Z = {} =>
           SumFunctionOnSet(f, X \cup Z) = SumFunctionOnSet(f, X) + SumFunctionOnSet(f, Z)
PROOF
<1> DEFINE F(X) == SumFunctionOnSet(f, X)
           P == {X \in SUBSET D : X \cap Z = {} => F(X \cup Z) = F(X) + F(Z)}
<1>0. \A X \in SUBSET D : F(X) \in Nat
  BY SumType
<1>1. ASSUME NEW X \in SUBSET D, \A Y \in SUBSET X : Y # X => Y \in P PROVE X \in P
  <2> SUFFICES ASSUME X \cap Z = {} PROVE F(X \cup Z) = F(X) + F(Z)
    OBVIOUS
  <2>1. CASE X = {}
    <3>1. F({}) = 0 /\ X \cup Z = Z /\ F(Z) \in Nat
      BY <1>0, <2>1, SumSteps
    <3> QED BY <2>1, <3>1
  <2>2. CASE X # {}
    <3>1. PICK x \in X : TRUE
      BY <2>2
    <3> DEFINE W == X \ {x}
    <3>2. F(X) = f[x] + F(W)
      BY SumElement
    <3>3. F(X \cup Z) = f[x] + F(W \cup Z)
      <4>1. X \cup Z \in SUBSET D /\ x \in X \cup Z /\ (X \cup Z) \ {x} = W \cup Z
        OBVIOUS
      <4>2. F(X \cup Z) = f[x] + F((X \cup Z) \ {x})
        BY <4>1, SumElement
      <4> QED BY <4>1, <4>2
    <3>4. W \in SUBSET X /\ W # X /\ W \in SUBSET D /\ W \cap Z = {}
      OBVIOUS
    <3>5. F(W \cup Z) = F(W) + F(Z)
      BY <1>1, <3>4
    <3>6. F(W) \in Nat /\ F(Z) \in Nat /\ f[x] \in Nat
      BY <1>0, <3>4
    <3> HIDE DEF W
    <3> QED BY <3>2, <3>3, <3>5, <3>6
  <2> QED BY <2>1, <2>2
<1>2. P \in SUBSET SUBSET D
  OBVIOUS
<1> HIDE DEF P
<1>3. \A X \in SUBSET D : X \in P
  BY <1>1, <1>2, AllSubsets
<1> QED BY <1>3 DEF P

(* The sum over part of a set is at most the whole.                        *)
LEMMA SumSubset ==
  ASSUME NEW D, IsFiniteSet(D), NEW f \in [D -> Nat], NEW Y \in SUBSET D, NEW X \in SUBSET Y
  PROVE  /\ SumFunctionOnSet(f, Y) = SumFunctionOnSet(f, X) + SumFunctionOnSet(f, Y \ X)
         /\ SumFunctionOnSet(f, X) <= SumFunctionOnSet(f, Y)
PROOF
<1>1. X \in SUBSET D /\ Y \ X \in SUBSET D /\ X \cap (Y \ X) = {} /\ X \cup (Y \ X) = Y
  OBVIOUS
<1>2. SumFunctionOnSet(f, X \cup (Y \ X)) = SumFunctionOnSet(f, X) + SumFunctionOnSet(f, Y \ X)
  BY <1>1, SumUnion
<1>3. SumFunctionOnSet(f, X) \in Nat /\ SumFunctionOnSet(f, Y \ X) \in Nat
  BY <1>1, SumType
<1>4. SumFunctionOnSet(f, Y) = SumFunctionOnSet(f, X) + SumFunctionOnSet(f, Y \ X)
  BY <1>1, <1>2
<1>5. SumFunctionOnSet(f, X) <= SumFunctionOnSet(f, Y)
  BY <1>3, <1>4
<1> QED BY <1>4, <1>5

(* One term changes.                                                       *)
LEMMA SumChange ==
  ASSUME NEW D, IsFiniteSet(D), NEW f \in [D -> Nat], NEW g \in [D -> Nat],
         NEW X \in SUBSET D, NEW x \in X, \A y \in X \ {x} : f[y] = g[y]
  PROVE  SumFunctionOnSet(g, X) = (SumFunctionOnSet(f, X) - f[x]) + g[x]
PROOF
<1>1. SumFunctionOnSet(f, X) = f[x] + SumFunctionOnSet(f, X \ {x})
  BY SumElement
<1>2. SumFunctionOnSet(g, X) = g[x] + SumFunctionOnSet(g, X \ {x})
  BY SumElement
<1>3. X \ {x} \in SUBSET D
  OBVIOUS
<1>4. SumFunctionOnSet(f, X \ {x}) = SumFunctionOnSet(g, X \ {x})
  BY <1>3, SumSame
<1>5. SumFunctionOnSet(f, X \ {x}) \in Nat /\ f[x] \in Nat /\ g[x] \in Nat
  BY <1>3, SumType
<1> QED BY <1>1, <1>2, <1>4, <1>5

(* A sum of zeros.                                                         *)
LEMMA SumZero ==
  ASSUME NEW D, IsFiniteSet(D), NEW f \in [D -> Nat], NEW X \in SUBSET D, \A x \in X : f[x] = 0
  PROVE  SumFunctionOnSet(f, X) = 0
PROOF
<1> DEFINE P == {Y \in SUBSET X : SumFunctionOnSet(f, Y) = 0}
<1>0. IsFiniteSet(X)
  BY FS_Subset
<1>1. ASSUME NEW Y \in SUBSET X, \A W \in SUBSET Y : W # Y => W \in P PROVE Y \in P
  <2>1. CASE Y = {}
    BY <2>1, SumSteps
  <2>2. CASE Y # {}
    <3>1. PICK y \in Y : TRUE
      BY <2>2
    <3>2. Y \in SUBSET D /\ f[y] = 0
      OBVIOUS
    <3>3. SumFunctionOnSet(f, Y) = f[y] + SumFunctionOnSet(f, Y \ {y})
      BY <3>2, SumElement
    <3>4. Y \ {y} \in P
      BY <1>1, <3>1
    <3> QED BY <3>2, <3>3, <3>4
  <2> QED BY <2>1, <2>2
<1>2. P \in SUBSET SUBSET X
  OBVIOUS
<1> HIDE DEF P
<1>3. \A Y \in SUBSET X : Y \in P
  BY <1>0, <1>1, <1>2, AllSubsets
<1> QED BY <1>3 DEF P

-----------------------------------------------------------------------------
(* The inductive invariant. *)

InFlight(q) == phase[q] \in {"delivering", "recording"}

(* A delivery costs nothing before its answer and never more than was      *)
(* reserved for it.                                                        *)
CostsFit ==
  /\ \A q \in Requests : cost[q] <= Amount[q]
  /\ \A q \in Requests : phase[q] \in {"idle", "allowed", "delivering"} => cost[q] = 0

(* Only a request that is over is released in the background.              *)
ReleasesAreLate == \A q \in Requests : q \in releasing => phase[q] = "done"

(* The reservation is in every ledger of the request, and the keys that    *)
(* hold it outlive it.                                                     *)
StoredIn(q) ==
  /\ left[q] > 0
  /\ \A s \in placed[q] : amounts[s][q] = Amount[q] /\ key_left[s] >= left[q]

(* A covered delivery has its reservation.                                 *)
InFlightIsStored == \A q \in Requests : InFlight(q) /\ q \notin uncovered => StoredIn(q)

(* What the covered requests that are over cost ledger s.                  *)
BookedCost(s) ==
  [q \in Requests |->
     IF q \notin uncovered /\ s \in billed[q] /\ ~InFlight(q) THEN cost[q] ELSE 0]

(* The ledger has booked it.                                               *)
CostsAreBooked == \A s \in Ledgers : SumFunctionOnSet(BookedCost(s), Requests) <= realized[s]

IInv ==
  /\ TypeOK /\ CostsFit /\ ReleasesAreLate /\ InFlightIsStored /\ CostsAreBooked
  /\ ReservedCovers /\ HardCap

(* What the covered online requests have cost ledger s or may still cost.  *)
ExposedCost(s) ==
  [q \in Requests |-> IF q \notin Offline \union uncovered /\ s \in Covers(q) THEN Exposure(q) ELSE 0]

(* The ledgers of the blocking budgets.                                    *)
HardLedgers == {s \in Ledgers : Scope(s) \in Hard}

(* The step leaves q no larger a claim on any ledger.                      *)
NoDearer(q) ==
  \/ Exposure(q)' = 0
  \/ Exposure(q)' <= Exposure(q) /\ Covers(q)' \subseteq Covers(q)

(* The dates of a request name ledgers.                                    *)
LEMMA LedgersType ==
  ASSUME NEW q \in Requests, NEW date \in 0..MaxDate
  PROVE  LedgersOf(q, date) \in SUBSET Ledgers
PROOF
<1> SUFFICES ASSUME NEW s \in ScopesOf[q] PROVE <<s, budget_period(date, BudgetWindow[s])>> \in Ledgers
  BY DEF LedgersOf
<1>1. s \in Scopes
  BY ScopesOfAssumption
<1>2. budget_period(date, BudgetWindow[s]) \in 0..MaxDate
  BY <1>1, BudgetWindowAssumption, MonthAssumption DEF budget_period
<1> QED BY <1>1, <1>2 DEF Ledgers

(* A blocking ledger has a limit.                                          *)
LEMMA HardLimits == \A s \in HardLedgers : s \in Ledgers /\ Limit[Scope(s)] \in Nat
PROOF BY HardAssumption, LimitAssumption DEF HardLedgers

-----------------------------------------------------------------------------
(* More on sums: over part of the requests, and of two terms. *)

(* A sum over a part is a sum over all with zeros elsewhere.               *)
LEMMA SumRestrict ==
  ASSUME NEW D, IsFiniteSet(D), NEW f \in [D -> Nat], NEW g \in [D -> Nat], NEW X \in SUBSET D,
         \A x \in X : g[x] = f[x], \A x \in D \ X : g[x] = 0
  PROVE  SumFunctionOnSet(f, X) = SumFunctionOnSet(g, D)
PROOF
<1>1. D \in SUBSET D /\ D \ X \in SUBSET D
  OBVIOUS
<1>2. SumFunctionOnSet(g, D) = SumFunctionOnSet(g, X) + SumFunctionOnSet(g, D \ X)
  BY <1>1, SumSubset
<1>3. SumFunctionOnSet(g, D \ X) = 0
  BY <1>1, SumZero
<1>4. SumFunctionOnSet(g, X) = SumFunctionOnSet(f, X)
  BY SumSame
<1>5. SumFunctionOnSet(g, X) \in Nat
  BY SumType
<1> QED BY <1>2, <1>3, <1>4, <1>5

(* Terms bounded by two others.                                            *)
LEMMA SumPlus ==
  ASSUME NEW D, IsFiniteSet(D), NEW e \in [D -> Nat], NEW f \in [D -> Nat], NEW g \in [D -> Nat],
         \A x \in D : e[x] <= f[x] + g[x]
  PROVE  SumFunctionOnSet(e, D) <= SumFunctionOnSet(f, D) + SumFunctionOnSet(g, D)
PROOF
<1> DEFINE E(X) == SumFunctionOnSet(e, X)
           F(X) == SumFunctionOnSet(f, X)
           G(X) == SumFunctionOnSet(g, X)
           P == {X \in SUBSET D : E(X) <= F(X) + G(X)}
<1>0. \A X \in SUBSET D : E(X) \in Nat /\ F(X) \in Nat /\ G(X) \in Nat
  BY SumType
<1>1. ASSUME NEW X \in SUBSET D, \A Y \in SUBSET X : Y # X => Y \in P PROVE X \in P
  <2>1. CASE X = {}
    <3>1. E({}) = 0 /\ F({}) = 0 /\ G({}) = 0
      BY SumSteps
    <3> QED BY <2>1, <3>1
  <2>2. CASE X # {}
    <3>1. PICK x \in X : TRUE
      BY <2>2
    <3> DEFINE W == X \ {x}
    <3>2. E(X) = e[x] + E(W)
      BY SumElement
    <3>3. F(X) = f[x] + F(W)
      BY SumElement
    <3>4. G(X) = g[x] + G(W)
      BY SumElement
    <3>5. W \in SUBSET X /\ W # X /\ W \in SUBSET D
      OBVIOUS
    <3>6. E(W) <= F(W) + G(W)
      BY <1>1, <3>5
    <3>7. /\ E(W) \in Nat /\ F(W) \in Nat /\ G(W) \in Nat
          /\ e[x] \in Nat /\ f[x] \in Nat /\ g[x] \in Nat /\ e[x] <= f[x] + g[x]
      BY <1>0, <3>5
    <3> HIDE DEF W
    <3>8. E(X) <= F(X) + G(X)
      BY <3>2, <3>3, <3>4, <3>6, <3>7
    <3> QED BY <3>8
  <2> QED BY <2>1, <2>2
<1>2. P \in SUBSET SUBSET D
  OBVIOUS
<1> HIDE DEF P
<1>3. \A X \in SUBSET D : X \in P
  BY <1>1, <1>2, AllSubsets
<1> QED BY <1>3 DEF P

-----------------------------------------------------------------------------
(* What the invariant says of a state. *)

(* The terms of the sums are numbers.                                      *)
LEMMA TermTypes ==
  TypeOK => \A s \in Ledgers :
             /\ BookedCost(s) \in [Requests -> Nat] /\ ExposedCost(s) \in [Requests -> Nat]
             /\ amounts[s] \in [Requests -> Nat]
             /\ SumFunctionOnSet(BookedCost(s), Requests) \in Nat
             /\ SumFunctionOnSet(ExposedCost(s), Requests) \in Nat
             /\ SumFunctionOnSet(amounts[s], Requests) \in Nat
             /\ SumFunction(amounts[s]) = SumFunctionOnSet(amounts[s], Requests)
PROOF
<1> SUFFICES ASSUME TypeOK, NEW s \in Ledgers
             PROVE  /\ BookedCost(s) \in [Requests -> Nat] /\ ExposedCost(s) \in [Requests -> Nat]
                    /\ amounts[s] \in [Requests -> Nat]
                    /\ SumFunctionOnSet(BookedCost(s), Requests) \in Nat
                    /\ SumFunctionOnSet(ExposedCost(s), Requests) \in Nat
                    /\ SumFunctionOnSet(amounts[s], Requests) \in Nat
                    /\ SumFunction(amounts[s]) = SumFunctionOnSet(amounts[s], Requests)
  OBVIOUS
<1>1. BookedCost(s) \in [Requests -> Nat]
  BY DEF TypeOK, BookedCost
<1>2. ExposedCost(s) \in [Requests -> Nat]
  BY AmountAssumption DEF TypeOK, ExposedCost, Exposure
<1>3. amounts[s] \in [Requests -> Nat] /\ DOMAIN amounts[s] = Requests
  BY DEF TypeOK
<1>4. Requests \in SUBSET Requests
  OBVIOUS
<1>5. SumFunctionOnSet(BookedCost(s), Requests) \in Nat
  BY <1>1, <1>4, RequestsAssumption, SumType
<1>6. SumFunctionOnSet(ExposedCost(s), Requests) \in Nat
  BY <1>2, <1>4, RequestsAssumption, SumType
<1>7. SumFunctionOnSet(amounts[s], Requests) \in Nat
  BY <1>3, <1>4, RequestsAssumption, SumType
<1> QED BY <1>1, <1>2, <1>3, <1>5, <1>6, <1>7 DEF SumFunction

(* The same of the state after a step.                                     *)
LEMMA TermTypesNext ==
 (TypeOK => \A s \in Ledgers :
             /\ BookedCost(s) \in [Requests -> Nat] /\ ExposedCost(s) \in [Requests -> Nat]
             /\ amounts[s] \in [Requests -> Nat]
             /\ SumFunctionOnSet(BookedCost(s), Requests) \in Nat
             /\ SumFunctionOnSet(ExposedCost(s), Requests) \in Nat
             /\ SumFunctionOnSet(amounts[s], Requests) \in Nat
             /\ SumFunction(amounts[s]) = SumFunctionOnSet(amounts[s], Requests))'
PROOF BY TermTypes, PTL

(* The hard cap as a sum over all requests.                                *)
LEMMA CapIsSum ==
  TypeOK => (HardCap <=> \A s \in HardLedgers : SumFunctionOnSet(ExposedCost(s), Requests) <= Limit[Scope(s)])
PROOF
<1> SUFFICES ASSUME TypeOK
             PROVE  HardCap <=> \A s \in HardLedgers : SumFunctionOnSet(ExposedCost(s), Requests) <= Limit[Scope(s)]
  OBVIOUS
<1> DEFINE e == [q \in Requests |-> Exposure(q)]
           C(s) == {q \in Requests \ (Offline \union uncovered) : s \in Covers(q)}
<1>1. ASSUME NEW s \in HardLedgers PROVE SumFunctionOnSet(e, C(s)) = SumFunctionOnSet(ExposedCost(s), Requests)
  <2>1. e \in [Requests -> Nat]
    BY AmountAssumption DEF TypeOK, Exposure
  <2>2. ExposedCost(s) \in [Requests -> Nat]
    BY <1>1, HardLimits, TermTypes
  <2> DEFINE X == C(s)
             g == ExposedCost(s)
  <2>3. X \in SUBSET Requests
    OBVIOUS
  <2>4. \A x \in X : g[x] = e[x]
    BY DEF ExposedCost
  <2>5. \A x \in Requests \ X : g[x] = 0
    BY DEF ExposedCost
  <2>6. IsFiniteSet(Requests)
    BY RequestsAssumption
  <2> HIDE DEF e, X, g
  <2>7. SumFunctionOnSet(e, X) = SumFunctionOnSet(g, Requests)
    BY <2>1, <2>2, <2>3, <2>4, <2>5, <2>6, SumRestrict DEF g
  <2> QED BY <2>7 DEF X, g
<1>2. HardCap <=> \A s \in HardLedgers : SumFunctionOnSet(e, C(s)) <= Limit[Scope(s)]
  BY DEF HardCap, HardLedgers
<1> HIDE DEF e, C
<1> QED BY <1>1, <1>2

(* What covered requests cost, or may come to cost, is booked or reserved. *)
LEMMA ExposureIsCovered ==
  TypeOK /\ CostsFit /\ InFlightIsStored /\ CostsAreBooked /\ ReservedCovers =>
    \A s \in Ledgers : SumFunctionOnSet(ExposedCost(s), Requests) <= realized[s] + reserved[s]
PROOF
<1> SUFFICES ASSUME TypeOK, CostsFit, InFlightIsStored, CostsAreBooked, ReservedCovers, NEW s \in Ledgers
             PROVE  SumFunctionOnSet(ExposedCost(s), Requests) <= realized[s] + reserved[s]
  OBVIOUS
<1> DEFINE e == ExposedCost(s)
           f == BookedCost(s)
           g == amounts[s]
<1>1. /\ e \in [Requests -> Nat] /\ f \in [Requests -> Nat] /\ g \in [Requests -> Nat]
      /\ SumFunctionOnSet(e, Requests) \in Nat /\ SumFunctionOnSet(f, Requests) \in Nat
      /\ SumFunctionOnSet(g, Requests) \in Nat
      /\ SumFunction(g) = SumFunctionOnSet(g, Requests)
  BY TermTypes
<1>2. ASSUME NEW x \in Requests PROVE e[x] <= f[x] + g[x]
  <2>0. e[x] \in Nat /\ f[x] \in Nat /\ g[x] \in Nat /\ cost[x] \in Nat /\ Amount[x] \in Nat
    BY <1>1, AmountAssumption DEF TypeOK
  <2>1. CASE x \in Offline \union uncovered \/ s \notin Covers(x)
    <3>1. e[x] = 0
      BY <2>1 DEF ExposedCost
    <3> HIDE DEF e, f, g
    <3> QED BY <2>0, <3>1
  <2>2. CASE x \notin Offline \union uncovered /\ s \in Covers(x) /\ InFlight(x)
    <3>1. e[x] = Exposure(x)
      BY <2>2 DEF ExposedCost
    <3>2. Exposure(x) <= Amount[x]
      BY <2>0 DEF Exposure, CostsFit
    <3>3. g[x] = Amount[x]
      BY <2>2 DEF InFlightIsStored, StoredIn, Covers
    <3> HIDE DEF e, f, g
    <3> QED BY <2>0, <3>1, <3>2, <3>3
  <2>3. CASE x \notin Offline \union uncovered /\ s \in Covers(x) /\ ~InFlight(x)
    <3>1. e[x] = cost[x] /\ f[x] = cost[x]
      BY <2>3 DEF ExposedCost, Exposure, InFlight, BookedCost, Covers
    <3> HIDE DEF e, f, g
    <3> QED BY <2>0, <3>1
  <2> QED BY <2>1, <2>2, <2>3
<1>3. SumFunctionOnSet(f, Requests) <= realized[s] /\ SumFunctionOnSet(g, Requests) <= reserved[s]
  BY <1>1 DEF CostsAreBooked, ReservedCovers
<1>4. realized[s] \in Nat /\ reserved[s] \in Nat
  BY DEF TypeOK
<1> HIDE DEF e, f, g
<1>5. SumFunctionOnSet(e, Requests) <= SumFunctionOnSet(f, Requests) + SumFunctionOnSet(g, Requests)
  BY <1>1, <1>2, RequestsAssumption, SumPlus
<1> QED BY <1>1, <1>3, <1>4, <1>5 DEF e

-----------------------------------------------------------------------------
(* What a step may do to the sums. *)

(* Exposure that does not grow stays under the cap.                        *)
LEMMA CapKept ==
  ASSUME IInv, TypeOK', uncovered \subseteq uncovered',
         \A q \in Requests : q \notin uncovered' => NoDearer(q)
  PROVE  HardCap'
PROOF
<1>0. TypeOK /\ HardCap
  BY DEF IInv
<1>1. (HardCap <=> \A s \in HardLedgers : SumFunctionOnSet(ExposedCost(s), Requests) <= Limit[Scope(s)])'
  <2>1. (TypeOK => (HardCap <=> \A s \in HardLedgers : SumFunctionOnSet(ExposedCost(s), Requests) <= Limit[Scope(s)]))'
    BY CapIsSum, PTL
  <2> QED BY <2>1
<1>2. ASSUME NEW s \in HardLedgers PROVE SumFunctionOnSet(ExposedCost(s)', Requests) <= Limit[Scope(s)]
  <2> DEFINE e == ExposedCost(s)
             d == ExposedCost(s)'
  <2>0. s \in Ledgers /\ Limit[Scope(s)] \in Nat
    BY HardLimits
  <2>1. e \in [Requests -> Nat] /\ SumFunctionOnSet(e, Requests) \in Nat
    BY <1>0, <2>0, TermTypes
  <2>2. d \in [Requests -> Nat] /\ SumFunctionOnSet(d, Requests) \in Nat
    BY <2>0, TermTypesNext
  <2>3. SumFunctionOnSet(e, Requests) <= Limit[Scope(s)]
    BY <1>0, CapIsSum
  <2>4. ASSUME NEW x \in Requests PROVE d[x] <= e[x]
    <3>1. d[x] \in Nat /\ e[x] \in Nat
      BY <2>1, <2>2
    <3>2. CASE x \in Offline \union uncovered' \/ s \notin Covers(x)' \/ Exposure(x)' = 0
      <4>1. d[x] = 0
        BY <3>2 DEF ExposedCost
      <4> HIDE DEF d, e
      <4> QED BY <3>1, <4>1
    <3>3. CASE x \notin Offline \union uncovered' /\ s \in Covers(x)' /\ Exposure(x)' # 0
      <4>0. Exposure(x)' <= Exposure(x) /\ s \in Covers(x)
        BY <3>3 DEF NoDearer
      <4>1. d[x] = Exposure(x)' /\ e[x] = Exposure(x)
        BY <3>3, <4>0 DEF ExposedCost
      <4> QED BY <4>0, <4>1
    <3> QED BY <3>2, <3>3
  <2> HIDE DEF d, e
  <2>5. SumFunctionOnSet(d, Requests) <= SumFunctionOnSet(e, Requests)
    <3>1. Requests \in SUBSET Requests /\ \A x \in Requests : d[x] <= e[x]
      BY <2>4
    <3> QED BY <2>1, <2>2, <3>1, RequestsAssumption, SumAtMost
  <2> QED BY <2>0, <2>1, <2>2, <2>3, <2>5 DEF d
<1> QED BY <1>1, <1>2

(* A request that is charged what it cost is booked.                       *)
LEMMA BooksKept ==
  ASSUME IInv, TypeOK', uncovered \subseteq uncovered', NEW q \in Requests, NEW amount \in Nat,
         InFlight(q) \/ amount = 0,
         \A x \in Requests : x \notin uncovered' /\ ~InFlight(x)' =>
           \/ cost'[x] = 0
           \/ ~InFlight(x) /\ cost'[x] = cost[x]
           \/ x = q /\ cost'[x] = amount,
         \A x \in Requests : billed'[x] = billed[x] \/ InFlight(x)',
         \A s \in Ledgers : realized'[s] >= realized[s] + (IF s \in billed[q] THEN amount ELSE 0)
  PROVE  CostsAreBooked'
PROOF
<1>0. TypeOK /\ CostsAreBooked
  BY DEF IInv
<1> SUFFICES ASSUME NEW s \in Ledgers
             PROVE  SumFunctionOnSet(BookedCost(s)', Requests) <= realized'[s]
  BY DEF CostsAreBooked
<1> DEFINE f == BookedCost(s)
           g == BookedCost(s)'
           paid == IF s \in billed[q] THEN amount ELSE 0
           h == [f EXCEPT ![q] = f[q] + paid]
<1>1. f \in [Requests -> Nat] /\ SumFunctionOnSet(f, Requests) \in Nat
  BY <1>0, TermTypes
<1>2. g \in [Requests -> Nat] /\ SumFunctionOnSet(g, Requests) \in Nat
  BY TermTypesNext
<1>3. paid \in Nat /\ f[q] \in Nat
  BY <1>1
<1>4. h \in [Requests -> Nat] /\ h[q] = f[q] + paid /\ \A x \in Requests \ {q} : f[x] = h[x]
  <2> HIDE DEF f, paid
  <2> QED BY <1>1, <1>3
<1>5. ASSUME NEW x \in Requests PROVE g[x] <= h[x]
  <2>0. g[x] \in Nat /\ f[x] \in Nat /\ h[x] \in Nat
    BY <1>1, <1>2, <1>4
  <2>1. CASE x \in uncovered' \/ s \notin billed'[x] \/ InFlight(x)'
    <3>1. g[x] = 0
      BY <2>1 DEF BookedCost
    <3> HIDE DEF f, g, h
    <3> QED BY <2>0, <3>1
  <2>2. CASE x \notin uncovered' /\ s \in billed[x] /\ billed'[x] = billed[x] /\ ~InFlight(x)'
    <3>1. g[x] = cost'[x] /\ x \notin uncovered
      BY <2>2 DEF BookedCost
    <3>2. CASE cost'[x] = 0
      <4> HIDE DEF f, g, h
      <4> QED BY <2>0, <3>1, <3>2
    <3>3. CASE ~InFlight(x) /\ cost'[x] = cost[x]
      <4>1. f[x] = cost[x]
        BY <2>2, <3>1, <3>3 DEF BookedCost
      <4>2. f[x] <= h[x]
        <5> HIDE DEF f, h, paid
        <5>1. CASE x = q
          BY <1>3, <1>4, <5>1
        <5>2. CASE x # q
          BY <1>4, <2>0, <5>2
        <5> QED BY <5>1, <5>2
      <4> HIDE DEF f, g, h
      <4> QED BY <2>0, <3>1, <3>3, <4>1, <4>2
    <3>4. CASE x = q /\ cost'[x] = amount
      <4>1. paid = amount
        BY <2>2, <3>4
      <4> HIDE DEF f, g, h, paid
      <4> QED BY <1>3, <1>4, <2>0, <3>1, <3>4, <4>1
    <3> QED BY <2>2, <3>2, <3>3, <3>4
  <2> QED BY <2>1, <2>2
<1>6. SumFunctionOnSet(f, Requests) <= realized[s]
  BY <1>0 DEF CostsAreBooked
<1>7. realized'[s] >= realized[s] + paid /\ realized[s] \in Nat /\ realized'[s] \in Nat
  BY <1>0 DEF TypeOK
<1> HIDE DEF f, g, h, paid
<1>8. SumFunctionOnSet(h, Requests) = (SumFunctionOnSet(f, Requests) - f[q]) + h[q]
  <2>1. Requests \in SUBSET Requests
    OBVIOUS
  <2> QED BY <1>1, <1>4, <2>1, RequestsAssumption, SumChange
<1>9. SumFunctionOnSet(g, Requests) <= SumFunctionOnSet(h, Requests)
  <2>1. Requests \in SUBSET Requests /\ \A x \in Requests : g[x] <= h[x]
    BY <1>5
  <2> QED BY <1>2, <1>4, <2>1, RequestsAssumption, SumAtMost
<1>10. SumFunctionOnSet(h, Requests) = SumFunctionOnSet(f, Requests) + paid
  BY <1>1, <1>3, <1>4, <1>8
<1> QED BY <1>1, <1>2, <1>3, <1>6, <1>7, <1>9, <1>10 DEF g

-----------------------------------------------------------------------------
(* What the scripts of the store do to the reservations. *)

(* The purge takes an expired reservation out of both records of it.       *)
LEMMA PurgeCovers ==
  ASSUME IInv, NEW q \in Requests
  PROVE  /\ PurgedAmounts(q) \in [Ledgers -> [Requests -> Nat]]
         /\ PurgedReserved(q) \in [Ledgers -> Nat]
         /\ \A s \in Ledgers : SumFunctionOnSet(PurgedAmounts(q)[s], Requests) <= PurgedReserved(q)[s]
         /\ \A s \in Ledgers, x \in Requests : left[x] > 0 => PurgedAmounts(q)[s][x] = amounts[s][x]
PROOF
<1>0. TypeOK /\ ReservedCovers
  BY DEF IInv
<1>1. PurgedAmounts(q) \in [Ledgers -> [Requests -> Nat]]
  BY <1>0 DEF TypeOK, PurgedAmounts
<1>2. ASSUME NEW s \in Ledgers
      PROVE  /\ PurgedReserved(q)[s] \in Nat
             /\ SumFunctionOnSet(PurgedAmounts(q)[s], Requests) <= PurgedReserved(q)[s]
  <2> DEFINE f == amounts[s]
             g == PurgedAmounts(q)[s]
             X == Overdue(s)
             r == reserved[s]
             p == PurgedReserved(q)[s]
  <2>1. /\ f \in [Requests -> Nat] /\ g \in [Requests -> Nat]
        /\ SumFunctionOnSet(f, Requests) \in Nat
        /\ SumFunctionOnSet(f, Requests) <= r
    BY <1>0, <1>1, TermTypes DEF ReservedCovers
  <2>2. r \in Nat
    BY <1>0 DEF TypeOK
  <2>3. X \in SUBSET Requests /\ Requests \in SUBSET Requests /\ Requests \ X \in SUBSET Requests
    BY DEF Overdue
  <2>4. CASE s \notin placed[q]
    <3>1. p = r
      BY <2>2, <2>4 DEF PurgedReserved
    <3>2. g = f
      BY <2>1, <2>4 DEF PurgedAmounts
    <3> HIDE DEF f, g, X, r, p
    <3>3. p \in Nat /\ SumFunctionOnSet(g, Requests) <= p
      BY <2>1, <2>2, <3>1, <3>2
    <3> QED BY <3>3 DEF p, g
  <2>5. CASE s \in placed[q]
    <3>1. p = r - SumFunctionOnSet(f, X)
      BY <2>5 DEF PurgedReserved
    <3>2. \A x \in Requests \ X : g[x] = f[x]
      BY <2>5 DEF PurgedAmounts
    <3>3. \A x \in Requests \ (Requests \ X) : g[x] = 0
      BY <2>5 DEF PurgedAmounts
    <3> HIDE DEF f, g, X, r, p
    <3>4. SumFunctionOnSet(f, Requests \ X) = SumFunctionOnSet(g, Requests)
      BY <2>1, <2>3, <3>2, <3>3, RequestsAssumption, SumRestrict
    <3>5. /\ SumFunctionOnSet(f, Requests) = SumFunctionOnSet(f, X) + SumFunctionOnSet(f, Requests \ X)
          /\ SumFunctionOnSet(f, X) <= SumFunctionOnSet(f, Requests)
      BY <2>1, <2>3, RequestsAssumption, SumSubset
    <3>6. SumFunctionOnSet(f, X) \in Nat /\ SumFunctionOnSet(f, Requests \ X) \in Nat
      BY <2>1, <2>3, RequestsAssumption, SumType
    <3>7. p \in Nat /\ SumFunctionOnSet(g, Requests) <= p
      BY <2>1, <2>2, <3>1, <3>4, <3>5, <3>6
    <3> QED BY <3>7 DEF p, g
  <2> QED BY <2>4, <2>5
<1>3. PurgedReserved(q) \in [Ledgers -> Nat]
  BY <1>2 DEF PurgedReserved
<1>4. \A s \in Ledgers, x \in Requests : left[x] > 0 => PurgedAmounts(q)[s][x] = amounts[s][x]
  BY <1>0 DEF PurgedAmounts, Overdue, TypeOK
<1> QED BY <1>1, <1>2, <1>3, <1>4

(* The types of what is in the store.                                      *)
StoreTypes ==
  /\ realized \in [Ledgers -> Nat] /\ reserved \in [Ledgers -> Nat]
  /\ amounts \in [Ledgers -> [Requests -> Nat]]
  /\ left \in [Requests -> 0..TTL] /\ key_left \in [Ledgers -> 0..TTL]

(* A refusal's purge takes no reservation that has not expired.            *)
LEMMA PurgeKeeps ==
  ASSUME IInv, NEW q \in Requests, Purge(q), UNCHANGED placed
  PROVE  StoreTypes' /\ ReservedCovers' /\ \A x \in Requests : StoredIn(x) => StoredIn(x)'
PROOF
<1>0. TypeOK
  BY DEF IInv
<1>1. StoreTypes'
  BY <1>0, PurgeCovers DEF StoreTypes, Purge, TypeOK
<1>2. ReservedCovers'
  <2> SUFFICES ASSUME NEW s \in Ledgers PROVE reserved'[s] >= SumFunction(amounts'[s])
    BY DEF ReservedCovers
  <2> DEFINE g == amounts'[s]
  <2>1. g \in [Requests -> Nat] /\ DOMAIN g = Requests
    BY <1>1 DEF StoreTypes
  <2>2. SumFunction(g) = SumFunctionOnSet(g, Requests)
    BY <2>1 DEF SumFunction
  <2>3. SumFunctionOnSet(g, Requests) <= reserved'[s]
    BY PurgeCovers DEF Purge
  <2>4. reserved'[s] \in Nat /\ SumFunctionOnSet(g, Requests) \in Nat
    <3>1. Requests \in SUBSET Requests
      OBVIOUS
    <3>2. SumFunctionOnSet(g, Requests) \in Nat
      BY <2>1, <3>1, RequestsAssumption, SumType
    <3> QED BY <1>1, <3>2 DEF StoreTypes
  <2> HIDE DEF g
  <2>5. reserved'[s] >= SumFunction(g)
    BY <2>2, <2>3, <2>4
  <2> QED BY <2>5 DEF g
<1>3. ASSUME NEW x \in Requests, StoredIn(x) PROVE StoredIn(x)'
  <2>1. left'[x] = left[x] /\ left[x] > 0
    BY <1>3 DEF Purge, StoredIn
  <2>2. ASSUME NEW s \in placed[x] PROVE amounts'[s][x] = Amount[x] /\ key_left'[s] >= left'[x]
    <3>1. s \in Ledgers
      BY <1>0 DEF TypeOK
    <3>2. amounts'[s][x] = amounts[s][x]
      BY <2>1, <3>1, PurgeCovers DEF Purge
    <3> QED BY <1>3, <2>1, <3>2 DEF StoredIn, Purge
  <2> QED BY <2>1, <2>2 DEF StoredIn
<1> QED BY <1>1, <1>2, <1>3

(* A granted reservation is in the store whole, beside the others.         *)
LEMMA StoreKeeps ==
  ASSUME IInv, NEW q \in Requests, Store(q), UNCHANGED placed
  PROVE  /\ StoreTypes' /\ ReservedCovers' /\ realized' = realized
         /\ StoredIn(q)' /\ \A x \in Requests : StoredIn(x) => StoredIn(x)'
         /\ \A s \in placed[q] : reserved'[s] = PurgedReserved(q)[s] + Amount[q]
PROOF
<1>0. TypeOK /\ Amount[q] \in Nat /\ TTL \in Nat \ {0} /\ placed[q] \subseteq Ledgers
  BY AmountAssumption, TTLAssumption DEF IInv, TypeOK
<1>a. /\ PurgedAmounts(q) \in [Ledgers -> [Requests -> Nat]]
      /\ PurgedReserved(q) \in [Ledgers -> Nat]
      /\ \A s \in Ledgers : SumFunctionOnSet(PurgedAmounts(q)[s], Requests) <= PurgedReserved(q)[s]
      /\ \A s \in Ledgers, x \in Requests : left[x] > 0 => PurgedAmounts(q)[s][x] = amounts[s][x]
  BY PurgeCovers
<1>1. StoreTypes'
  <2>1. amounts' \in [Ledgers -> [Requests -> Nat]]
    BY <1>0, <1>a DEF Store, TypeOK
  <2>2. reserved' \in [Ledgers -> Nat]
    BY <1>0, <1>a DEF Store
  <2>3. left' \in [Requests -> 0..TTL] /\ key_left' \in [Ledgers -> 0..TTL] /\ realized' \in [Ledgers -> Nat]
    BY <1>0 DEF Store, TypeOK
  <2> QED BY <2>1, <2>2, <2>3 DEF StoreTypes
<1>2. ReservedCovers'
  <2> SUFFICES ASSUME NEW s \in Ledgers PROVE reserved'[s] >= SumFunction(amounts'[s])
    BY DEF ReservedCovers
  <2> DEFINE f == PurgedAmounts(q)[s]
             g == amounts'[s]
             p == PurgedReserved(q)[s]
             r == reserved'[s]
  <2>1. g \in [Requests -> Nat] /\ DOMAIN g = Requests /\ f \in [Requests -> Nat] /\ p \in Nat /\ r \in Nat
    BY <1>1, <1>a DEF StoreTypes
  <2>2. SumFunction(g) = SumFunctionOnSet(g, Requests)
    BY <2>1 DEF SumFunction
  <2>3. Requests \in SUBSET Requests
    OBVIOUS
  <2>4. SumFunctionOnSet(g, Requests) \in Nat /\ SumFunctionOnSet(f, Requests) \in Nat
    BY <2>1, <2>3, RequestsAssumption, SumType
  <2>5. SumFunctionOnSet(f, Requests) <= p
    BY <1>a
  <2>6. CASE s \in placed[q]
    <3>1. g[q] = Amount[q] /\ \A y \in Requests \ {q} : f[y] = g[y]
      BY <2>1, <2>6 DEF Store
    <3>2. r = p + Amount[q]
      BY <2>6 DEF Store
    <3> HIDE DEF f, g, p, r
    <3>3. SumFunctionOnSet(g, Requests) = (SumFunctionOnSet(f, Requests) - f[q]) + g[q]
      BY <2>1, <2>3, <3>1, RequestsAssumption, SumChange
    <3>4. f[q] \in Nat
      BY <2>1
    <3>5. r >= SumFunction(g)
      BY <1>0, <2>1, <2>2, <2>4, <2>5, <3>1, <3>2, <3>3, <3>4
    <3> QED BY <3>5 DEF r, g
  <2>7. CASE s \notin placed[q]
    <3>1. g = amounts[s] /\ r = reserved[s]
      BY <1>0, <2>7 DEF Store, PurgedReserved, TypeOK
    <3> QED BY <3>1 DEF IInv, ReservedCovers
  <2> QED BY <2>6, <2>7
<1>3. ASSUME NEW x \in Requests, StoredIn(x) \/ x = q PROVE StoredIn(x)'
  <2>1. left'[x] > 0 /\ left'[x] <= TTL /\ left'[x] \in Nat
    BY <1>0, <1>3 DEF Store, StoredIn, TypeOK
  <2>2. ASSUME NEW s \in placed[x] PROVE amounts'[s][x] = Amount[x] /\ key_left'[s] >= left'[x]
    <3>1. s \in Ledgers
      BY <1>0 DEF TypeOK
    <3>2. CASE x = q
      <4>1. amounts'[s][x] = Amount[x]
        BY <1>a, <3>1, <3>2 DEF Store
      <4>2. key_left'[s] = TTL
        BY <3>1, <3>2 DEF Store
      <4> QED BY <1>0, <2>1, <4>1, <4>2
    <3>3. CASE x # q /\ s \in placed[q]
      <4>1. amounts'[s][x] = PurgedAmounts(q)[s][x]
        BY <1>a, <3>1, <3>3 DEF Store
      <4>2. PurgedAmounts(q)[s][x] = amounts[s][x] /\ amounts[s][x] = Amount[x]
        BY <1>3, <1>a, <3>1, <3>3 DEF StoredIn
      <4>3. key_left'[s] = TTL
        BY <3>1, <3>3 DEF Store
      <4> QED BY <1>0, <2>1, <4>1, <4>2, <4>3
    <3>4. CASE x # q /\ s \notin placed[q]
      <4>1. amounts'[s][x] = amounts[s][x] /\ key_left'[s] = key_left[s]
        BY <3>1, <3>4 DEF Store
      <4>2. left'[x] = left[x]
        BY <1>0, <3>4 DEF Store, TypeOK
      <4> QED BY <1>3, <3>4, <4>1, <4>2 DEF StoredIn
    <3> QED BY <3>2, <3>3, <3>4
  <2> QED BY <2>1, <2>2 DEF StoredIn
<1>4. \A s \in placed[q] : reserved'[s] = PurgedReserved(q)[s] + Amount[q]
  BY <1>0 DEF Store
<1> QED BY <1>1, <1>2, <1>3, <1>4 DEF Store

(* A release gives back what is stored of the request and touches no other.*)
LEMMA ReleaseKeeps ==
  ASSUME IInv, NEW q \in Requests, Release(q), UNCHANGED placed
  PROVE  /\ StoreTypes' /\ ReservedCovers' /\ realized' = realized
         /\ \A x \in Requests \ {q} : StoredIn(x) => StoredIn(x)'
PROOF
<1>0. TypeOK /\ ReservedCovers
  BY DEF IInv
<1>1. amounts' \in [Ledgers -> [Requests -> Nat]]
  BY <1>0 DEF Release, TypeOK
<1>2. ASSUME NEW s \in Ledgers PROVE reserved'[s] \in Nat /\ reserved'[s] >= SumFunction(amounts'[s])
  <2> DEFINE f == amounts[s]
             g == amounts'[s]
             r == reserved[s]
             n == reserved'[s]
  <2>1. /\ f \in [Requests -> Nat] /\ g \in [Requests -> Nat] /\ DOMAIN g = Requests /\ r \in Nat
        /\ SumFunctionOnSet(f, Requests) \in Nat /\ SumFunctionOnSet(f, Requests) <= r
    BY <1>0, <1>1, TermTypes DEF TypeOK, ReservedCovers
  <2>2. SumFunction(g) = SumFunctionOnSet(g, Requests)
    BY <2>1 DEF SumFunction
  <2>3. Requests \in SUBSET Requests
    OBVIOUS
  <2>4. SumFunctionOnSet(g, Requests) \in Nat
    BY <2>1, <2>3, RequestsAssumption, SumType
  <2>5. CASE s \in placed[q]
    <3>1. g[q] = 0 /\ \A y \in Requests \ {q} : f[y] = g[y]
      BY <2>1, <2>5 DEF Release
    <3>2. n = r - f[q]
      BY <2>1, <2>5 DEF Release
    <3> HIDE DEF f, g, r, n
    <3>3. SumFunctionOnSet(g, Requests) = (SumFunctionOnSet(f, Requests) - f[q]) + g[q]
      BY <2>1, <2>3, <3>1, RequestsAssumption, SumChange
    <3>4. f[q] \in Nat
      BY <2>1
    <3>5. n \in Nat /\ n >= SumFunction(g)
      BY <2>1, <2>2, <2>4, <3>1, <3>2, <3>3, <3>4
    <3> QED BY <3>5 DEF n, g
  <2>6. CASE s \notin placed[q]
    <3>1. g = f /\ n = r
      BY <2>1, <2>6 DEF Release
    <3> HIDE DEF f, g, r, n
    <3>2. n \in Nat /\ n >= SumFunction(g)
      BY <2>1, <2>2, <3>1
    <3> QED BY <3>2 DEF n, g
  <2> QED BY <2>5, <2>6
<1>3. StoreTypes'
  <2>1. reserved' \in [Ledgers -> Nat]
    BY <1>2 DEF Release
  <2> QED BY <1>0, <1>1, <2>1 DEF StoreTypes, Release, TypeOK
<1>4. ReservedCovers'
  BY <1>2 DEF ReservedCovers
<1>5. ASSUME NEW x \in Requests \ {q}, StoredIn(x) PROVE StoredIn(x)'
  <2>1. ASSUME NEW s \in placed[x] PROVE amounts'[s][x] = amounts[s][x]
    <3>1. s \in Ledgers
      BY <1>0 DEF TypeOK
    <3> QED BY <1>0, <3>1 DEF Release, TypeOK
  <2> QED BY <1>5, <2>1 DEF StoredIn, Release
<1> QED BY <1>3, <1>4, <1>5 DEF Release

(* A charge touches no reservation.                                        *)
LEMMA ChargeKeeps ==
  ASSUME IInv, NEW q \in Requests, Charge(q), UNCHANGED placed
  PROVE  StoreTypes' /\ ReservedCovers' /\ \A x \in Requests : StoredIn(x) => StoredIn(x)'
PROOF
<1>0. TypeOK /\ ReservedCovers
  BY DEF IInv
<1>1. StoreTypes'
  BY <1>0 DEF StoreTypes, Charge, TypeOK
<1>2. ReservedCovers'
  BY <1>0 DEF ReservedCovers, Charge
<1>3. \A x \in Requests : StoredIn(x) => StoredIn(x)'
  BY DEF StoredIn, Charge
<1> QED BY <1>1, <1>2, <1>3

(* A step that leaves the store alone.                                     *)
LEMMA StoreSame ==
  ASSUME IInv, UNCHANGED redis
  PROVE  /\ StoreTypes' /\ ReservedCovers' /\ realized' = realized
         /\ \A x \in Requests : placed'[x] = placed[x] /\ StoredIn(x) => StoredIn(x)'
PROOF
<1>0. TypeOK /\ ReservedCovers
  BY DEF IInv
<1>1. StoreTypes'
  BY <1>0 DEF StoreTypes, redis, TypeOK
<1>2. ReservedCovers'
  BY <1>0 DEF ReservedCovers, redis
<1>3. \A x \in Requests : placed'[x] = placed[x] /\ StoredIn(x) => StoredIn(x)'
  BY DEF StoredIn, redis
<1> QED BY <1>1, <1>2, <1>3 DEF redis

-----------------------------------------------------------------------------
(* Each step preserves the invariant. *)

(* The variables of the requests keep their types.                         *)
RequestTypes ==
  /\ phase \in [Requests -> Phases] /\ unchecked \in [Requests -> SUBSET Ledgers]
  /\ today \in 0..MaxDate /\ cost \in [Requests -> Nat]
  /\ placed \in [Requests -> SUBSET Ledgers] /\ billed \in [Requests -> SUBSET Ledgers]
  /\ lease \in SUBSET Requests /\ releasing \in SUBSET Requests /\ uncovered \in SUBSET Requests

(* A step of request q that books `amount' for it keeps all but the cap.   *)
LEMMA StepKeeps ==
  ASSUME IInv, RequestTypes', StoreTypes', ReservedCovers', NEW q \in Requests, NEW amount \in Nat,
         uncovered \subseteq uncovered', InFlight(q) \/ amount = 0,
         \A s \in Ledgers : realized'[s] >= realized[s] + (IF s \in billed[q] THEN amount ELSE 0),
         \A x \in Requests \ {q} :
           /\ phase'[x] = phase[x] /\ cost'[x] = cost[x]
           /\ placed'[x] = placed[x] /\ billed'[x] = billed[x] /\ (StoredIn(x) => StoredIn(x)'),
         billed'[q] = billed[q] \/ InFlight(q)',
         \A x \in Requests : x \in releasing' => phase'[x] = "done",
         cost'[q] <= Amount[q],
         phase'[q] \in {"idle", "allowed", "delivering"} => cost'[q] = 0,
         InFlight(q)' /\ q \notin uncovered' => StoredIn(q)',
         q \notin uncovered' /\ ~InFlight(q)' =>
           cost'[q] = 0 \/ (~InFlight(q) /\ cost'[q] = cost[q]) \/ cost'[q] = amount
  PROVE  TypeOK' /\ CostsFit' /\ ReleasesAreLate' /\ InFlightIsStored' /\ CostsAreBooked' /\ ReservedCovers'
PROOF
<1>0. CostsFit /\ InFlightIsStored
  BY DEF IInv
<1>1. TypeOK'
  BY DEF TypeOK, RequestTypes, StoreTypes
<1>2. CostsFit'
  <2>1. ASSUME NEW x \in Requests
        PROVE  cost'[x] <= Amount[x] /\ (phase'[x] \in {"idle", "allowed", "delivering"} => cost'[x] = 0)
    <3>1. CASE x = q
      BY <3>1
    <3>2. CASE x # q
      BY <1>0, <3>2 DEF CostsFit
    <3> QED BY <3>1, <3>2
  <2> QED BY <2>1 DEF CostsFit
<1>3. ReleasesAreLate'
  BY DEF ReleasesAreLate
<1>4. InFlightIsStored'
  <2>1. ASSUME NEW x \in Requests, InFlight(x)', x \notin uncovered' PROVE StoredIn(x)'
    <3>1. CASE x = q
      BY <2>1, <3>1
    <3>2. CASE x # q
      <4>1. InFlight(x) /\ x \notin uncovered
        BY <2>1, <3>2 DEF InFlight
      <4> QED BY <1>0, <3>2, <4>1 DEF InFlightIsStored
    <3> QED BY <3>1, <3>2
  <2> QED BY <2>1 DEF InFlightIsStored
<1>5. CostsAreBooked'
  <2>1. ASSUME NEW x \in Requests, x \notin uncovered', ~InFlight(x)'
        PROVE  cost'[x] = 0 \/ (~InFlight(x) /\ cost'[x] = cost[x]) \/ (x = q /\ cost'[x] = amount)
    <3>1. CASE x = q
      BY <2>1, <3>1
    <3>2. CASE x # q
      BY <2>1, <3>2 DEF InFlight
    <3> QED BY <3>1, <3>2
  <2>2. \A x \in Requests : billed'[x] = billed[x] \/ InFlight(x)'
    OBVIOUS
  <2> QED BY <1>1, <2>1, <2>2, BooksKept
<1> QED BY <1>1, <1>2, <1>3, <1>4, <1>5

(* The same, of a step after which q may not cost more than before.        *)
LEMMA StepKeepsAll ==
  ASSUME IInv, RequestTypes', StoreTypes', ReservedCovers', NEW q \in Requests, NEW amount \in Nat,
         uncovered \subseteq uncovered', InFlight(q) \/ amount = 0,
         \A s \in Ledgers : realized'[s] >= realized[s] + (IF s \in billed[q] THEN amount ELSE 0),
         \A x \in Requests \ {q} :
           /\ phase'[x] = phase[x] /\ cost'[x] = cost[x]
           /\ placed'[x] = placed[x] /\ billed'[x] = billed[x] /\ (StoredIn(x) => StoredIn(x)'),
         billed'[q] = billed[q] \/ InFlight(q)',
         \A x \in Requests : x \in releasing' => phase'[x] = "done",
         cost'[q] <= Amount[q],
         phase'[q] \in {"idle", "allowed", "delivering"} => cost'[q] = 0,
         InFlight(q)' /\ q \notin uncovered' => StoredIn(q)',
         q \notin uncovered' /\ ~InFlight(q)' =>
           cost'[q] = 0 \/ (~InFlight(q) /\ cost'[q] = cost[q]) \/ cost'[q] = amount,
         q \notin uncovered' => NoDearer(q)
  PROVE  IInv'
PROOF
<1>1. TypeOK' /\ CostsFit' /\ ReleasesAreLate' /\ InFlightIsStored' /\ CostsAreBooked' /\ ReservedCovers'
  BY StepKeeps
<1>2. ASSUME NEW x \in Requests, x \notin uncovered' PROVE NoDearer(x)
  <2>1. CASE x = q
    BY <1>2, <2>1
  <2>2. CASE x # q
    <3>1. Exposure(x)' = Exposure(x) /\ Covers(x)' = Covers(x)
      BY <2>2 DEF Exposure, Covers
    <3>2. Exposure(x) \in Nat
      BY AmountAssumption DEF IInv, TypeOK, Exposure
    <3> QED BY <3>1, <3>2 DEF NoDearer
  <2> QED BY <2>1, <2>2
<1>3. HardCap'
  BY <1>1, <1>2, CapKept
<1> QED BY <1>1, <1>3 DEF IInv

(* The ledger leaves room for what it reserves.                            *)
LEMMA ExposureIsCoveredNext ==
 (TypeOK /\ CostsFit /\ InFlightIsStored /\ CostsAreBooked /\ ReservedCovers =>
    \A s \in Ledgers : SumFunctionOnSet(ExposedCost(s), Requests) <= realized[s] + reserved[s])'
PROOF BY ExposureIsCovered, PTL

(* A reservation that fits keeps the cap: what all the covered requests may*)
(* cost a blocking budget is in its ledger, and the script compared the    *)
(* ledger with the limit.                                                  *)
LEMMA FitsKeepsCap ==
  ASSUME IInv, NEW q \in Requests, Fits(q), Store(q), phase[q] = "allowed", UNCHANGED <<cost, uncovered, placed, billed>>,
         phase' = [phase EXCEPT ![q] = "delivering"],
         TypeOK', CostsFit', InFlightIsStored', CostsAreBooked', ReservedCovers'
  PROVE  HardCap'
PROOF
<1>0. TypeOK /\ HardCap
  BY DEF IInv
<1>1. (HardCap <=> \A s \in HardLedgers : SumFunctionOnSet(ExposedCost(s), Requests) <= Limit[Scope(s)])'
  <2>1. (TypeOK => (HardCap <=> \A s \in HardLedgers : SumFunctionOnSet(ExposedCost(s), Requests) <= Limit[Scope(s)]))'
    BY CapIsSum, PTL
  <2> QED BY <2>1
<1>2. ASSUME NEW s \in HardLedgers PROVE SumFunctionOnSet(ExposedCost(s)', Requests) <= Limit[Scope(s)]
  <2> DEFINE e == ExposedCost(s)
             d == ExposedCost(s)'
  <2>0. s \in Ledgers /\ Limit[Scope(s)] \in Nat
    BY HardLimits
  <2>1. e \in [Requests -> Nat] /\ d \in [Requests -> Nat] /\ SumFunctionOnSet(d, Requests) \in Nat
    BY <1>0, <2>0, TermTypes, TermTypesNext
  <2>2. CASE s \in placed[q] /\ q \notin Offline
    <3>1. realized[s] + PurgedReserved(q)[s] + Amount[q] <= Limit[Scope(s)]
      BY <2>2 DEF Fits, Blocks, HardLedgers
    <3>2. realized'[s] = realized[s] /\ reserved'[s] = PurgedReserved(q)[s] + Amount[q]
      BY <2>2, StoreKeeps
    <3>3. SumFunctionOnSet(d, Requests) <= realized'[s] + reserved'[s]
      BY <2>0, ExposureIsCoveredNext
    <3>4. realized[s] \in Nat /\ PurgedReserved(q)[s] \in Nat /\ Amount[q] \in Nat
      BY <1>0, <2>0, PurgeCovers, AmountAssumption DEF TypeOK
    <3> HIDE DEF d, e
    <3>5. SumFunctionOnSet(d, Requests) <= Limit[Scope(s)]
      BY <2>0, <2>1, <3>1, <3>2, <3>3, <3>4
    <3> QED BY <3>5 DEF d
  <2>3. CASE s \notin placed[q] \/ q \in Offline
    <3>1. ASSUME NEW x \in Requests PROVE d[x] = e[x]
      <4>1. CASE x = q
        <5>1. Covers(q)' = placed[q] /\ Covers(q) \subseteq placed[q] /\ uncovered' = uncovered
          BY <1>0 DEF TypeOK, Covers
        <5> QED BY <2>3, <4>1, <5>1 DEF ExposedCost
      <4>2. CASE x # q
        <5>1. phase'[x] = phase[x] /\ cost'[x] = cost[x] /\ uncovered' = uncovered
          BY <1>0, <4>2 DEF TypeOK
        <5>2. Exposure(x)' = Exposure(x) /\ Covers(x)' = Covers(x)
          BY <5>1 DEF Exposure, Covers
        <5> QED BY <5>1, <5>2 DEF ExposedCost
      <4> QED BY <4>1, <4>2
    <3>2. SumFunctionOnSet(e, Requests) <= Limit[Scope(s)]
      BY <1>0, CapIsSum
    <3>3. Requests \in SUBSET Requests
      OBVIOUS
    <3> HIDE DEF d, e
    <3>4. SumFunctionOnSet(d, Requests) = SumFunctionOnSet(e, Requests)
      BY <2>1, <3>1, <3>3, RequestsAssumption, SumSame
    <3> QED BY <3>2, <3>4 DEF d
  <2> QED BY <2>2, <2>3
<1> QED BY <1>1, <1>2

(* What every step of a request starts from.                               *)
LEMMA StepStart ==
  ASSUME IInv, NEW q \in Requests
  PROVE  /\ TypeOK /\ RequestTypes /\ cost[q] \in Nat /\ Amount[q] \in Nat /\ 0 \in Nat
         /\ cost[q] <= Amount[q] /\ (phase[q] \in {"idle", "allowed", "delivering"} => cost[q] = 0)
         /\ \A x \in Requests : x \in releasing => phase[x] = "done"
         /\ (InFlight(q) /\ q \notin uncovered => StoredIn(q))
         /\ \A s \in Ledgers : realized[s] \in Nat
         /\ LedgersOf(q, today) \in SUBSET Ledgers
PROOF BY AmountAssumption, LedgersType DEF IInv, TypeOK, RequestTypes, CostsFit, ReleasesAreLate, InFlightIsStored

(* One budget lets the request go on.                                      *)
LEMMA EvaluateScopeStep ==
  ASSUME IInv, NEW q \in Requests, NEW s \in Ledgers, EvaluateScope(q, s)
  PROVE  IInv'
PROOF
<1>0. /\ TypeOK /\ RequestTypes /\ cost[q] \in Nat /\ Amount[q] \in Nat /\ 0 \in Nat
      /\ cost[q] <= Amount[q] /\ (phase[q] \in {"idle", "allowed", "delivering"} => cost[q] = 0)
      /\ \A x \in Requests : x \in releasing => phase[x] = "done"
      /\ (InFlight(q) /\ q \notin uncovered => StoredIn(q))
      /\ \A t \in Ledgers : realized[t] \in Nat
      /\ LedgersOf(q, today) \in SUBSET Ledgers
  BY StepStart
<1>1. /\ StoreTypes' /\ ReservedCovers' /\ realized' = realized
      /\ \A x \in Requests \ {q} : placed'[x] = placed[x] => (StoredIn(x) => StoredIn(x)')
  BY StoreSame DEF EvaluateScope, dates
<1>2. RequestTypes' /\ uncovered \subseteq uncovered'
  BY <1>0 DEF EvaluateScope, Allow, dates, RequestTypes, Phases
<1>3. \A x \in Requests \ {q} : /\ phase'[x] = phase[x] /\ cost'[x] = cost[x]
                              /\ placed'[x] = placed[x] /\ billed'[x] = billed[x]
  BY <1>0 DEF EvaluateScope, Allow, dates, RequestTypes
<1>4. \A x \in Requests : x \in releasing' => phase'[x] = "done"
  BY <1>0 DEF EvaluateScope, Allow, dates, RequestTypes
<1>5. cost'[q] <= Amount[q] /\ (phase'[q] \in {"idle", "allowed", "delivering"} => cost'[q] = 0)
  BY <1>0 DEF EvaluateScope, Allow, dates, RequestTypes
<1>6. InFlight(q)' /\ q \notin uncovered' => StoredIn(q)'
  BY <1>0, <1>1 DEF EvaluateScope, Allow, dates, RequestTypes, InFlight
<1>7. /\ billed'[q] = billed[q] \/ InFlight(q)'
      /\ InFlight(q) \/ 0 = 0
      /\ (q \notin uncovered' /\ ~InFlight(q)' =>
            cost'[q] = 0 \/ (~InFlight(q) /\ cost'[q] = cost[q]) \/ cost'[q] = 0)
  BY <1>0 DEF EvaluateScope, Allow, dates, RequestTypes, InFlight
<1>8. \A t \in Ledgers : realized'[t] >= realized[t] + (IF t \in billed[q] THEN 0 ELSE 0)
  BY <1>0, <1>1
<1>9. q \notin uncovered' => NoDearer(q)
  BY <1>0 DEF EvaluateScope, Allow, dates, RequestTypes, NoDearer, Exposure, Covers
<1> QED BY <1>0, <1>1, <1>2, <1>3, <1>4, <1>5, <1>6, <1>7, <1>8, <1>9, StepKeepsAll

(* A spent budget blocks the request.                                      *)
LEMMA EvaluateBlockedStep ==
  ASSUME IInv, NEW q \in Requests, NEW s \in Ledgers, EvaluateBlocked(q, s)
  PROVE  IInv'
PROOF
<1>0. /\ TypeOK /\ RequestTypes /\ cost[q] \in Nat /\ Amount[q] \in Nat /\ 0 \in Nat
      /\ cost[q] <= Amount[q] /\ (phase[q] \in {"idle", "allowed", "delivering"} => cost[q] = 0)
      /\ \A x \in Requests : x \in releasing => phase[x] = "done"
      /\ (InFlight(q) /\ q \notin uncovered => StoredIn(q))
      /\ \A t \in Ledgers : realized[t] \in Nat
      /\ LedgersOf(q, today) \in SUBSET Ledgers
  BY StepStart
<1>1. /\ StoreTypes' /\ ReservedCovers' /\ realized' = realized
      /\ \A x \in Requests : StoredIn(x) => StoredIn(x)'
  BY StoreSame DEF EvaluateBlocked, dates
<1>2. RequestTypes' /\ uncovered \subseteq uncovered'
  BY <1>0 DEF EvaluateBlocked, Moves, dates, RequestTypes, Phases
<1>3. \A x \in Requests \ {q} : /\ phase'[x] = phase[x] /\ cost'[x] = cost[x]
                              /\ placed'[x] = placed[x] /\ billed'[x] = billed[x]
  BY <1>0 DEF EvaluateBlocked, Moves, dates, RequestTypes
<1>4. \A x \in Requests : x \in releasing' => phase'[x] = "done"
  BY <1>0 DEF EvaluateBlocked, Moves, dates, RequestTypes
<1>5. cost'[q] <= Amount[q] /\ (phase'[q] \in {"idle", "allowed", "delivering"} => cost'[q] = 0)
  BY <1>0 DEF EvaluateBlocked, Moves, dates, RequestTypes
<1>6. InFlight(q)' /\ q \notin uncovered' => StoredIn(q)'
  BY <1>0, <1>1 DEF EvaluateBlocked, Moves, dates, RequestTypes, InFlight
<1>7. /\ billed'[q] = billed[q] \/ InFlight(q)'
      /\ InFlight(q) \/ 0 = 0
      /\ (q \notin uncovered' /\ ~InFlight(q)' =>
            cost'[q] = 0 \/ (~InFlight(q) /\ cost'[q] = cost[q]) \/ cost'[q] = 0)
  BY <1>0 DEF EvaluateBlocked, Moves, dates, RequestTypes, InFlight
<1>8. \A t \in Ledgers : realized'[t] >= realized[t] + (IF t \in billed[q] THEN 0 ELSE 0)
  BY <1>0, <1>1
<1>9. q \notin uncovered' => NoDearer(q)
  BY <1>0 DEF EvaluateBlocked, Moves, dates, RequestTypes, NoDearer, Exposure, Covers
<1> QED BY <1>0, <1>1, <1>2, <1>3, <1>4, <1>5, <1>6, <1>7, <1>8, <1>9, StepKeepsAll

(* The local ledger decides.                                               *)
LEMMA EvaluateLocallyStep ==
  ASSUME IInv, NEW q \in Requests, EvaluateLocally(q)
  PROVE  IInv'
PROOF
<1>0. /\ TypeOK /\ RequestTypes /\ cost[q] \in Nat /\ Amount[q] \in Nat /\ 0 \in Nat
      /\ cost[q] <= Amount[q] /\ (phase[q] \in {"idle", "allowed", "delivering"} => cost[q] = 0)
      /\ \A x \in Requests : x \in releasing => phase[x] = "done"
      /\ (InFlight(q) /\ q \notin uncovered => StoredIn(q))
      /\ \A t \in Ledgers : realized[t] \in Nat
      /\ LedgersOf(q, today) \in SUBSET Ledgers
  BY StepStart
<1>1. /\ StoreTypes' /\ ReservedCovers' /\ realized' = realized
      /\ \A x \in Requests \ {q} : placed'[x] = placed[x] => (StoredIn(x) => StoredIn(x)')
  BY StoreSame DEF EvaluateLocally, dates
<1>2. RequestTypes' /\ uncovered \subseteq uncovered'
  BY <1>0 DEF EvaluateLocally, Moves, Allow, dates, RequestTypes, Phases
<1>3. \A x \in Requests \ {q} : /\ phase'[x] = phase[x] /\ cost'[x] = cost[x]
                              /\ placed'[x] = placed[x] /\ billed'[x] = billed[x]
  BY <1>0 DEF EvaluateLocally, Moves, Allow, dates, RequestTypes
<1>4. \A x \in Requests : x \in releasing' => phase'[x] = "done"
  BY <1>0 DEF EvaluateLocally, Moves, Allow, dates, RequestTypes
<1>5. cost'[q] <= Amount[q] /\ (phase'[q] \in {"idle", "allowed", "delivering"} => cost'[q] = 0)
  BY <1>0 DEF EvaluateLocally, Moves, Allow, dates, RequestTypes
<1>6. InFlight(q)' /\ q \notin uncovered' => StoredIn(q)'
  BY <1>0, <1>1 DEF EvaluateLocally, Moves, Allow, dates, RequestTypes, InFlight
<1>7. /\ billed'[q] = billed[q] \/ InFlight(q)'
      /\ InFlight(q) \/ 0 = 0
      /\ (q \notin uncovered' /\ ~InFlight(q)' =>
            cost'[q] = 0 \/ (~InFlight(q) /\ cost'[q] = cost[q]) \/ cost'[q] = 0)
  BY <1>0 DEF EvaluateLocally, Moves, Allow, dates, RequestTypes, InFlight
<1>8. \A t \in Ledgers : realized'[t] >= realized[t] + (IF t \in billed[q] THEN 0 ELSE 0)
  BY <1>0, <1>1
<1>9. q \notin uncovered' => NoDearer(q)
  BY <1>0 DEF EvaluateLocally, Moves, Allow, dates, RequestTypes, NoDearer, Exposure, Covers
<1> QED BY <1>0, <1>1, <1>2, <1>3, <1>4, <1>5, <1>6, <1>7, <1>8, <1>9, StepKeepsAll

(* A reservation is refused.                                               *)
LEMMA ReserveDeniedStep ==
  ASSUME IInv, NEW q \in Requests, ReserveDenied(q)
  PROVE  IInv'
PROOF
<1>0. /\ TypeOK /\ RequestTypes /\ cost[q] \in Nat /\ Amount[q] \in Nat /\ 0 \in Nat
      /\ cost[q] <= Amount[q] /\ (phase[q] \in {"idle", "allowed", "delivering"} => cost[q] = 0)
      /\ \A x \in Requests : x \in releasing => phase[x] = "done"
      /\ (InFlight(q) /\ q \notin uncovered => StoredIn(q))
      /\ \A t \in Ledgers : realized[t] \in Nat
      /\ LedgersOf(q, today) \in SUBSET Ledgers
  BY StepStart
<1>1. /\ StoreTypes' /\ ReservedCovers' /\ realized' = realized
      /\ \A x \in Requests : StoredIn(x) => StoredIn(x)'
  BY PurgeKeeps DEF ReserveDenied, Purge, dates
<1>2. RequestTypes' /\ uncovered \subseteq uncovered'
  BY <1>0 DEF ReserveDenied, Moves, dates, RequestTypes, Phases
<1>3. \A x \in Requests \ {q} : /\ phase'[x] = phase[x] /\ cost'[x] = cost[x]
                              /\ placed'[x] = placed[x] /\ billed'[x] = billed[x]
  BY <1>0 DEF ReserveDenied, Moves, dates, RequestTypes
<1>4. \A x \in Requests : x \in releasing' => phase'[x] = "done"
  BY <1>0 DEF ReserveDenied, Moves, dates, RequestTypes
<1>5. cost'[q] <= Amount[q] /\ (phase'[q] \in {"idle", "allowed", "delivering"} => cost'[q] = 0)
  BY <1>0 DEF ReserveDenied, Moves, dates, RequestTypes
<1>6. InFlight(q)' /\ q \notin uncovered' => StoredIn(q)'
  BY <1>0, <1>1 DEF ReserveDenied, Moves, dates, RequestTypes, InFlight
<1>7. /\ billed'[q] = billed[q] \/ InFlight(q)'
      /\ InFlight(q) \/ 0 = 0
      /\ (q \notin uncovered' /\ ~InFlight(q)' =>
            cost'[q] = 0 \/ (~InFlight(q) /\ cost'[q] = cost[q]) \/ cost'[q] = 0)
  BY <1>0 DEF ReserveDenied, Moves, dates, RequestTypes, InFlight
<1>8. \A t \in Ledgers : realized'[t] >= realized[t] + (IF t \in billed[q] THEN 0 ELSE 0)
  BY <1>0, <1>1
<1>9. q \notin uncovered' => NoDearer(q)
  BY <1>0 DEF ReserveDenied, Moves, dates, RequestTypes, NoDearer, Exposure, Covers
<1> QED BY <1>0, <1>1, <1>2, <1>3, <1>4, <1>5, <1>6, <1>7, <1>8, <1>9, StepKeepsAll

(* A delivery goes out without a reservation.                              *)
LEMMA ReserveUnavailableStep ==
  ASSUME IInv, NEW q \in Requests, ReserveUnavailable(q)
  PROVE  IInv'
PROOF
<1>0. /\ TypeOK /\ RequestTypes /\ cost[q] \in Nat /\ Amount[q] \in Nat /\ 0 \in Nat
      /\ cost[q] <= Amount[q] /\ (phase[q] \in {"idle", "allowed", "delivering"} => cost[q] = 0)
      /\ \A x \in Requests : x \in releasing => phase[x] = "done"
      /\ (InFlight(q) /\ q \notin uncovered => StoredIn(q))
      /\ \A t \in Ledgers : realized[t] \in Nat
      /\ LedgersOf(q, today) \in SUBSET Ledgers
  BY StepStart
<1>1. /\ StoreTypes' /\ ReservedCovers' /\ realized' = realized
      /\ \A x \in Requests : StoredIn(x) => StoredIn(x)'
  BY StoreSame DEF ReserveUnavailable, dates
<1>2. RequestTypes' /\ uncovered \subseteq uncovered'
  BY <1>0 DEF ReserveUnavailable, Moves, dates, RequestTypes, Phases
<1>3. \A x \in Requests \ {q} : /\ phase'[x] = phase[x] /\ cost'[x] = cost[x]
                              /\ placed'[x] = placed[x] /\ billed'[x] = billed[x]
  BY <1>0 DEF ReserveUnavailable, Moves, dates, RequestTypes
<1>4. \A x \in Requests : x \in releasing' => phase'[x] = "done"
  BY <1>0 DEF ReserveUnavailable, Moves, dates, RequestTypes
<1>5. cost'[q] <= Amount[q] /\ (phase'[q] \in {"idle", "allowed", "delivering"} => cost'[q] = 0)
  BY <1>0 DEF ReserveUnavailable, Moves, dates, RequestTypes
<1>6. InFlight(q)' /\ q \notin uncovered' => StoredIn(q)'
  BY <1>0, <1>1 DEF ReserveUnavailable, Moves, dates, RequestTypes, InFlight
<1>7. /\ billed'[q] = billed[q] \/ InFlight(q)'
      /\ InFlight(q) \/ 0 = 0
      /\ (q \notin uncovered' /\ ~InFlight(q)' =>
            cost'[q] = 0 \/ (~InFlight(q) /\ cost'[q] = cost[q]) \/ cost'[q] = 0)
  BY <1>0 DEF ReserveUnavailable, Moves, dates, RequestTypes, InFlight
<1>8. \A t \in Ledgers : realized'[t] >= realized[t] + (IF t \in billed[q] THEN 0 ELSE 0)
  BY <1>0, <1>1
<1>9. q \notin uncovered' => NoDearer(q)
  BY <1>0 DEF ReserveUnavailable, Moves, dates, RequestTypes, NoDearer, Exposure, Covers
<1> QED BY <1>0, <1>1, <1>2, <1>3, <1>4, <1>5, <1>6, <1>7, <1>8, <1>9, StepKeepsAll

(* A delivery ends without a charge.                                       *)
LEMMA EndUnchargedStep ==
  ASSUME IInv, NEW q \in Requests, EndUncharged(q)
  PROVE  IInv'
PROOF
<1>0. /\ TypeOK /\ RequestTypes /\ cost[q] \in Nat /\ Amount[q] \in Nat /\ 0 \in Nat
      /\ cost[q] <= Amount[q] /\ (phase[q] \in {"idle", "allowed", "delivering"} => cost[q] = 0)
      /\ \A x \in Requests : x \in releasing => phase[x] = "done"
      /\ (InFlight(q) /\ q \notin uncovered => StoredIn(q))
      /\ \A t \in Ledgers : realized[t] \in Nat
      /\ LedgersOf(q, today) \in SUBSET Ledgers
  BY StepStart
<1>1. /\ StoreTypes' /\ ReservedCovers' /\ realized' = realized
      /\ \A x \in Requests : StoredIn(x) => StoredIn(x)'
  BY StoreSame DEF EndUncharged, dates
<1>2. RequestTypes' /\ uncovered \subseteq uncovered'
  BY <1>0 DEF EndUncharged, Moves, dates, DropLease, RequestTypes, Phases
<1>3. \A x \in Requests \ {q} : /\ phase'[x] = phase[x] /\ cost'[x] = cost[x]
                              /\ placed'[x] = placed[x] /\ billed'[x] = billed[x]
  BY <1>0 DEF EndUncharged, Moves, dates, DropLease, RequestTypes
<1>4. \A x \in Requests : x \in releasing' => phase'[x] = "done"
  BY <1>0 DEF EndUncharged, Moves, dates, DropLease, RequestTypes
<1>5. cost'[q] <= Amount[q] /\ (phase'[q] \in {"idle", "allowed", "delivering"} => cost'[q] = 0)
  BY <1>0 DEF EndUncharged, Moves, dates, DropLease, RequestTypes
<1>6. InFlight(q)' /\ q \notin uncovered' => StoredIn(q)'
  BY <1>0, <1>1 DEF EndUncharged, Moves, dates, DropLease, RequestTypes, InFlight
<1>7. /\ billed'[q] = billed[q] \/ InFlight(q)'
      /\ InFlight(q) \/ 0 = 0
      /\ (q \notin uncovered' /\ ~InFlight(q)' =>
            cost'[q] = 0 \/ (~InFlight(q) /\ cost'[q] = cost[q]) \/ cost'[q] = 0)
  BY <1>0 DEF EndUncharged, Moves, dates, DropLease, RequestTypes, InFlight
<1>8. \A t \in Ledgers : realized'[t] >= realized[t] + (IF t \in billed[q] THEN 0 ELSE 0)
  BY <1>0, <1>1
<1>9. q \notin uncovered' => NoDearer(q)
  BY <1>0 DEF EndUncharged, Moves, dates, DropLease, RequestTypes, NoDearer, Exposure, Covers
<1> QED BY <1>0, <1>1, <1>2, <1>3, <1>4, <1>5, <1>6, <1>7, <1>8, <1>9, StepKeepsAll

(* The upstream answered.                                                  *)
LEMMA DeliveredStep ==
  ASSUME IInv, NEW q \in Requests, Delivered(q)
  PROVE  IInv'
PROOF
<1>0. /\ TypeOK /\ RequestTypes /\ cost[q] \in Nat /\ Amount[q] \in Nat /\ 0 \in Nat
      /\ cost[q] <= Amount[q] /\ (phase[q] \in {"idle", "allowed", "delivering"} => cost[q] = 0)
      /\ \A x \in Requests : x \in releasing => phase[x] = "done"
      /\ (InFlight(q) /\ q \notin uncovered => StoredIn(q))
      /\ \A t \in Ledgers : realized[t] \in Nat
      /\ LedgersOf(q, today) \in SUBSET Ledgers
  BY StepStart
<1>1. /\ StoreTypes' /\ ReservedCovers' /\ realized' = realized
      /\ \A x \in Requests : StoredIn(x) => StoredIn(x)'
  BY StoreSame DEF Delivered, dates
<1>2. RequestTypes' /\ uncovered \subseteq uncovered'
  BY <1>0 DEF Delivered, Moves, dates, RequestTypes, Phases
<1>3. \A x \in Requests \ {q} : /\ phase'[x] = phase[x] /\ cost'[x] = cost[x]
                              /\ placed'[x] = placed[x] /\ billed'[x] = billed[x]
  BY <1>0 DEF Delivered, Moves, dates, RequestTypes
<1>4. \A x \in Requests : x \in releasing' => phase'[x] = "done"
  BY <1>0 DEF Delivered, Moves, dates, RequestTypes
<1>5. cost'[q] <= Amount[q] /\ (phase'[q] \in {"idle", "allowed", "delivering"} => cost'[q] = 0)
  BY <1>0 DEF Delivered, Moves, dates, RequestTypes
<1>6. InFlight(q)' /\ q \notin uncovered' => StoredIn(q)'
  BY <1>0, <1>1 DEF Delivered, Moves, dates, RequestTypes, InFlight
<1>7. /\ billed'[q] = billed[q] \/ InFlight(q)'
      /\ InFlight(q) \/ 0 = 0
      /\ (q \notin uncovered' /\ ~InFlight(q)' =>
            cost'[q] = 0 \/ (~InFlight(q) /\ cost'[q] = cost[q]) \/ cost'[q] = 0)
  BY <1>0 DEF Delivered, Moves, dates, RequestTypes, InFlight
<1>8. \A t \in Ledgers : realized'[t] >= realized[t] + (IF t \in billed[q] THEN 0 ELSE 0)
  BY <1>0, <1>1
<1>9. q \notin uncovered' => NoDearer(q)
  BY <1>0 DEF Delivered, Moves, dates, RequestTypes, NoDearer, Exposure, Covers
<1> QED BY <1>0, <1>1, <1>2, <1>3, <1>4, <1>5, <1>6, <1>7, <1>8, <1>9, StepKeepsAll

(* The realized cost is booked.                                            *)
LEMMA RecordStep ==
  ASSUME IInv, NEW q \in Requests, Record(q)
  PROVE  IInv'
PROOF
<1>0. /\ TypeOK /\ RequestTypes /\ cost[q] \in Nat /\ Amount[q] \in Nat /\ 0 \in Nat
      /\ cost[q] <= Amount[q] /\ (phase[q] \in {"idle", "allowed", "delivering"} => cost[q] = 0)
      /\ \A x \in Requests : x \in releasing => phase[x] = "done"
      /\ (InFlight(q) /\ q \notin uncovered => StoredIn(q))
      /\ \A t \in Ledgers : realized[t] \in Nat
      /\ LedgersOf(q, today) \in SUBSET Ledgers
  BY StepStart
<1>1. /\ StoreTypes' /\ ReservedCovers'
      /\ \A x \in Requests : StoredIn(x) => StoredIn(x)'
  BY ChargeKeeps DEF Record, dates
<1>2. RequestTypes' /\ uncovered \subseteq uncovered'
  BY <1>0 DEF Record, Moves, dates, AfterRecord, RequestTypes, Phases
<1>3. \A x \in Requests \ {q} : /\ phase'[x] = phase[x] /\ cost'[x] = cost[x]
                              /\ placed'[x] = placed[x] /\ billed'[x] = billed[x]
  BY <1>0 DEF Record, Moves, dates, AfterRecord, RequestTypes
<1>4. \A x \in Requests : x \in releasing' => phase'[x] = "done"
  BY <1>0 DEF Record, Moves, dates, AfterRecord, RequestTypes
<1>5. cost'[q] <= Amount[q] /\ (phase'[q] \in {"idle", "allowed", "delivering"} => cost'[q] = 0)
  BY <1>0 DEF Record, Moves, dates, AfterRecord, RequestTypes
<1>6. InFlight(q)' /\ q \notin uncovered' => StoredIn(q)'
  BY <1>0, <1>1 DEF Record, Moves, dates, AfterRecord, RequestTypes, InFlight
<1>7. /\ billed'[q] = billed[q] \/ InFlight(q)'
      /\ InFlight(q) \/ cost[q] = 0
      /\ (q \notin uncovered' /\ ~InFlight(q)' =>
            cost'[q] = 0 \/ (~InFlight(q) /\ cost'[q] = cost[q]) \/ cost'[q] = cost[q])
  BY <1>0 DEF Record, Moves, dates, AfterRecord, RequestTypes, InFlight
<1>8. \A t \in Ledgers : realized'[t] >= realized[t] + (IF t \in billed[q] THEN cost[q] ELSE 0)
  BY <1>0 DEF Record, Charge
<1>9. q \notin uncovered' => NoDearer(q)
  BY <1>0 DEF Record, Moves, dates, AfterRecord, RequestTypes, NoDearer, Exposure, Covers
<1> QED BY <1>0, <1>1, <1>2, <1>3, <1>4, <1>5, <1>6, <1>7, <1>8, <1>9, StepKeepsAll

(* The booking of the cost fails.                                          *)
LEMMA RecordLostStep ==
  ASSUME IInv, NEW q \in Requests, RecordLost(q)
  PROVE  IInv'
PROOF
<1>0. /\ TypeOK /\ RequestTypes /\ cost[q] \in Nat /\ Amount[q] \in Nat /\ 0 \in Nat
      /\ cost[q] <= Amount[q] /\ (phase[q] \in {"idle", "allowed", "delivering"} => cost[q] = 0)
      /\ \A x \in Requests : x \in releasing => phase[x] = "done"
      /\ (InFlight(q) /\ q \notin uncovered => StoredIn(q))
      /\ \A t \in Ledgers : realized[t] \in Nat
      /\ LedgersOf(q, today) \in SUBSET Ledgers
  BY StepStart
<1>1. /\ StoreTypes' /\ ReservedCovers' /\ realized' = realized
      /\ \A x \in Requests : StoredIn(x) => StoredIn(x)'
  BY StoreSame DEF RecordLost, dates
<1>2. RequestTypes' /\ uncovered \subseteq uncovered'
  BY <1>0 DEF RecordLost, Moves, dates, AfterRecord, RequestTypes, Phases
<1>3. \A x \in Requests \ {q} : /\ phase'[x] = phase[x] /\ cost'[x] = cost[x]
                              /\ placed'[x] = placed[x] /\ billed'[x] = billed[x]
  BY <1>0 DEF RecordLost, Moves, dates, AfterRecord, RequestTypes
<1>4. \A x \in Requests : x \in releasing' => phase'[x] = "done"
  BY <1>0 DEF RecordLost, Moves, dates, AfterRecord, RequestTypes
<1>5. cost'[q] <= Amount[q] /\ (phase'[q] \in {"idle", "allowed", "delivering"} => cost'[q] = 0)
  BY <1>0 DEF RecordLost, Moves, dates, AfterRecord, RequestTypes
<1>6. InFlight(q)' /\ q \notin uncovered' => StoredIn(q)'
  BY <1>0, <1>1 DEF RecordLost, Moves, dates, AfterRecord, RequestTypes, InFlight
<1>7. /\ billed'[q] = billed[q] \/ InFlight(q)'
      /\ InFlight(q) \/ 0 = 0
      /\ (q \notin uncovered' /\ ~InFlight(q)' =>
            cost'[q] = 0 \/ (~InFlight(q) /\ cost'[q] = cost[q]) \/ cost'[q] = 0)
  BY <1>0 DEF RecordLost, Moves, dates, AfterRecord, RequestTypes, InFlight
<1>8. \A t \in Ledgers : realized'[t] >= realized[t] + (IF t \in billed[q] THEN 0 ELSE 0)
  BY <1>0, <1>1
<1>9. q \notin uncovered' => NoDearer(q)
  BY <1>0 DEF RecordLost, Moves, dates, AfterRecord, RequestTypes, NoDearer, Exposure, Covers
<1> QED BY <1>0, <1>1, <1>2, <1>3, <1>4, <1>5, <1>6, <1>7, <1>8, <1>9, StepKeepsAll

(* The reservation is given back.                                          *)
LEMMA SettleStep ==
  ASSUME IInv, NEW q \in Requests, Settle(q)
  PROVE  IInv'
PROOF
<1>0. /\ TypeOK /\ RequestTypes /\ cost[q] \in Nat /\ Amount[q] \in Nat /\ 0 \in Nat
      /\ cost[q] <= Amount[q] /\ (phase[q] \in {"idle", "allowed", "delivering"} => cost[q] = 0)
      /\ \A x \in Requests : x \in releasing => phase[x] = "done"
      /\ (InFlight(q) /\ q \notin uncovered => StoredIn(q))
      /\ \A t \in Ledgers : realized[t] \in Nat
      /\ LedgersOf(q, today) \in SUBSET Ledgers
  BY StepStart
<1>1. /\ StoreTypes' /\ ReservedCovers' /\ realized' = realized
      /\ \A x \in Requests \ {q} : StoredIn(x) => StoredIn(x)'
  BY ReleaseKeeps DEF Settle, dates
<1>2. RequestTypes' /\ uncovered \subseteq uncovered'
  BY <1>0 DEF Settle, Moves, dates, RequestTypes, Phases
<1>3. \A x \in Requests \ {q} : /\ phase'[x] = phase[x] /\ cost'[x] = cost[x]
                              /\ placed'[x] = placed[x] /\ billed'[x] = billed[x]
  BY <1>0 DEF Settle, Moves, dates, RequestTypes
<1>4. \A x \in Requests : x \in releasing' => phase'[x] = "done"
  BY <1>0 DEF Settle, Moves, dates, RequestTypes
<1>5. cost'[q] <= Amount[q] /\ (phase'[q] \in {"idle", "allowed", "delivering"} => cost'[q] = 0)
  BY <1>0 DEF Settle, Moves, dates, RequestTypes
<1>6. InFlight(q)' /\ q \notin uncovered' => StoredIn(q)'
  BY <1>0, <1>1 DEF Settle, Moves, dates, RequestTypes, InFlight
<1>7. /\ billed'[q] = billed[q] \/ InFlight(q)'
      /\ InFlight(q) \/ 0 = 0
      /\ (q \notin uncovered' /\ ~InFlight(q)' =>
            cost'[q] = 0 \/ (~InFlight(q) /\ cost'[q] = cost[q]) \/ cost'[q] = 0)
  BY <1>0 DEF Settle, Moves, dates, RequestTypes, InFlight
<1>8. \A t \in Ledgers : realized'[t] >= realized[t] + (IF t \in billed[q] THEN 0 ELSE 0)
  BY <1>0, <1>1
<1>9. q \notin uncovered' => NoDearer(q)
  BY <1>0 DEF Settle, Moves, dates, RequestTypes, NoDearer, Exposure, Covers
<1> QED BY <1>0, <1>1, <1>2, <1>3, <1>4, <1>5, <1>6, <1>7, <1>8, <1>9, StepKeepsAll

(* The release at settlement is lost.                                      *)
LEMMA SettleLostStep ==
  ASSUME IInv, NEW q \in Requests, SettleLost(q)
  PROVE  IInv'
PROOF
<1>0. /\ TypeOK /\ RequestTypes /\ cost[q] \in Nat /\ Amount[q] \in Nat /\ 0 \in Nat
      /\ cost[q] <= Amount[q] /\ (phase[q] \in {"idle", "allowed", "delivering"} => cost[q] = 0)
      /\ \A x \in Requests : x \in releasing => phase[x] = "done"
      /\ (InFlight(q) /\ q \notin uncovered => StoredIn(q))
      /\ \A t \in Ledgers : realized[t] \in Nat
      /\ LedgersOf(q, today) \in SUBSET Ledgers
  BY StepStart
<1>1. /\ StoreTypes' /\ ReservedCovers' /\ realized' = realized
      /\ \A x \in Requests : StoredIn(x) => StoredIn(x)'
  BY StoreSame DEF SettleLost, dates
<1>2. RequestTypes' /\ uncovered \subseteq uncovered'
  BY <1>0 DEF SettleLost, Moves, dates, RequestTypes, Phases
<1>3. \A x \in Requests \ {q} : /\ phase'[x] = phase[x] /\ cost'[x] = cost[x]
                              /\ placed'[x] = placed[x] /\ billed'[x] = billed[x]
  BY <1>0 DEF SettleLost, Moves, dates, RequestTypes
<1>4. \A x \in Requests : x \in releasing' => phase'[x] = "done"
  BY <1>0 DEF SettleLost, Moves, dates, RequestTypes
<1>5. cost'[q] <= Amount[q] /\ (phase'[q] \in {"idle", "allowed", "delivering"} => cost'[q] = 0)
  BY <1>0 DEF SettleLost, Moves, dates, RequestTypes
<1>6. InFlight(q)' /\ q \notin uncovered' => StoredIn(q)'
  BY <1>0, <1>1 DEF SettleLost, Moves, dates, RequestTypes, InFlight
<1>7. /\ billed'[q] = billed[q] \/ InFlight(q)'
      /\ InFlight(q) \/ 0 = 0
      /\ (q \notin uncovered' /\ ~InFlight(q)' =>
            cost'[q] = 0 \/ (~InFlight(q) /\ cost'[q] = cost[q]) \/ cost'[q] = 0)
  BY <1>0 DEF SettleLost, Moves, dates, RequestTypes, InFlight
<1>8. \A t \in Ledgers : realized'[t] >= realized[t] + (IF t \in billed[q] THEN 0 ELSE 0)
  BY <1>0, <1>1
<1>9. q \notin uncovered' => NoDearer(q)
  BY <1>0 DEF SettleLost, Moves, dates, RequestTypes, NoDearer, Exposure, Covers
<1> QED BY <1>0, <1>1, <1>2, <1>3, <1>4, <1>5, <1>6, <1>7, <1>8, <1>9, StepKeepsAll

(* The dropped guard's release runs.                                       *)
LEMMA BackgroundReleaseStep ==
  ASSUME IInv, NEW q \in Requests, BackgroundRelease(q)
  PROVE  IInv'
PROOF
<1>0. /\ TypeOK /\ RequestTypes /\ cost[q] \in Nat /\ Amount[q] \in Nat /\ 0 \in Nat
      /\ cost[q] <= Amount[q] /\ (phase[q] \in {"idle", "allowed", "delivering"} => cost[q] = 0)
      /\ \A x \in Requests : x \in releasing => phase[x] = "done"
      /\ (InFlight(q) /\ q \notin uncovered => StoredIn(q))
      /\ \A t \in Ledgers : realized[t] \in Nat
      /\ LedgersOf(q, today) \in SUBSET Ledgers
  BY StepStart
<1>1. /\ StoreTypes' /\ ReservedCovers' /\ realized' = realized
      /\ \A x \in Requests \ {q} : StoredIn(x) => StoredIn(x)'
  BY ReleaseKeeps DEF BackgroundRelease, dates
<1>2. RequestTypes' /\ uncovered \subseteq uncovered'
  BY <1>0 DEF BackgroundRelease, Moves, dates, RequestTypes, Phases
<1>3. \A x \in Requests \ {q} : /\ phase'[x] = phase[x] /\ cost'[x] = cost[x]
                              /\ placed'[x] = placed[x] /\ billed'[x] = billed[x]
  BY <1>0 DEF BackgroundRelease, Moves, dates, RequestTypes
<1>4. \A x \in Requests : x \in releasing' => phase'[x] = "done"
  BY <1>0 DEF BackgroundRelease, Moves, dates, RequestTypes
<1>5. cost'[q] <= Amount[q] /\ (phase'[q] \in {"idle", "allowed", "delivering"} => cost'[q] = 0)
  BY <1>0 DEF BackgroundRelease, Moves, dates, RequestTypes
<1>6. InFlight(q)' /\ q \notin uncovered' => StoredIn(q)'
  BY <1>0, <1>1 DEF BackgroundRelease, Moves, dates, RequestTypes, InFlight
<1>7. /\ billed'[q] = billed[q] \/ InFlight(q)'
      /\ InFlight(q) \/ 0 = 0
      /\ (q \notin uncovered' /\ ~InFlight(q)' =>
            cost'[q] = 0 \/ (~InFlight(q) /\ cost'[q] = cost[q]) \/ cost'[q] = 0)
  BY <1>0 DEF BackgroundRelease, Moves, dates, RequestTypes, InFlight
<1>8. \A t \in Ledgers : realized'[t] >= realized[t] + (IF t \in billed[q] THEN 0 ELSE 0)
  BY <1>0, <1>1
<1>9. q \notin uncovered' => NoDearer(q)
  BY <1>0 DEF BackgroundRelease, Moves, dates, RequestTypes, NoDearer, Exposure, Covers
<1> QED BY <1>0, <1>1, <1>2, <1>3, <1>4, <1>5, <1>6, <1>7, <1>8, <1>9, StepKeepsAll

(* The background release fails.                                           *)
LEMMA ReleaseLostStep ==
  ASSUME IInv, NEW q \in Requests, ReleaseLost(q)
  PROVE  IInv'
PROOF
<1>0. /\ TypeOK /\ RequestTypes /\ cost[q] \in Nat /\ Amount[q] \in Nat /\ 0 \in Nat
      /\ cost[q] <= Amount[q] /\ (phase[q] \in {"idle", "allowed", "delivering"} => cost[q] = 0)
      /\ \A x \in Requests : x \in releasing => phase[x] = "done"
      /\ (InFlight(q) /\ q \notin uncovered => StoredIn(q))
      /\ \A t \in Ledgers : realized[t] \in Nat
      /\ LedgersOf(q, today) \in SUBSET Ledgers
  BY StepStart
<1>1. /\ StoreTypes' /\ ReservedCovers' /\ realized' = realized
      /\ \A x \in Requests : StoredIn(x) => StoredIn(x)'
  BY StoreSame DEF ReleaseLost, dates
<1>2. RequestTypes' /\ uncovered \subseteq uncovered'
  BY <1>0 DEF ReleaseLost, Moves, dates, RequestTypes, Phases
<1>3. \A x \in Requests \ {q} : /\ phase'[x] = phase[x] /\ cost'[x] = cost[x]
                              /\ placed'[x] = placed[x] /\ billed'[x] = billed[x]
  BY <1>0 DEF ReleaseLost, Moves, dates, RequestTypes
<1>4. \A x \in Requests : x \in releasing' => phase'[x] = "done"
  BY <1>0 DEF ReleaseLost, Moves, dates, RequestTypes
<1>5. cost'[q] <= Amount[q] /\ (phase'[q] \in {"idle", "allowed", "delivering"} => cost'[q] = 0)
  BY <1>0 DEF ReleaseLost, Moves, dates, RequestTypes
<1>6. InFlight(q)' /\ q \notin uncovered' => StoredIn(q)'
  BY <1>0, <1>1 DEF ReleaseLost, Moves, dates, RequestTypes, InFlight
<1>7. /\ billed'[q] = billed[q] \/ InFlight(q)'
      /\ InFlight(q) \/ 0 = 0
      /\ (q \notin uncovered' /\ ~InFlight(q)' =>
            cost'[q] = 0 \/ (~InFlight(q) /\ cost'[q] = cost[q]) \/ cost'[q] = 0)
  BY <1>0 DEF ReleaseLost, Moves, dates, RequestTypes, InFlight
<1>8. \A t \in Ledgers : realized'[t] >= realized[t] + (IF t \in billed[q] THEN 0 ELSE 0)
  BY <1>0, <1>1
<1>9. q \notin uncovered' => NoDearer(q)
  BY <1>0 DEF ReleaseLost, Moves, dates, RequestTypes, NoDearer, Exposure, Covers
<1> QED BY <1>0, <1>1, <1>2, <1>3, <1>4, <1>5, <1>6, <1>7, <1>8, <1>9, StepKeepsAll

(* A worker dies.                                                          *)
LEMMA CrashStep ==
  ASSUME IInv, NEW q \in Requests, Crash(q)
  PROVE  IInv'
PROOF
<1>0. /\ TypeOK /\ RequestTypes /\ cost[q] \in Nat /\ Amount[q] \in Nat /\ 0 \in Nat
      /\ cost[q] <= Amount[q] /\ (phase[q] \in {"idle", "allowed", "delivering"} => cost[q] = 0)
      /\ \A x \in Requests : x \in releasing => phase[x] = "done"
      /\ (InFlight(q) /\ q \notin uncovered => StoredIn(q))
      /\ \A t \in Ledgers : realized[t] \in Nat
      /\ LedgersOf(q, today) \in SUBSET Ledgers
  BY StepStart
<1>1. /\ StoreTypes' /\ ReservedCovers' /\ realized' = realized
      /\ \A x \in Requests : StoredIn(x) => StoredIn(x)'
  BY StoreSame DEF Crash, dates
<1>2. RequestTypes' /\ uncovered \subseteq uncovered'
  BY <1>0 DEF Crash, Moves, dates, RequestTypes, Phases
<1>3. \A x \in Requests \ {q} : /\ phase'[x] = phase[x] /\ cost'[x] = cost[x]
                              /\ placed'[x] = placed[x] /\ billed'[x] = billed[x]
  BY <1>0 DEF Crash, Moves, dates, RequestTypes
<1>4. \A x \in Requests : x \in releasing' => phase'[x] = "done"
  BY <1>0 DEF Crash, Moves, dates, RequestTypes
<1>5. cost'[q] <= Amount[q] /\ (phase'[q] \in {"idle", "allowed", "delivering"} => cost'[q] = 0)
  BY <1>0 DEF Crash, Moves, dates, RequestTypes
<1>6. InFlight(q)' /\ q \notin uncovered' => StoredIn(q)'
  BY <1>0, <1>1 DEF Crash, Moves, dates, RequestTypes, InFlight
<1>7. /\ billed'[q] = billed[q] \/ InFlight(q)'
      /\ InFlight(q) \/ 0 = 0
      /\ (q \notin uncovered' /\ ~InFlight(q)' =>
            cost'[q] = 0 \/ (~InFlight(q) /\ cost'[q] = cost[q]) \/ cost'[q] = 0)
  BY <1>0 DEF Crash, Moves, dates, RequestTypes, InFlight
<1>8. \A t \in Ledgers : realized'[t] >= realized[t] + (IF t \in billed[q] THEN 0 ELSE 0)
  BY <1>0, <1>1
<1>9. q \notin uncovered' => NoDearer(q)
  BY <1>0 DEF Crash, Moves, dates, RequestTypes, NoDearer, Exposure, Covers
<1> QED BY <1>0, <1>1, <1>2, <1>3, <1>4, <1>5, <1>6, <1>7, <1>8, <1>9, StepKeepsAll

(* A reservation is granted, whether or not the reply arrives.             *)
LEMMA GrantStep ==
  ASSUME IInv, NEW q \in Requests, Fits(q), Store(q), Moves(q, "allowed", "delivering"),
         lease' \in SUBSET Requests, UNCHANGED <<today, unchecked, dates, cost, releasing, uncovered>>
  PROVE  IInv'
PROOF
<1>0. /\ TypeOK /\ RequestTypes /\ cost[q] \in Nat /\ Amount[q] \in Nat /\ 0 \in Nat
      /\ cost[q] <= Amount[q] /\ (phase[q] \in {"idle", "allowed", "delivering"} => cost[q] = 0)
      /\ \A x \in Requests : x \in releasing => phase[x] = "done"
      /\ (InFlight(q) /\ q \notin uncovered => StoredIn(q))
      /\ \A t \in Ledgers : realized[t] \in Nat
      /\ LedgersOf(q, today) \in SUBSET Ledgers
  BY StepStart
<1>1. /\ StoreTypes' /\ ReservedCovers' /\ realized' = realized
      /\ StoredIn(q)' /\ \A x \in Requests : StoredIn(x) => StoredIn(x)'
  BY StoreKeeps DEF dates
<1>2. RequestTypes' /\ uncovered \subseteq uncovered'
  BY <1>0 DEF Moves, dates, RequestTypes, Phases
<1>3. \A x \in Requests \ {q} : /\ phase'[x] = phase[x] /\ cost'[x] = cost[x]
                              /\ placed'[x] = placed[x] /\ billed'[x] = billed[x]
  BY <1>0 DEF Moves, dates, RequestTypes
<1>4. \A x \in Requests : x \in releasing' => phase'[x] = "done"
  BY <1>0 DEF Moves, dates, RequestTypes
<1>5. cost'[q] <= Amount[q] /\ cost'[q] = 0
  BY <1>0 DEF Moves
<1>b. billed'[q] = billed[q]
  BY DEF dates
<1>6. \A t \in Ledgers : realized'[t] >= realized[t] + (IF t \in billed[q] THEN 0 ELSE 0)
  BY <1>0, <1>1
<1>7. TypeOK' /\ CostsFit' /\ ReleasesAreLate' /\ InFlightIsStored' /\ CostsAreBooked' /\ ReservedCovers'
  BY <1>0, <1>1, <1>2, <1>3, <1>4, <1>5, <1>b, <1>6, StepKeeps
<1>8. HardCap'
  BY <1>7, FitsKeepsCap DEF Moves, dates
<1> QED BY <1>7, <1>8 DEF IInv

(* The client leaves while its reservation is made.                        *)
LEMMA CancelReservingStep ==
  ASSUME IInv, NEW q \in Requests, CancelReserving(q)
  PROVE  IInv'
PROOF
<1>0. /\ TypeOK /\ RequestTypes /\ cost[q] \in Nat /\ Amount[q] \in Nat /\ 0 \in Nat
      /\ cost[q] <= Amount[q] /\ (phase[q] \in {"idle", "allowed", "delivering"} => cost[q] = 0)
      /\ \A x \in Requests : x \in releasing => phase[x] = "done"
      /\ (InFlight(q) /\ q \notin uncovered => StoredIn(q))
      /\ \A t \in Ledgers : realized[t] \in Nat
      /\ LedgersOf(q, today) \in SUBSET Ledgers
  BY StepStart
<1>1. /\ StoreTypes' /\ ReservedCovers' /\ realized' = realized
      /\ \A x \in Requests : StoredIn(x) => StoredIn(x)'
  <2>0. UNCHANGED placed
    BY DEF CancelReserving, dates
  <2>1. CASE UNCHANGED redis
    BY <2>0, <2>1, StoreSame
  <2>2. CASE Store(q)
    BY <2>0, <2>2, StoreKeeps
  <2>3. CASE Purge(q)
    BY <2>0, <2>3, PurgeKeeps DEF Purge
  <2> QED BY <2>1, <2>2, <2>3 DEF CancelReserving
<1>2. RequestTypes' /\ uncovered \subseteq uncovered'
  BY <1>0 DEF CancelReserving, Moves, dates, RequestTypes, Phases
<1>3. \A x \in Requests \ {q} : /\ phase'[x] = phase[x] /\ cost'[x] = cost[x]
                              /\ placed'[x] = placed[x] /\ billed'[x] = billed[x]
  BY <1>0 DEF CancelReserving, Moves, dates, RequestTypes
<1>4. \A x \in Requests : x \in releasing' => phase'[x] = "done"
  BY <1>0 DEF CancelReserving, Moves, dates, RequestTypes
<1>5. /\ cost'[q] = 0 /\ cost'[q] <= Amount[q] /\ NoDearer(q) /\ ~InFlight(q)'
      /\ billed'[q] = billed[q]
  BY <1>0 DEF CancelReserving, Moves, dates, RequestTypes, NoDearer, Exposure, InFlight
<1>6. \A t \in Ledgers : realized'[t] >= realized[t] + (IF t \in billed[q] THEN 0 ELSE 0)
  BY <1>0, <1>1
<1> QED BY <1>0, <1>1, <1>2, <1>3, <1>4, <1>5, <1>6, StepKeepsAll

(* The client leaves while its cost is booked.                             *)
LEMMA CancelRecordingStep ==
  ASSUME IInv, NEW q \in Requests, CancelRecording(q)
  PROVE  IInv'
PROOF
<1>0. /\ TypeOK /\ RequestTypes /\ cost[q] \in Nat /\ Amount[q] \in Nat /\ 0 \in Nat
      /\ cost[q] <= Amount[q] /\ (phase[q] \in {"idle", "allowed", "delivering"} => cost[q] = 0)
      /\ \A x \in Requests : x \in releasing => phase[x] = "done"
      /\ (InFlight(q) /\ q \notin uncovered => StoredIn(q))
      /\ \A t \in Ledgers : realized[t] \in Nat
      /\ LedgersOf(q, today) \in SUBSET Ledgers
  BY StepStart
<1>1. RequestTypes' /\ uncovered \subseteq uncovered'
  BY <1>0 DEF CancelRecording, Moves, dates, DropLease, RequestTypes, Phases
<1>2. \A x \in Requests \ {q} : /\ phase'[x] = phase[x] /\ cost'[x] = cost[x]
                              /\ placed'[x] = placed[x] /\ billed'[x] = billed[x]
  BY <1>0 DEF CancelRecording, Moves, dates, RequestTypes
<1>3. \A x \in Requests : x \in releasing' => phase'[x] = "done"
  BY <1>0 DEF CancelRecording, Moves, dates, DropLease, RequestTypes
<1>4. /\ cost'[q] = cost[q] /\ phase'[q] = "done" /\ ~InFlight(q)' /\ InFlight(q)
      /\ billed'[q] = billed[q] /\ placed' = placed /\ NoDearer(q)
  BY <1>0 DEF CancelRecording, Moves, dates, RequestTypes, NoDearer, Exposure, Covers, InFlight
<1>5. CASE Charge(q)
  <2>1. StoreTypes' /\ ReservedCovers' /\ \A x \in Requests : StoredIn(x) => StoredIn(x)'
    BY <1>4, <1>5, ChargeKeeps
  <2>2. \A t \in Ledgers : realized'[t] >= realized[t] + (IF t \in billed[q] THEN cost[q] ELSE 0)
    BY <1>0, <1>5 DEF Charge
  <2> QED BY <1>0, <1>1, <1>2, <1>3, <1>4, <2>1, <2>2, StepKeepsAll
<1>6. CASE UNCHANGED redis /\ q \in uncovered'
  <2>1. /\ StoreTypes' /\ ReservedCovers' /\ realized' = realized
        /\ \A x \in Requests : StoredIn(x) => StoredIn(x)'
    BY <1>4, <1>6, StoreSame
  <2>2. \A t \in Ledgers : realized'[t] >= realized[t] + (IF t \in billed[q] THEN 0 ELSE 0)
    BY <1>0, <2>1
  <2> QED BY <1>0, <1>1, <1>2, <1>3, <1>4, <1>6, <2>1, <2>2, StepKeepsAll
<1> QED BY <1>5, <1>6 DEF CancelRecording

(* Time passes in the store.                                               *)
LEMMA TickStep ==
  ASSUME IInv, Tick
  PROVE  IInv'
PROOF
<1>0. TypeOK /\ CostsFit /\ ReleasesAreLate /\ InFlightIsStored /\ ReservedCovers
  BY DEF IInv
<1>a. TTL \in Nat \ {0}
  BY TTLAssumption
<1>b. /\ left' = [q \in Requests |-> IF left[q] > 0 THEN left[q] - 1 ELSE 0]
      /\ key_left' = [s \in Ledgers |-> IF key_left[s] > 0 THEN key_left[s] - 1 ELSE 0]
      /\ amounts' = [s \in Ledgers |-> IF key_left[s] = 0 THEN [q \in Requests |-> 0] ELSE amounts[s]]
      /\ uncovered' = uncovered \union
           {q \in Requests : left[q] = 1 /\ phase[q] \in {"delivering", "recording"}}
      /\ UNCHANGED <<phase, today, unchecked, placed, billed, cost, lease, releasing, realized, reserved>>
  BY DEF Tick, dates
<1>1. TypeOK' /\ uncovered \subseteq uncovered'
  <2>1. left' \in [Requests -> 0..TTL] /\ key_left' \in [Ledgers -> 0..TTL]
    BY <1>0, <1>a, <1>b DEF TypeOK
  <2>2. amounts' \in [Ledgers -> [Requests -> Nat]]
    BY <1>0, <1>b DEF TypeOK
  <2> QED BY <1>0, <1>b, <2>1, <2>2 DEF TypeOK
<1>2. CostsFit' /\ ReleasesAreLate'
  BY <1>0, <1>b DEF CostsFit, ReleasesAreLate
<1>3. InFlightIsStored'
  <2> SUFFICES ASSUME NEW x \in Requests, InFlight(x)', x \notin uncovered' PROVE StoredIn(x)'
    BY DEF InFlightIsStored
  <2>1. InFlight(x) /\ x \notin uncovered
    BY <1>b DEF InFlight
  <2>2. StoredIn(x) /\ left[x] \in Nat /\ left[x] # 1
    BY <1>0, <1>b, <2>1 DEF InFlightIsStored, InFlight, TypeOK
  <2>3. left[x] > 1 /\ left'[x] = left[x] - 1
    BY <1>b, <2>2 DEF StoredIn
  <2>4. ASSUME NEW s \in placed'[x] PROVE amounts'[s][x] = Amount[x] /\ key_left'[s] >= left'[x]
    <3>1. s \in Ledgers /\ s \in placed[x]
      BY <1>0, <1>b DEF TypeOK
    <3>2. key_left[s] \in Nat /\ key_left[s] >= left[x] /\ amounts[s][x] = Amount[x]
      BY <1>0, <2>2, <3>1 DEF StoredIn, TypeOK
    <3>3. key_left'[s] = key_left[s] - 1 /\ amounts'[s] = amounts[s]
      BY <1>b, <2>2, <2>3, <3>1, <3>2
    <3> QED BY <2>2, <2>3, <3>2, <3>3
  <2> QED BY <2>2, <2>3, <2>4 DEF StoredIn
<1>4. ReservedCovers'
  <2> SUFFICES ASSUME NEW s \in Ledgers PROVE reserved'[s] >= SumFunction(amounts'[s])
    BY DEF ReservedCovers
  <2>1. CASE key_left[s] # 0
    BY <1>0, <1>b, <2>1 DEF ReservedCovers
  <2>2. CASE key_left[s] = 0
    <3> DEFINE g == amounts'[s]
    <3>1. g \in [Requests -> Nat] /\ DOMAIN g = Requests /\ \A x \in Requests : g[x] = 0
      BY <1>b, <2>2
    <3>2. SumFunction(g) = SumFunctionOnSet(g, Requests)
      BY <3>1 DEF SumFunction
    <3>3. Requests \in SUBSET Requests
      OBVIOUS
    <3>4. reserved'[s] \in Nat
      BY <1>1 DEF TypeOK
    <3> HIDE DEF g
    <3>5. SumFunctionOnSet(g, Requests) = 0
      BY <3>1, <3>3, RequestsAssumption, SumZero
    <3> QED BY <3>2, <3>4, <3>5 DEF g
  <2> QED BY <2>1, <2>2
<1>5. HardCap'
  <2>1. \A x \in Requests : Exposure(x)' = Exposure(x) /\ Exposure(x) \in Nat /\ Covers(x)' = Covers(x)
    BY <1>0, <1>b, AmountAssumption DEF Exposure, Covers, TypeOK
  <2>2. \A x \in Requests : x \notin uncovered' => NoDearer(x)
    BY <2>1 DEF NoDearer
  <2> QED BY <1>1, <2>2, CapKept
<1>6. CostsAreBooked'
  <2>1. CASE Requests = {}
    <3> SUFFICES ASSUME NEW s \in Ledgers
                 PROVE  SumFunctionOnSet(BookedCost(s)', Requests) <= realized'[s]
      BY DEF CostsAreBooked
    <3> DEFINE g == BookedCost(s)'
    <3>1. g \in [Requests -> Nat]
      BY <1>1, TermTypesNext
    <3>2. realized'[s] \in Nat /\ Requests \in SUBSET Requests
      BY <1>1 DEF TypeOK
    <3> HIDE DEF g
    <3>3. SumFunctionOnSet(g, Requests) = 0
      BY <2>1, <3>1, <3>2, RequestsAssumption, SumZero
    <3> QED BY <3>2, <3>3 DEF g
  <2>2. CASE Requests # {}
    <3>1. PICK q \in Requests : TRUE
      BY <2>2
    <3>2. \A x \in Requests : x \notin uncovered' /\ ~InFlight(x)' =>
            \/ cost'[x] = 0
            \/ ~InFlight(x) /\ cost'[x] = cost[x]
            \/ x = q /\ cost'[x] = 0
      BY <1>b DEF InFlight
    <3>3. \A s \in Ledgers : realized'[s] >= realized[s] + (IF s \in billed[q] THEN 0 ELSE 0)
      BY <1>0, <1>b DEF TypeOK
    <3>4. 0 \in Nat /\ \A x \in Requests : billed'[x] = billed[x] \/ InFlight(x)'
      BY <1>b
    <3> QED BY <1>1, <3>1, <3>2, <3>3, <3>4, BooksKept
  <2> QED BY <2>1, <2>2
<1> QED BY <1>1, <1>2, <1>3, <1>4, <1>5, <1>6 DEF IInv

(* Midnight: only requests that have reserved nothing yet are dated anew.  *)
LEMMA NextDayStep ==
  ASSUME IInv, NextDay
  PROVE  IInv'
PROOF
<1>0. TypeOK /\ CostsFit /\ ReleasesAreLate /\ InFlightIsStored /\ CostsAreBooked
  BY DEF IInv
<1>1. UNCHANGED <<phase, billed, cost, lease, releasing, redis, uncovered>>
  BY DEF NextDay
<1>2. today' \in 0..MaxDate /\ today + 1 \in 0..MaxDate
  BY <1>0, MonthAssumption DEF NextDay, TypeOK
<1>3. \A x \in Requests : LedgersOf(x, today + 1) \in SUBSET Ledgers
  BY <1>2, LedgersType
<1>4. /\ unchecked' \in [Requests -> SUBSET Ledgers] /\ placed' \in [Requests -> SUBSET Ledgers]
      /\ \A x \in Requests : placed'[x] = placed[x] \/ phase[x] = "allowed"
  <2>1. PICK late \in SUBSET {q \in Requests : Undated(q)} :
          /\ unchecked' = [q \in Requests |-> IF q \in late /\ phase[q] = "idle"
                                              THEN LedgersOf(q, today + 1) ELSE unchecked[q]]
          /\ placed' = [q \in Requests |-> IF q \in late /\ phase[q] = "allowed"
                                           THEN LedgersOf(q, today + 1) ELSE placed[q]]
    BY DEF NextDay
  <2>2. unchecked \in [Requests -> SUBSET Ledgers] /\ placed \in [Requests -> SUBSET Ledgers]
    BY <1>0 DEF TypeOK
  <2> QED BY <1>3, <2>1, <2>2
<1>5. /\ StoreTypes' /\ ReservedCovers' /\ realized' = realized
      /\ \A x \in Requests : placed'[x] = placed[x] /\ StoredIn(x) => StoredIn(x)'
  BY <1>1, StoreSame
<1>6. TypeOK' /\ CostsFit' /\ ReleasesAreLate'
  BY <1>0, <1>1, <1>2, <1>4, <1>5 DEF TypeOK, StoreTypes, CostsFit, ReleasesAreLate
<1>7. InFlightIsStored'
  BY <1>0, <1>1, <1>4, <1>5 DEF InFlightIsStored, InFlight
<1>8. CostsAreBooked'
  BY <1>0, <1>1, <1>5 DEF CostsAreBooked, BookedCost, InFlight
<1>9. HardCap'
  <2>1. ASSUME NEW x \in Requests PROVE NoDearer(x)
    <3>1. CASE phase[x] = "allowed"
      BY <1>0, <1>1, <3>1 DEF NoDearer, Exposure, CostsFit
    <3>2. CASE phase[x] # "allowed"
      <4>1. Exposure(x)' = Exposure(x) /\ Covers(x)' = Covers(x) /\ Exposure(x) \in Nat
        BY <1>0, <1>1, <1>4, <3>2, AmountAssumption DEF Exposure, Covers, TypeOK
      <4> QED BY <4>1 DEF NoDearer
    <3> QED BY <3>1, <3>2
  <2>2. uncovered \subseteq uncovered'
    BY <1>1
  <2> QED BY <1>6, <2>1, <2>2, CapKept
<1> QED BY <1>5, <1>6, <1>7, <1>8, <1>9 DEF IInv

(* Nothing is spent and nothing is reserved at the start.                  *)
LEMMA InitInv == Init => IInv
PROOF
<1> SUFFICES ASSUME Init PROVE IInv
  OBVIOUS
<1>1. TypeOK
  <2>1. 0 \in 0..MaxDate /\ TTL \in Nat
    BY MonthAssumption, TTLAssumption
  <2>2. \A q \in Requests : LedgersOf(q, 0) \in SUBSET Ledgers
    BY <2>1, LedgersType
  <2> QED BY <2>1, <2>2 DEF Init, TypeOK, Phases
<1>2. CostsFit /\ ReleasesAreLate /\ InFlightIsStored
  BY AmountAssumption DEF Init, CostsFit, ReleasesAreLate, InFlightIsStored, InFlight
<1>3. Requests \in SUBSET Requests
  OBVIOUS
<1>4. CostsAreBooked
  <2> SUFFICES ASSUME NEW s \in Ledgers PROVE SumFunctionOnSet(BookedCost(s), Requests) <= realized[s]
    BY DEF CostsAreBooked
  <2> DEFINE f == BookedCost(s)
  <2>1. f \in [Requests -> Nat] /\ realized[s] \in Nat
    BY <1>1, TermTypes DEF TypeOK
  <2>2. \A x \in Requests : f[x] = 0
    BY DEF Init, BookedCost
  <2> HIDE DEF f
  <2>3. SumFunctionOnSet(f, Requests) = 0
    BY <1>3, <2>1, <2>2, RequestsAssumption, SumZero
  <2> QED BY <2>1, <2>3 DEF f
<1>5. ReservedCovers
  <2> SUFFICES ASSUME NEW s \in Ledgers PROVE reserved[s] >= SumFunction(amounts[s])
    BY DEF ReservedCovers
  <2> DEFINE f == amounts[s]
  <2>1. f \in [Requests -> Nat] /\ reserved[s] \in Nat /\ SumFunction(f) = SumFunctionOnSet(f, Requests)
    BY <1>1, TermTypes DEF TypeOK
  <2>2. \A x \in Requests : f[x] = 0
    BY DEF Init
  <2> HIDE DEF f
  <2>3. SumFunctionOnSet(f, Requests) = 0
    BY <1>3, <2>1, <2>2, RequestsAssumption, SumZero
  <2> QED BY <2>1, <2>3 DEF f
<1>6. HardCap
  <2>1. ASSUME NEW s \in HardLedgers PROVE SumFunctionOnSet(ExposedCost(s), Requests) <= Limit[Scope(s)]
    <3> DEFINE f == ExposedCost(s)
    <3>1. f \in [Requests -> Nat] /\ Limit[Scope(s)] \in Nat
      BY <1>1, TermTypes, HardLimits
    <3>2. \A x \in Requests : f[x] = 0
      BY DEF Init, ExposedCost, Exposure
    <3> HIDE DEF f
    <3>3. SumFunctionOnSet(f, Requests) = 0
      BY <1>3, <3>1, <3>2, RequestsAssumption, SumZero
    <3> QED BY <3>1, <3>3 DEF f
  <2> QED BY <1>1, <2>1, CapIsSum
<1> QED BY <1>1, <1>2, <1>4, <1>5, <1>6 DEF IInv

(* Every step keeps the invariant.                                         *)
LEMMA NextInv == IInv /\ [Next]_vars => IInv'
PROOF
<1> SUFFICES ASSUME IInv, [Next]_vars PROVE IInv'
  OBVIOUS
<1>1. CASE Tick
  BY <1>1, TickStep
<1>7. CASE NextDay
  BY <1>7, NextDayStep
<1>2. ASSUME NEW q \in Requests, Evaluate(q) PROVE IInv'
  <2>1. CASE EvaluateLocally(q)
    BY <2>1, EvaluateLocallyStep
  <2>2. ASSUME NEW s \in Ledgers, EvaluateScope(q, s) \/ EvaluateBlocked(q, s) PROVE IInv'
    BY <2>2, EvaluateScopeStep, EvaluateBlockedStep
  <2> QED BY <1>2, <2>1, <2>2 DEF Evaluate
<1>3. ASSUME NEW q \in Requests, Reserve(q) PROVE IInv'
  <2>0. lease \in SUBSET Requests
    BY DEF IInv, TypeOK
  <2>1. CASE ReserveGranted(q)
    <3>1. lease' \in SUBSET Requests
      BY <2>0, <2>1 DEF ReserveGranted
    <3> QED BY <2>1, <3>1, GrantStep DEF ReserveGranted
  <2>2. CASE ReserveReplyLost(q)
    <3>1. lease' \in SUBSET Requests
      BY <2>0, <2>2 DEF ReserveReplyLost
    <3> QED BY <2>2, <3>1, GrantStep DEF ReserveReplyLost
  <2>3. CASE ReserveDenied(q)
    BY <2>3, ReserveDeniedStep
  <2>4. CASE CancelReserving(q)
    BY <2>4, CancelReservingStep
  <2>5. CASE ReserveUnavailable(q)
    BY <2>5, ReserveUnavailableStep
  <2> QED BY <1>3, <2>1, <2>2, <2>3, <2>4, <2>5 DEF Reserve
<1>4. ASSUME NEW q \in Requests, Account(q) PROVE IInv'
  <2>1. CASE EndUncharged(q) \/ Delivered(q) \/ Record(q) \/ RecordLost(q)
    BY <2>1, EndUnchargedStep, DeliveredStep, RecordStep, RecordLostStep
  <2>2. CASE CancelRecording(q) \/ Settle(q) \/ SettleLost(q)
    BY <2>2, CancelRecordingStep, SettleStep, SettleLostStep
  <2>3. CASE BackgroundRelease(q) \/ ReleaseLost(q)
    BY <2>3, BackgroundReleaseStep, ReleaseLostStep
  <2> QED BY <1>4, <2>1, <2>2, <2>3 DEF Account
<1>5. ASSUME NEW q \in Requests, Crash(q) PROVE IInv'
  BY <1>5, CrashStep
<1>6. CASE UNCHANGED vars
  <2>1. UNCHANGED <<phase, placed, billed, cost, releasing, uncovered, redis>>
    BY <1>6 DEF vars
  <2>2. StoreTypes' /\ ReservedCovers' /\ \A x \in Requests : StoredIn(x) => StoredIn(x)'
    BY <2>1, StoreSame
  <2>3. TypeOK /\ CostsFit /\ ReleasesAreLate /\ InFlightIsStored /\ CostsAreBooked /\ HardCap
    BY DEF IInv
  <2>4. TypeOK' /\ CostsFit' /\ ReleasesAreLate'
    BY <1>6, <2>3 DEF TypeOK, CostsFit, ReleasesAreLate, vars, redis
  <2>5. InFlightIsStored'
    BY <2>1, <2>2, <2>3 DEF InFlightIsStored, InFlight
  <2>6. CostsAreBooked'
    BY <2>1, <2>3 DEF CostsAreBooked, BookedCost, InFlight, redis
  <2>7. HardCap'
    <3>1. \A x \in Requests : Exposure(x)' = Exposure(x) /\ Exposure(x) \in Nat /\ Covers(x)' = Covers(x)
      BY <2>1, <2>3, AmountAssumption DEF Exposure, Covers, TypeOK
    <3>2. \A x \in Requests : x \notin uncovered' => NoDearer(x)
      BY <3>1 DEF NoDearer
    <3>3. uncovered \subseteq uncovered'
      BY <2>1
    <3> QED BY <2>4, <3>2, <3>3, CapKept
  <2> QED BY <2>2, <2>4, <2>5, <2>6, <2>7 DEF IInv
<1> QED BY <1>1, <1>2, <1>3, <1>4, <1>5, <1>6, <1>7 DEF Next

-----------------------------------------------------------------------------
(* The theorems. *)

(* Every reachable state of the fleet's ledgers satisfies the invariant:   *)
(* its counters are never negative, covered deliveries have their          *)
(* reservations, and what covered requests cost is booked.                 *)
THEOREM Invariance == Spec => []IInv
PROOF BY InitInv, NextInv, PTL DEF Spec

(* Requests racing for the same remaining balance of a blocking budget     *)
(* never pass it together in the period they reserved in, whatever is      *)
(* cancelled, lost or retried and whenever midnight falls, for any number  *)
(* of requests, budgets, windows and limits.  What a delivery across       *)
(* midnight costs the next period is outside: nothing is reserved there.   *)
THEOREM CapHolds == Spec => []HardCap
PROOF
<1>1. IInv => HardCap
  BY DEF IInv
<1> QED BY <1>1, Invariance, PTL

(* The reserved total of a ledger never falls below the reservations it    *)
(* still stores: none is given back twice, by expiry and by a late release.*)
THEOREM NoDoubleRelease == Spec => []ReservedCovers
PROOF
<1>1. IInv => ReservedCovers
  BY DEF IInv
<1> QED BY <1>1, Invariance, PTL

-----------------------------------------------------------------------------
(* Reservations are stored whole. *)

(* Nothing is stored of the request.                                       *)
NothingIn(q) == \A s \in Ledgers : amounts[s][q] = 0

(* The request has not called the store yet.                               *)
Early(q) == phase[q] \in {"idle", "allowed"}

(* A reservation before its deadline is in all ledgers of its request,     *)
(* under keys that outlive it, or in none; what is stored of a request is  *)
(* in ledgers it was dated for, and nothing is while it may still be dated *)
(* anew.                                                                   *)
Whole ==
  \A q \in Requests :
    /\ left[q] > 0 => StoredIn(q) \/ NothingIn(q)
    /\ \A s \in Ledgers : amounts[s][q] # 0 => s \in placed[q]
    /\ Early(q) => NothingIn(q)

(* What a step does to the store: one script, the clock, or nothing.       *)
LEMMA ScriptsOnly ==
  ASSUME TypeOK, Next
  PROVE  /\ \A x \in Requests : (Early(x)' => Early(x)) /\ (placed'[x] = placed[x] \/ Early(x))
         /\ \/ UNCHANGED redis
            \/ UNCHANGED placed /\ Tick
            \/ \E q \in Requests : /\ UNCHANGED placed
                                   /\ (Store(q) /\ Early(q) /\ ~Early(q)') \/ Purge(q) \/ Charge(q) \/ Release(q)
PROOF
<1>0. phase \in [Requests -> Phases] /\ placed \in [Requests -> SUBSET Ledgers]
  BY DEF TypeOK
<1> DEFINE Dated == \A x \in Requests : (Early(x)' => Early(x)) /\ (placed'[x] = placed[x] \/ Early(x))
<1>1. ASSUME NEW q \in Requests, Evaluate(q) \/ Crash(q) PROVE Dated /\ UNCHANGED redis
  BY <1>0, <1>1 DEF Evaluate, EvaluateScope, EvaluateBlocked, EvaluateLocally, Allow, Moves, Crash, dates, Early
<1>2. ASSUME NEW q \in Requests, Reserve(q)
      PROVE  Dated /\ UNCHANGED placed /\ (UNCHANGED redis \/ (Store(q) /\ Early(q) /\ ~Early(q)') \/ Purge(q))
  <2>1. Dated /\ UNCHANGED placed /\ Early(q) /\ ~Early(q)'
    BY <1>0, <1>2 DEF Reserve, ReserveGranted, ReserveDenied, CancelReserving, ReserveUnavailable,
                      ReserveReplyLost, Moves, dates, Early
  <2>2. UNCHANGED redis \/ Store(q) \/ Purge(q)
    BY <1>2 DEF Reserve, ReserveGranted, ReserveDenied, CancelReserving, ReserveUnavailable, ReserveReplyLost
  <2> QED BY <2>1, <2>2
<1>3. ASSUME NEW q \in Requests, Account(q)
      PROVE  Dated /\ UNCHANGED placed /\ (UNCHANGED redis \/ Charge(q) \/ Release(q))
  <2>1. Dated /\ UNCHANGED placed
    BY <1>0, <1>3 DEF Account, EndUncharged, Delivered, Record, RecordLost, CancelRecording, Settle, SettleLost,
                      BackgroundRelease, ReleaseLost, Moves, AfterRecord, dates, Early
  <2>2. UNCHANGED redis \/ Charge(q) \/ Release(q)
    BY <1>3 DEF Account, EndUncharged, Delivered, Record, RecordLost, CancelRecording, Settle, SettleLost,
                BackgroundRelease, ReleaseLost
  <2> QED BY <2>1, <2>2
<1>4. CASE Tick
  BY <1>4 DEF Tick, dates, Early
<1>5. CASE NextDay
  <2>1. UNCHANGED redis /\ \A x \in Requests : Early(x)' => Early(x)
    BY <1>5 DEF NextDay, Early
  <2>2. \A x \in Requests : placed'[x] = placed[x] \/ Early(x)
    BY <1>0, <1>5 DEF NextDay, Early
  <2> QED BY <2>1, <2>2
<1> HIDE DEF Dated
<1>6. Dated
  BY <1>1, <1>2, <1>3, <1>4, <1>5 DEF Next, Dated
<1>7. \/ UNCHANGED redis
      \/ UNCHANGED placed /\ Tick
      \/ \E q \in Requests : /\ UNCHANGED placed
                             /\ (Store(q) /\ Early(q) /\ ~Early(q)') \/ Purge(q) \/ Charge(q) \/ Release(q)
  <2>1. CASE Tick
    BY <2>1 DEF Tick, dates
  <2>2. CASE NextDay
    BY <2>2 DEF NextDay
  <2>3. ASSUME NEW q \in Requests, Reserve(q) \/ Account(q)
        PROVE  UNCHANGED redis \/ (UNCHANGED placed /\
                 ((Store(q) /\ Early(q) /\ ~Early(q)') \/ Purge(q) \/ Charge(q) \/ Release(q)))
    BY <1>2, <1>3, <2>3
  <2> QED BY <1>1, <2>1, <2>2, <2>3 DEF Next
<1> QED BY <1>6, <1>7 DEF Dated

(* A reservation that the step leaves alone, or takes out, stays whole.    *)
LEMMA WholeStays ==
  ASSUME IInv, Whole, NEW x \in Requests, left'[x] > 0 => left[x] > 0,
         (Early(x)' => Early(x)), placed'[x] = placed[x] \/ Early(x),
         StoredIn(x) /\ left'[x] > 0 /\ placed'[x] = placed[x] => StoredIn(x)' \/ NothingIn(x)',
         \A s \in Ledgers : amounts'[s][x] # 0 => amounts[s][x] # 0
  PROVE  /\ left'[x] > 0 => StoredIn(x)' \/ NothingIn(x)'
         /\ \A s \in Ledgers : amounts'[s][x] # 0 => s \in placed'[x]
         /\ Early(x)' => NothingIn(x)'
PROOF
<1>1. NothingIn(x) => NothingIn(x)'
  BY DEF NothingIn
<1>2. CASE Early(x)
  <2>1. NothingIn(x)'
    BY <1>1, <1>2 DEF Whole
  <2> QED BY <2>1 DEF NothingIn
<1>3. CASE ~Early(x)
  <2>1. placed'[x] = placed[x] /\ ~Early(x)'
    BY <1>3
  <2>2. \A s \in Ledgers : amounts'[s][x] # 0 => s \in placed'[x]
    BY <2>1 DEF Whole
  <2>3. left'[x] > 0 => StoredIn(x)' \/ NothingIn(x)'
    BY <1>1, <2>1 DEF Whole
  <2> QED BY <2>1, <2>2, <2>3
<1> QED BY <1>2, <1>3

(* A step keeps reservations whole.                                        *)
LEMMA WholeKept == IInv /\ Whole /\ [Next]_vars => Whole'
PROOF
<1> SUFFICES ASSUME IInv, Whole, [Next]_vars, NEW x \in Requests
             PROVE  /\ left'[x] > 0 => StoredIn(x)' \/ NothingIn(x)'
                    /\ \A s \in Ledgers : amounts'[s][x] # 0 => s \in placed'[x]
                    /\ Early(x)' => NothingIn(x)'
  BY DEF Whole
<1>0. StoreTypes /\ placed[x] \subseteq Ledgers /\ TypeOK
  BY DEF IInv, TypeOK, StoreTypes
<1>a. /\ (Early(x)' => Early(x)) /\ (placed'[x] = placed[x] \/ Early(x))
      /\ \/ UNCHANGED redis
         \/ UNCHANGED placed /\ Tick
         \/ \E q \in Requests : /\ UNCHANGED placed
                                /\ (Store(q) /\ Early(q) /\ ~Early(q)') \/ Purge(q) \/ Charge(q) \/ Release(q)
  <2>1. CASE UNCHANGED vars
    <3>1. UNCHANGED <<phase, placed, redis>>
      BY <2>1 DEF vars
    <3> QED BY <3>1 DEF Early
  <2>2. CASE Next
    BY <1>0, <2>2, ScriptsOnly
  <2> QED BY <2>1, <2>2
<1>1. CASE UNCHANGED redis
  <2>1. UNCHANGED <<left, amounts>>
    BY <1>1 DEF redis
  <2>2. placed'[x] = placed[x] /\ StoredIn(x) => StoredIn(x)'
    BY <1>1, StoreSame
  <2> QED BY <1>a, <2>1, <2>2, WholeStays
<1>2. CASE UNCHANGED placed /\ Tick
  <2>1. left[x] \in Nat /\ (left'[x] > 0 => left[x] > 0 /\ left'[x] = left[x] - 1)
    BY <1>0, <1>2 DEF Tick, StoreTypes
  <2>2. ASSUME StoredIn(x), left'[x] > 0 PROVE StoredIn(x)'
    <3>1. ASSUME NEW s \in placed'[x] PROVE amounts'[s][x] = Amount[x] /\ key_left'[s] >= left'[x]
      <4>1. s \in Ledgers /\ key_left[s] \in Nat /\ key_left[s] >= left[x] /\ amounts[s][x] = Amount[x]
        BY <1>0, <1>2, <2>2 DEF StoredIn, StoreTypes
      <4>2. key_left[s] > 0 /\ key_left[s] # 0
        BY <2>1, <2>2, <4>1
      <4>3. key_left'[s] = key_left[s] - 1 /\ amounts'[s] = amounts[s]
        BY <1>2, <4>1, <4>2 DEF Tick
      <4> QED BY <2>1, <2>2, <4>1, <4>3
    <3> QED BY <2>2, <3>1 DEF StoredIn
  <2>3. \A s \in Ledgers : amounts'[s][x] # 0 => amounts[s][x] # 0
    BY <1>2 DEF Tick
  <2> QED BY <1>a, <2>1, <2>2, <2>3, WholeStays
<1>3. ASSUME NEW q \in Requests, Store(q), UNCHANGED placed, Early(q), ~Early(q)'
      PROVE  /\ left'[x] > 0 => StoredIn(x)' \/ NothingIn(x)'
             /\ \A s \in Ledgers : amounts'[s][x] # 0 => s \in placed'[x]
             /\ Early(x)' => NothingIn(x)'
  <2>0. PurgedAmounts(q) \in [Ledgers -> [Requests -> Nat]]
    BY PurgeCovers
  <2>1. CASE x = q
    <3>1. StoredIn(x)'
      BY <1>3, <2>1, StoreKeeps
    <3>2. ASSUME NEW s \in Ledgers, s \notin placed[x] PROVE amounts'[s][x] = 0
      BY <1>3, <2>1, <3>2 DEF Store, Whole, NothingIn
    <3> QED BY <1>3, <2>1, <3>1, <3>2
  <2>2. CASE x # q
    <3>1. left'[x] = left[x]
      BY <1>0, <1>3, <2>2 DEF Store, StoreTypes
    <3>2. StoredIn(x) => StoredIn(x)'
      BY <1>3, StoreKeeps
    <3>3. ASSUME NEW s \in Ledgers PROVE amounts'[s][x] # 0 => amounts[s][x] # 0
      <4>1. PurgedAmounts(q)[s][x] # 0 => amounts[s][x] # 0
        BY DEF PurgedAmounts
      <4>2. amounts'[s][x] = PurgedAmounts(q)[s][x] \/ amounts'[s][x] = amounts[s][x]
        BY <1>3, <2>0, <2>2 DEF Store
      <4> QED BY <4>1, <4>2
    <3> QED BY <1>a, <3>1, <3>2, <3>3, WholeStays
  <2> QED BY <2>1, <2>2
<1>4. ASSUME NEW q \in Requests, Purge(q), UNCHANGED placed
      PROVE  /\ left'[x] > 0 => StoredIn(x)' \/ NothingIn(x)'
             /\ \A s \in Ledgers : amounts'[s][x] # 0 => s \in placed'[x]
             /\ Early(x)' => NothingIn(x)'
  <2>1. left' = left /\ (StoredIn(x) => StoredIn(x)')
    BY <1>4, PurgeKeeps DEF Purge
  <2>2. \A s \in Ledgers : amounts'[s][x] # 0 => amounts[s][x] # 0
    BY <1>4 DEF Purge, PurgedAmounts
  <2> QED BY <1>a, <2>1, <2>2, WholeStays
<1>5. ASSUME NEW q \in Requests, Charge(q), UNCHANGED placed
      PROVE  /\ left'[x] > 0 => StoredIn(x)' \/ NothingIn(x)'
             /\ \A s \in Ledgers : amounts'[s][x] # 0 => s \in placed'[x]
             /\ Early(x)' => NothingIn(x)'
  <2>1. UNCHANGED <<left, amounts>> /\ (StoredIn(x) => StoredIn(x)')
    BY <1>5, ChargeKeeps DEF Charge
  <2> QED BY <1>a, <2>1, WholeStays
<1>6. ASSUME NEW q \in Requests, Release(q), UNCHANGED placed
      PROVE  /\ left'[x] > 0 => StoredIn(x)' \/ NothingIn(x)'
             /\ \A s \in Ledgers : amounts'[s][x] # 0 => s \in placed'[x]
             /\ Early(x)' => NothingIn(x)'
  <2>1. left' = left
    BY <1>6 DEF Release
  <2>2. ASSUME NEW s \in Ledgers PROVE amounts'[s][x] # 0 => amounts[s][x] # 0
    <3>1. amounts[s] \in [Requests -> Nat] /\ x \in Requests
      BY <1>0 DEF StoreTypes
    <3>2. amounts'[s] = [amounts[s] EXCEPT ![q] = 0] \/ amounts'[s] = amounts[s]
      BY <1>6 DEF Release
    <3> QED BY <3>1, <3>2
  <2>3. StoredIn(x) => StoredIn(x)' \/ NothingIn(x)'
    <3>1. CASE x # q
      BY <1>6, <3>1, ReleaseKeeps
    <3>2. CASE x = q
      <4>1. ASSUME NEW s \in Ledgers PROVE amounts'[s][x] = 0
        <5>1. CASE s \in placed[x]
          <6>1. amounts[s] \in [Requests -> Nat] /\ amounts'[s] = [amounts[s] EXCEPT ![x] = 0]
            BY <1>0, <1>6, <3>2, <5>1 DEF Release, StoreTypes
          <6> QED BY <6>1
        <5>2. CASE s \notin placed[x]
          BY <2>2, <5>2 DEF Whole
        <5> QED BY <5>1, <5>2
      <4> QED BY <4>1 DEF NothingIn
    <3> QED BY <3>1, <3>2
  <2> QED BY <1>a, <2>1, <2>2, <2>3, WholeStays
<1> QED BY <1>a, <1>1, <1>2, <1>3, <1>4, <1>5, <1>6

(* A reservation that has not expired is in every ledger of its request or *)
(* in none, for any number of budgets and requests, although refusals      *)
(* purge, releases are late or lost and the keys of each ledger expire     *)
(* with its newest reservation.                                            *)
THEOREM StoredWhole == Spec => []AllOrNothing
PROOF
<1>1. Init => Whole
  BY DEF Init, Whole, NothingIn
<1>2. IInv /\ Whole => AllOrNothing
  BY DEF IInv, TypeOK, Whole, AllOrNothing, StoredIn, NothingIn
<1> QED BY <1>1, <1>2, WholeKept, Invariance, PTL DEF Spec

-----------------------------------------------------------------------------
(* Token reservations *)

Entries == [limit : Limits, window : Int, charge : Nat]

TokenTyped ==
  /\ clock \in Int /\ read \in [Turns -> Int]
  /\ window \in [Stores -> [Limits -> Int]] /\ tokens \in [Stores -> [Limits -> Int]]
  /\ pc \in [Turns -> PCs] /\ store \in [Turns -> Stores] /\ index \in [Turns -> Nat]
  /\ entries \in [Turns -> Seq(Entries)] /\ actual \in [Turns -> Nat]
  /\ strays \subseteq Turns

(* Entries es of q are those of its first limits.                          *)
Matches(q, es) ==
  /\ es \in Seq(Entries) /\ Len(es) <= Len(LimitsOf[q])
  /\ \A i \in 1 .. Len(es) : es[i].limit = LimitsOf[q][i]

(* The entries from k on charge what was reserved.                         *)
Unsettled(q, es, k) == \A i \in 1 .. Len(es) : i >= k => es[i].charge = Tokens[q]

Stage(q, p, st, es, ix, used, sy) ==
  /\ Matches(q, es)
  /\ p = "start" => es = <<>> /\ ix = 1 /\ q \notin sy
  /\ p = "reserving" =>
       /\ ix \in 1 .. Len(LimitsOf[q]) /\ Len(es) = ix - 1 /\ Unsettled(q, es, 1)
       /\ q \in sy => st = "local"
  /\ p = "rollback" => es # <<>> /\ Unsettled(q, es, 1)
  /\ p = "delivering" => es # <<>> /\ ix = 1 /\ Unsettled(q, es, 1)
  /\ p = "reconciling" => ix \in 1 .. Len(es) /\ Unsettled(q, es, ix) /\ used <= Tokens[q]

StageOf(q) == Stage(q, pc[q], store[q], entries[q], index[q], actual[q], strays)

(* What entries es charge to limit m in window w.                          *)
OwnCharge(es, m, w) ==
  SumFunctionOnSet([i \in DOMAIN es |-> es[i].charge],
                   {i \in DOMAIN es : es[i].limit = m /\ es[i].window = w})

StrayCharge(q, sy, t, m) ==
  IF t = "redis" /\ q \in sy /\ m \in Range(LimitsOf[q]) THEN Tokens[q] ELSE 0

(* What q answers for: its entry of the limit, or else the call it lost.   *)
Liability(q, st, es, sy, t, m, w) ==
  IF st = t /\ (\E i \in 1 .. Len(es) : es[i].limit = m) THEN OwnCharge(es, m, w)
  ELSE StrayCharge(q, sy, t, m)

LiabilityOf(q, t, m, w) == Liability(q, store[q], entries[q], strays, t, m, w)
Liabilities(t, m, w) == [q \in Turns |-> LiabilityOf(q, t, m, w)]

CountersCovered ==
  \A t \in Stores, m \in Limits :
    window[t][m] # NoWindow =>
      tokens[t][m] <= SumFunctionOnSet(Liabilities(t, m, window[t][m]), Turns)

TokenInv == TokenTyped /\ (\A q \in Turns : StageOf(q)) /\ CountersCovered

LEMMA TurnIs ==
  ASSUME NEW q \in Turns
  PROVE  /\ LimitsOf[q] \in Seq(Limits) /\ Len(LimitsOf[q]) \in Nat \ {0} /\ Tokens[q] \in Nat \ {0}
         /\ \A i \in 1 .. Len(LimitsOf[q]) : LimitsOf[q][i] \in Limits /\ LimitsOf[q][i] \in Range(LimitsOf[q])
         /\ \A i, j \in 1 .. Len(LimitsOf[q]) : LimitsOf[q][i] = LimitsOf[q][j] => i = j
PROOF
<1>1. LimitsOf[q] \in Seq(Limits) /\ LimitsOf[q] # <<>> /\ IsInjective(LimitsOf[q])
      /\ Tokens[q] \in Nat \ {0}
  BY TokenAssumption
<1>2. DOMAIN LimitsOf[q] = 1 .. Len(LimitsOf[q]) /\ Len(LimitsOf[q]) \in Nat
  BY <1>1
<1>3. Len(LimitsOf[q]) # 0
  BY <1>1
<1> QED
  BY <1>1, <1>2, <1>3 DEF IsInjective, Range

(* A request has at most one entry of a limit.                             *)
LEMMA OwnChargeIs ==
  ASSUME NEW q \in Turns, NEW es, Matches(q, es), NEW m, NEW w
  PROVE  /\ OwnCharge(es, m, w) \in Nat
         /\ \A i \in 1 .. Len(es) : es[i].limit = m =>
              OwnCharge(es, m, w) = (IF es[i].window = w THEN es[i].charge ELSE 0)
PROOF
<1> DEFINE D == DOMAIN es
           f == [i \in D |-> es[i].charge]
           own == {i \in D : es[i].limit = m /\ es[i].window = w}
<1>1. D = 1 .. Len(es) /\ Len(es) \in Nat /\ \A i \in D : es[i] \in Entries
  BY DEF Matches
<1>2. IsFiniteSet(D)
  BY <1>1, FS_Interval
<1>3. f \in [D -> Nat] /\ own \in SUBSET D /\ {} \in SUBSET D
  BY <1>1 DEF Entries
<1>4. OwnCharge(es, m, w) = SumFunctionOnSet(f, own)
  BY DEF OwnCharge
<1> HIDE DEF f, own
<1>5. OwnCharge(es, m, w) \in Nat
  BY <1>2, <1>3, <1>4, SumType
<1>6. ASSUME NEW i \in 1 .. Len(es), es[i].limit = m
      PROVE  OwnCharge(es, m, w) = (IF es[i].window = w THEN es[i].charge ELSE 0)
  <2>1. \A j \in own : j = i
    BY <1>1, <1>6, TurnIs DEF own, Matches
  <2>2. SumFunctionOnSet(f, {}) = 0
    BY <1>2, <1>3, SumZero
  <2>3. CASE es[i].window = w
    <3>1. own \ {i} = {} /\ f[i] = es[i].charge /\ i \in own
      BY <1>1, <1>6, <2>1, <2>3 DEF own, f
    <3>2. SumFunctionOnSet(f, own) = f[i] + SumFunctionOnSet(f, own \ {i})
      BY <1>2, <1>3, <3>1, SumElement
    <3>3. f[i] \in Nat
      BY <1>1, <1>3
    <3>4. SumFunctionOnSet(f, own \ {i}) = 0
      BY <2>2, <3>1
    <3>5. SumFunctionOnSet(f, own) = f[i]
      BY <3>2, <3>3, <3>4
    <3> QED
      BY <1>4, <2>3, <3>1, <3>5
  <2>4. CASE es[i].window # w
    <3>1. own = {}
      BY <2>1, <2>4 DEF own
    <3> QED
      BY <1>4, <2>2, <2>4, <3>1
  <2> QED
    BY <2>3, <2>4
<1> QED
  BY <1>5, <1>6

LEMMA LiabilityIs ==
  ASSUME NEW q \in Turns, NEW st, NEW es, Matches(q, es), NEW sy, NEW t, NEW m, NEW w
  PROVE  /\ Liability(q, st, es, sy, t, m, w) \in Nat
         /\ StrayCharge(q, sy, t, m) \in {0, Tokens[q]}
         /\ \A i \in 1 .. Len(es) : st = t /\ es[i].limit = m =>
              Liability(q, st, es, sy, t, m, w) = (IF es[i].window = w THEN es[i].charge ELSE 0)
         /\ st # t \/ (\A i \in 1 .. Len(es) : es[i].limit # m) =>
              Liability(q, st, es, sy, t, m, w) = StrayCharge(q, sy, t, m)
PROOF
<1>1. Tokens[q] \in Nat
  BY TurnIs
<1>2. StrayCharge(q, sy, t, m) \in {0, Tokens[q]}
  BY DEF StrayCharge
<1>3. OwnCharge(es, m, w) \in Nat
      /\ \A i \in 1 .. Len(es) : es[i].limit = m =>
           OwnCharge(es, m, w) = (IF es[i].window = w THEN es[i].charge ELSE 0)
  BY OwnChargeIs
<1> QED
  BY <1>1, <1>2, <1>3 DEF Liability

(* Without an entry of the limit only the lost calls count.                *)
LEMMA LiabilityStray ==
  ASSUME NEW q, NEW st, NEW es, NEW sy, NEW t, NEW m, NEW w,
         st # t \/ \A i \in 1 .. Len(es) : es[i].limit # m
  PROVE  Liability(q, st, es, sy, t, m, w) = StrayCharge(q, sy, t, m)
PROOF
  BY DEF Liability

LEMMA LiabilityOwn ==
  ASSUME NEW q \in Turns, NEW es, Matches(q, es), NEW sy, NEW t, NEW w, NEW i \in 1 .. Len(es)
  PROVE  Liability(q, t, es, sy, t, es[i].limit, w) = (IF es[i].window = w THEN es[i].charge ELSE 0)
PROOF
  BY LiabilityIs

(* What one entry charges to window w.                                     *)
EntryCharge(e, w) == IF e.window = w THEN e.charge ELSE 0

LEMMA LiabilityEntry ==
  ASSUME NEW q \in Turns, NEW es, Matches(q, es), NEW sy, NEW t, NEW w, NEW i \in 1 .. Len(es)
  PROVE  Liability(q, t, es, sy, t, es[i].limit, w) = EntryCharge(es[i], w)
PROOF
  BY LiabilityIs DEF EntryCharge

(* With no entries only the lost calls count, whatever the store.          *)
LEMMA LiabilityEmpty ==
  ASSUME NEW q, NEW st, NEW sy, NEW t, NEW m, NEW w
  PROVE  Liability(q, st, <<>>, sy, t, m, w) = StrayCharge(q, sy, t, m)
PROOF
  BY DEF Liability

(* Only q moves.                                                           *)
OthersAlone(q) ==
  \A p \in Turns \ {q} :
    /\ pc'[p] = pc[p] /\ store'[p] = store[p] /\ entries'[p] = entries[p]
    /\ index'[p] = index[p] /\ actual'[p] = actual[p] /\ (p \in strays' <=> p \in strays)

(* A step of q that accounts for what the counters gain.                   *)
LEMMA TurnStep ==
  ASSUME TokenInv, NEW q \in Turns, TokenTyped', StageOf(q)',
         OthersAlone(q),
         \A t \in Stores, m \in Limits :
           \/ /\ window'[t][m] = window[t][m]
              /\ tokens'[t][m] - Liability(q, store'[q], entries'[q], strays', t, m, window[t][m])
                   <= tokens[t][m] - LiabilityOf(q, t, m, window[t][m])
           \/ tokens'[t][m] <= Liability(q, store'[q], entries'[q], strays', t, m, window'[t][m])
  PROVE  TokenInv'
PROOF
<1>1. \A p \in Turns : StageOf(p)'
  BY DEF TokenInv, StageOf, Stage, OthersAlone
<1>2. \A p \in Turns : Matches(p, entries[p]) /\ Matches(p, entries'[p])
  BY <1>1 DEF TokenInv, StageOf, Stage
<1>3. IsFiniteSet(Turns) /\ Turns \in SUBSET Turns
  BY TokenAssumption
<1>4. ASSUME NEW t \in Stores, NEW m \in Limits, window'[t][m] # NoWindow
      PROVE  tokens'[t][m] <= SumFunctionOnSet(Liabilities(t, m, window[t][m])', Turns)
  <2> DEFINE w == window'[t][m]
             f == [p \in Turns |-> Liability(p, store[p], entries[p], strays, t, m, w)]
             g == [p \in Turns |-> Liability(p, store'[p], entries'[p], strays', t, m, w)]
  <2>1. f \in [Turns -> Nat] /\ g \in [Turns -> Nat]
    BY <1>2, LiabilityIs
  <2>2. \A p \in Turns \ {q} : f[p] = g[p]
    BY DEF Liability, StrayCharge, OthersAlone
  <2>3. g = Liabilities(t, m, window[t][m])'
    BY DEF Liabilities, LiabilityOf
  <2>4. f = Liabilities(t, m, w)
    BY DEF Liabilities, LiabilityOf
  <2>5. f[q] = LiabilityOf(q, t, m, w)
        /\ g[q] = Liability(q, store'[q], entries'[q], strays', t, m, w)
    BY DEF LiabilityOf
  <2> HIDE DEF w, f, g
  <2>6. SumFunctionOnSet(g, Turns) = (SumFunctionOnSet(f, Turns) - f[q]) + g[q]
    BY <1>3, <2>1, <2>2, SumChange
  <2>7. SumFunctionOnSet(f, Turns) \in Nat /\ f[q] \in Nat /\ g[q] \in Nat
        /\ SumFunctionOnSet(g, Turns) \in Nat
    BY <1>3, <2>1, SumType
  <2>8. SumFunctionOnSet(g, Turns) = g[q] + SumFunctionOnSet(g, Turns \ {q})
        /\ SumFunctionOnSet(g, Turns \ {q}) \in Nat
    BY <1>3, <2>1, SumElement, SumType
  <2>9. tokens[t][m] \in Int /\ tokens'[t][m] \in Int
    BY DEF TokenInv, TokenTyped
  <2>10. CASE /\ w = window[t][m]
              /\ tokens'[t][m] - g[q] <= tokens[t][m] - f[q]
    <3>1. tokens[t][m] <= SumFunctionOnSet(f, Turns)
      BY <1>4, <2>4, <2>10 DEF TokenInv, CountersCovered, w
    <3> QED
      BY <2>3, <2>6, <2>7, <2>9, <2>10, <3>1
  <2>11. CASE tokens'[t][m] <= g[q]
    BY <2>3, <2>7, <2>8, <2>9, <2>11
  <2> QED
    BY <2>5, <2>10, <2>11 DEF w
<1>5. CountersCovered'
  BY <1>4 DEF CountersCovered
<1> QED
  BY <1>1, <1>5 DEF TokenInv

(* What an action does to the counters of a limit leaves the others alone. *)
OthersKeep(t0, m0) ==
  \A t \in Stores, m \in Limits :
    t # t0 \/ m # m0 => window'[t][m] = window[t][m] /\ tokens'[t][m] = tokens[t][m]

CountersTyped ==
  window \in [Stores -> [Limits -> Int]] /\ tokens \in [Stores -> [Limits -> Int]]

(* An attempt takes the tokens at most once.                               *)
LEMMA AttemptIs ==
  ASSUME TokenTyped, NEW q \in Turns, Attempt(q), index[q] \in 1 .. Len(LimitsOf[q])
  PROVE  /\ CountersTyped' /\ OthersKeep(store[q], LimitOf(q))
         /\ window'[store[q]][LimitOf(q)] = WindowAt(q)
         /\ TokensFit(q) => \/ /\ window[store[q]][LimitOf(q)] = WindowAt(q)
                               /\ tokens'[store[q]][LimitOf(q)] = tokens[store[q]][LimitOf(q)] + Tokens[q]
                            \/ tokens'[store[q]][LimitOf(q)] = Tokens[q]
         /\ ~TokensFit(q) => \/ /\ window[store[q]][LimitOf(q)] = WindowAt(q)
                                /\ tokens'[store[q]][LimitOf(q)] = tokens[store[q]][LimitOf(q)]
                             \/ tokens'[store[q]][LimitOf(q)] = 0
PROOF
<1> DEFINE t0 == store[q]
           m0 == LimitOf(q)
           w0 == WindowAt(q)
           n0 == IF TokensFit(q) THEN Before(q) + Tokens[q] ELSE Before(q)
<1>1. t0 \in Stores /\ m0 \in Limits /\ w0 \in Int /\ Tokens[q] \in Nat
      /\ window \in [Stores -> [Limits -> Int]] /\ tokens \in [Stores -> [Limits -> Int]]
  BY TurnIs DEF TokenTyped, LimitOf, WindowAt
<1>2. window' = [window EXCEPT ![t0] = [@ EXCEPT ![m0] = w0]]
      /\ tokens' = [tokens EXCEPT ![t0] = [@ EXCEPT ![m0] = n0]]
  BY DEF Attempt, SetLimit
<1>3. Before(q) = IF window[t0][m0] = w0 THEN tokens[t0][m0] ELSE 0
  BY DEF Before, RolledTokens
<1>4. Before(q) \in Int /\ n0 \in Int
  BY <1>1, <1>3
<1>5. n0 = IF TokensFit(q) THEN Before(q) + Tokens[q] ELSE Before(q)
  OBVIOUS
<1> HIDE DEF t0, m0, w0, n0
<1>6. CountersTyped'
  BY <1>1, <1>2, <1>4 DEF CountersTyped
<1>7. OthersKeep(t0, m0) /\ window'[t0][m0] = w0 /\ tokens'[t0][m0] = n0
  BY <1>1, <1>2 DEF OthersKeep
<1>8. /\ TokensFit(q) => \/ window[t0][m0] = w0 /\ n0 = tokens[t0][m0] + Tokens[q]
                         \/ n0 = Tokens[q]
      /\ ~TokensFit(q) => (window[t0][m0] = w0 /\ n0 = tokens[t0][m0]) \/ n0 = 0
  BY <1>1, <1>3, <1>5
<1> QED
  BY <1>6, <1>7, <1>8 DEF t0, m0, w0

(* Tokens are given back in their own window.                              *)
LEMMA GiveBackIs ==
  ASSUME TokenTyped, NEW q \in Turns, GiveBack(q), Last(q) \in Entries
  PROVE  LET t == store[q]
             m == Last(q).limit
         IN /\ CountersTyped' /\ OthersKeep(t, m) /\ window'[t][m] = window[t][m]
            /\ window[t][m] = Last(q).window =>
                 tokens'[t][m] = tokens[t][m] - Tokens[q] \/ tokens'[t][m] = 0
            /\ window[t][m] # Last(q).window => tokens'[t][m] = tokens[t][m]
PROOF
<1> DEFINE t0 == store[q]
           m0 == Last(q).limit
           n == tokens[t0][m0] - Tokens[q]
           n0 == IF n < 0 THEN 0 ELSE n
<1>1. t0 \in Stores /\ m0 \in Limits /\ Tokens[q] \in Nat /\ n \in Int /\ n0 \in Int
      /\ window \in [Stores -> [Limits -> Int]] /\ tokens \in [Stores -> [Limits -> Int]]
  BY TurnIs DEF TokenTyped, Entries
<1>2. IF window[t0][m0] = Last(q).window
      THEN tokens' = [tokens EXCEPT ![t0] = [@ EXCEPT ![m0] = n0]] /\ window' = window
      ELSE window' = window /\ tokens' = tokens
  BY DEF GiveBack, counters
<1>3. n0 = tokens[t0][m0] - Tokens[q] \/ n0 = 0
  OBVIOUS
<1> HIDE DEF t0, m0, n0
<1>4. CASE window[t0][m0] = Last(q).window
  BY <1>1, <1>2, <1>3, <1>4 DEF CountersTyped, OthersKeep, t0, m0
<1>5. CASE window[t0][m0] # Last(q).window
  BY <1>1, <1>2, <1>5 DEF CountersTyped, OthersKeep, t0, m0
<1> QED
  BY <1>4, <1>5

(* A step that leaves the counters alone and gives up no liability.        *)
LEMMA QuietStep ==
  ASSUME TokenInv, NEW q \in Turns, TokenTyped', StageOf(q)', OthersAlone(q),
         window' = window, tokens' = tokens,
         \A t \in Stores, m \in Limits, w \in Int :
           LiabilityOf(q, t, m, w) <= Liability(q, store'[q], entries'[q], strays', t, m, w)
  PROVE  TokenInv'
PROOF
<1>1. Matches(q, entries[q]) /\ Matches(q, entries'[q])
  BY DEF TokenInv, StageOf, Stage
<1>2. ASSUME NEW t \in Stores, NEW m \in Limits
      PROVE  /\ window'[t][m] = window[t][m]
             /\ tokens'[t][m] - Liability(q, store'[q], entries'[q], strays', t, m, window[t][m])
                  <= tokens[t][m] - LiabilityOf(q, t, m, window[t][m])
  <2> DEFINE w == window[t][m]
             a == LiabilityOf(q, t, m, w)
             b == Liability(q, store'[q], entries'[q], strays', t, m, w)
  <2>1. w \in Int /\ tokens[t][m] \in Int /\ tokens'[t][m] = tokens[t][m] /\ window'[t][m] = w
    BY DEF TokenInv, TokenTyped
  <2>2. a \in Nat /\ b \in Nat
    BY <1>1, LiabilityIs DEF LiabilityOf
  <2>3. a <= b
    BY <2>1
  <2> HIDE DEF w, a, b
  <2>4. tokens'[t][m] - b <= tokens[t][m] - a
    BY <2>1, <2>2, <2>3
  <2> QED
    BY <2>1, <2>4 DEF w, a, b
<1> QED
  BY <1>2, TurnStep

LEMMA SameLiability ==
  ASSUME NEW q \in Turns, NEW st, NEW es, Matches(q, es), NEW sy, NEW t, NEW m, NEW w
  PROVE  Liability(q, st, es, sy, t, m, w) <= Liability(q, st, es, sy, t, m, w)
PROOF
  BY LiabilityIs

LEMMA ReserveTokensStep ==
  ASSUME TokenInv, NEW q \in Turns, ReserveTokens(q)
  PROVE  TokenInv'
PROOF
<1>1. TokenTyped'
  BY DEF TokenInv, TokenTyped, ReserveTokens, Go, PCs, Stores, counters
<1>2. entries[q] = <<>> /\ index[q] = 1 /\ q \notin strays /\ Matches(q, entries[q])
  BY DEF TokenInv, StageOf, Stage, ReserveTokens
<1>3. pc'[q] = "reserving" /\ entries' = entries /\ index' = index /\ strays' = strays
      /\ actual' = actual /\ window' = window /\ tokens' = tokens
  BY DEF ReserveTokens, Go, TokenInv, TokenTyped, counters
<1>4. Len(LimitsOf[q]) \in Nat \ {0}
  BY TurnIs
<1>5. StageOf(q)'
  BY <1>2, <1>3, <1>4 DEF StageOf, Stage, Unsettled
<1>6. OthersAlone(q)
  BY <1>3 DEF OthersAlone, ReserveTokens, Go, TokenInv, TokenTyped
<1>7. ASSUME NEW t \in Stores, NEW m \in Limits, NEW w \in Int
      PROVE  LiabilityOf(q, t, m, w) <= Liability(q, store'[q], entries'[q], strays', t, m, w)
  <2>1. StrayCharge(q, strays, t, m) \in {0, Tokens[q]} /\ Tokens[q] \in Nat
    BY <1>2, LiabilityIs, TurnIs
  <2>2. LiabilityOf(q, t, m, w) = StrayCharge(q, strays, t, m)
        /\ Liability(q, store'[q], entries'[q], strays', t, m, w) = StrayCharge(q, strays, t, m)
    BY <1>2, <1>3, LiabilityEmpty DEF LiabilityOf
  <2> QED
    BY <2>1, <2>2
<1> QED
  BY <1>1, <1>3, <1>5, <1>6, <1>7, QuietStep

LEMMA KeepChargeStep ==
  ASSUME TokenInv, NEW q \in Turns, KeepCharge(q) \/ ReconcileStops(q)
  PROVE  TokenInv'
PROOF
<1>1. TokenTyped'
  BY DEF TokenInv, TokenTyped, KeepCharge, ReconcileStops, Go, PCs, Stores, counters
<1>2. Matches(q, entries[q])
  BY DEF TokenInv, StageOf, Stage
<1>3. pc'[q] = "done" /\ UNCHANGED <<window, tokens, store, index, entries, actual, strays>>
  BY DEF KeepCharge, ReconcileStops, Go, TokenInv, TokenTyped, counters
<1>4. StageOf(q)'
  BY <1>2, <1>3 DEF StageOf, Stage
<1>5. OthersAlone(q)
  BY <1>3 DEF OthersAlone, KeepCharge, ReconcileStops, Go, TokenInv, TokenTyped
<1>6. \A t \in Stores, m \in Limits, w \in Int :
        LiabilityOf(q, t, m, w) <= Liability(q, store'[q], entries'[q], strays', t, m, w)
  BY <1>2, <1>3, SameLiability DEF LiabilityOf
<1> QED
  BY <1>1, <1>3, <1>4, <1>5, <1>6, QuietStep

LEMMA ExactUsageStep ==
  ASSUME TokenInv, NEW q \in Turns, ExactUsage(q)
  PROVE  TokenInv'
PROOF
<1>0. PICK n \in 0 .. Tokens[q] : actual' = [actual EXCEPT ![q] = n]
  BY DEF ExactUsage
<1>1. Tokens[q] \in Nat /\ n \in Nat /\ n <= Tokens[q]
  BY TurnIs
<1>2. TokenTyped'
  BY <1>0, <1>1 DEF TokenInv, TokenTyped, ExactUsage, Go, PCs, counters
<1>3. Matches(q, entries[q]) /\ entries[q] # <<>> /\ index[q] = 1 /\ Unsettled(q, entries[q], 1)
  BY DEF TokenInv, StageOf, Stage, ExactUsage
<1>4. pc'[q] = "reconciling" /\ actual'[q] = n
      /\ UNCHANGED <<window, tokens, store, index, entries, strays>>
  BY <1>0 DEF ExactUsage, Go, TokenInv, TokenTyped, counters
<1>5. index[q] \in 1 .. Len(entries[q])
  BY <1>3 DEF Matches
<1>6. StageOf(q)'
  BY <1>1, <1>3, <1>4, <1>5 DEF StageOf, Stage
<1>7. OthersAlone(q)
  BY <1>0, <1>4 DEF OthersAlone, ExactUsage, Go, TokenInv, TokenTyped
<1>8. \A t \in Stores, m \in Limits, w \in Int :
        LiabilityOf(q, t, m, w) <= Liability(q, store'[q], entries'[q], strays', t, m, w)
  BY <1>3, <1>4, SameLiability DEF LiabilityOf
<1> QED
  BY <1>2, <1>4, <1>6, <1>7, <1>8, QuietStep

LEMMA WindowEndsStep ==
  ASSUME TokenInv, WindowEnds
  PROVE  TokenInv'
PROOF
<1>1. clock' \in Int /\ UNCHANGED <<window, tokens, pc, read, store, index, entries, actual, strays>>
  BY DEF TokenInv, TokenTyped, WindowEnds, counters
<1>2. TokenTyped' /\ \A q \in Turns : StageOf(q)'
  BY <1>1 DEF TokenInv, TokenTyped, StageOf
<1>3. CountersCovered'
  BY <1>1 DEF TokenInv, CountersCovered, Liabilities, LiabilityOf
<1> QED
  BY <1>2, <1>3 DEF TokenInv

(* A request owes nothing yet to the limit it is about to take.            *)
LEMMA NothingOwedYet ==
  ASSUME TokenInv, NEW q \in Turns, pc[q] = "reserving"
  PROVE  /\ Matches(q, entries[q]) /\ index[q] \in 1 .. Len(LimitsOf[q])
         /\ Len(entries[q]) = index[q] - 1 /\ Unsettled(q, entries[q], 1)
         /\ store[q] \in Stores /\ LimitOf(q) \in Limits /\ LimitOf(q) \in Range(LimitsOf[q])
         /\ \A i \in 1 .. Len(entries[q]) : entries[q][i].limit # LimitOf(q)
         /\ \A w : LiabilityOf(q, store[q], LimitOf(q), w) = 0
PROOF
<1>1. Matches(q, entries[q]) /\ index[q] \in 1 .. Len(LimitsOf[q])
      /\ Len(entries[q]) = index[q] - 1 /\ Unsettled(q, entries[q], 1)
      /\ (q \in strays => store[q] = "local")
  BY DEF TokenInv, StageOf, Stage
<1>2. store[q] \in Stores /\ LimitOf(q) \in Limits /\ LimitOf(q) \in Range(LimitsOf[q])
  BY <1>1, TurnIs DEF TokenInv, TokenTyped, LimitOf
<1>3. \A i \in 1 .. Len(entries[q]) : entries[q][i].limit # LimitOf(q)
  BY <1>1, TurnIs DEF Matches, LimitOf
<1>4. StrayCharge(q, strays, store[q], LimitOf(q)) = 0
  BY <1>1 DEF StrayCharge
<1>5. \A w : LiabilityOf(q, store[q], LimitOf(q), w) = StrayCharge(q, strays, store[q], LimitOf(q))
  BY <1>3, LiabilityStray DEF LiabilityOf
<1> QED
  BY <1>1, <1>2, <1>3, <1>4, <1>5

(* A step that attempts the next limit and answers for what it took.       *)
LEMMA AttemptStep ==
  ASSUME TokenInv, NEW q \in Turns, pc[q] = "reserving", Attempt(q),
         TokenTyped', StageOf(q)', OthersAlone(q),
         \A t \in Stores, m \in Limits, w \in Int : t # store[q] \/ m # LimitOf(q) =>
           LiabilityOf(q, t, m, w) <= Liability(q, store'[q], entries'[q], strays', t, m, w),
         TokensFit(q) => Liability(q, store'[q], entries'[q], strays', store[q], LimitOf(q),
                                   WindowAt(q)) >= Tokens[q]
  PROVE  TokenInv'
PROOF
<1> DEFINE L(t, m, w) == Liability(q, store'[q], entries'[q], strays', t, m, w)
           K(t, m, w) == LiabilityOf(q, t, m, w)
<1>1. Matches(q, entries[q]) /\ Matches(q, entries'[q]) /\ TokenTyped
  BY DEF TokenInv, StageOf, Stage
<1>2. \A t, m, w : L(t, m, w) \in Nat /\ K(t, m, w) \in Nat
  BY <1>1, LiabilityIs DEF LiabilityOf
<1>3. index[q] \in 1 .. Len(LimitsOf[q]) /\ store[q] \in Stores /\ LimitOf(q) \in Limits
      /\ \A w : K(store[q], LimitOf(q), w) = 0
  BY NothingOwedYet
<1>4. Tokens[q] \in Nat
  BY TurnIs
<1>5. \A t \in Stores, m \in Limits : window[t][m] \in Int /\ tokens[t][m] \in Int
                                       /\ tokens'[t][m] \in Int
  BY DEF TokenInv, TokenTyped
<1>6. \A t \in Stores, m \in Limits, w \in Int : t # store[q] \/ m # LimitOf(q) => K(t, m, w) <= L(t, m, w)
  OBVIOUS
<1>7. TokensFit(q) => L(store[q], LimitOf(q), WindowAt(q)) >= Tokens[q]
  OBVIOUS
<1> HIDE DEF L, K
<1>8. ASSUME NEW t \in Stores, NEW m \in Limits
      PROVE  \/ /\ window'[t][m] = window[t][m]
                /\ tokens'[t][m] - L(t, m, window[t][m]) <= tokens[t][m] - K(t, m, window[t][m])
             \/ tokens'[t][m] <= L(t, m, window'[t][m])
  <2> DEFINE w == window[t][m]
  <2>1. CASE t # store[q] \/ m # LimitOf(q)
    <3>1. window'[t][m] = w /\ tokens'[t][m] = tokens[t][m]
      BY <1>1, <1>3, <2>1, AttemptIs DEF OthersKeep
    <3>2. K(t, m, w) <= L(t, m, w) /\ K(t, m, w) \in Nat /\ L(t, m, w) \in Nat /\ tokens[t][m] \in Int
      BY <1>2, <1>5, <1>6, <2>1
    <3> QED
      BY <3>1, <3>2
  <2>2. CASE t = store[q] /\ m = LimitOf(q)
    <3>1. /\ window'[t][m] = WindowAt(q)
          /\ TokensFit(q) => \/ w = WindowAt(q) /\ tokens'[t][m] = tokens[t][m] + Tokens[q]
                             \/ tokens'[t][m] = Tokens[q]
          /\ ~TokensFit(q) => (w = WindowAt(q) /\ tokens'[t][m] = tokens[t][m]) \/ tokens'[t][m] = 0
      BY <1>1, <1>3, <2>2, AttemptIs
    <3>2. K(t, m, w) = 0 /\ L(t, m, w) \in Nat /\ L(t, m, WindowAt(q)) \in Nat
          /\ (TokensFit(q) => L(t, m, WindowAt(q)) >= Tokens[q])
      BY <1>2, <1>3, <1>7, <2>2
    <3>3. tokens[t][m] \in Int /\ w \in Int
      BY <1>5
    <3> HIDE DEF w
    <3>4. CASE TokensFit(q)
      <4>1. CASE w = WindowAt(q) /\ tokens'[t][m] = tokens[t][m] + Tokens[q]
        <5>1. L(t, m, w) >= Tokens[q] /\ window'[t][m] = w
          BY <3>1, <3>2, <3>4, <4>1
        <5>2. tokens'[t][m] - L(t, m, w) <= tokens[t][m] - K(t, m, w)
          BY <1>4, <3>2, <3>3, <4>1, <5>1
        <5> QED
          BY <5>1, <5>2 DEF w
      <4>2. CASE tokens'[t][m] = Tokens[q]
        BY <1>4, <3>1, <3>2, <3>4, <4>2
      <4> QED
        BY <3>1, <3>4, <4>1, <4>2
    <3>5. CASE ~TokensFit(q)
      <4>1. CASE w = WindowAt(q) /\ tokens'[t][m] = tokens[t][m]
        <5>1. window'[t][m] = w
          BY <3>1, <4>1
        <5>2. tokens'[t][m] - L(t, m, w) <= tokens[t][m] - K(t, m, w)
          BY <3>2, <3>3, <4>1
        <5> QED
          BY <5>1, <5>2 DEF w
      <4>2. CASE tokens'[t][m] = 0
        BY <3>1, <3>2, <4>2
      <4> QED
        BY <3>1, <3>5, <4>1, <4>2
    <3> QED
      BY <3>4, <3>5
  <2> QED
    BY <2>1, <2>2
<1> QED
  BY <1>8, TurnStep DEF L, K

LEMMA ReserveLimitStep ==
  ASSUME TokenInv, NEW q \in Turns, ReserveLimit(q)
  PROVE  TokenInv'
PROOF
<1> DEFINE es == entries[q]
           e == [limit |-> LimitOf(q), window |-> WindowAt(q), charge |-> Tokens[q]]
<1>0. pc[q] = "reserving" /\ TokenTyped
  BY DEF ReserveLimit, TokenInv
<1>1. /\ Matches(q, es) /\ index[q] \in 1 .. Len(LimitsOf[q]) /\ Len(es) = index[q] - 1
      /\ Unsettled(q, es, 1) /\ store[q] \in Stores /\ LimitOf(q) \in Limits
      /\ \A i \in 1 .. Len(es) : es[i].limit # LimitOf(q)
  BY <1>0, NothingOwedYet
<1>2. Tokens[q] \in Nat \ {0} /\ Len(LimitsOf[q]) \in Nat /\ WindowAt(q) \in Int
  BY <1>0, TurnIs DEF WindowAt, TokenTyped
<1>3. e \in Entries /\ e.limit = LimitOf(q) /\ e.window = WindowAt(q) /\ e.charge = Tokens[q]
  BY <1>1, <1>2 DEF Entries
<1>4. entries' = [entries EXCEPT ![q] = Append(es, e)] /\ Attempt(q) /\ TokensFit(q)
      /\ UNCHANGED <<clock, read, store, actual, strays>>
  BY DEF ReserveLimit
<1>5. LimitOf(q) = LimitsOf[q][index[q]]
  BY DEF LimitOf
<1> HIDE DEF e
<1> DEFINE fs == Append(es, e)
<1>6. /\ fs \in Seq(Entries) /\ Len(fs) = Len(es) + 1 /\ Len(es) \in Nat
      /\ \A i \in 1 .. Len(es) : fs[i] = es[i]
      /\ fs[Len(es) + 1] = e /\ fs # <<>>
  BY <1>1, <1>3 DEF Matches
<1>7. entries'[q] = fs
  BY <1>0, <1>4 DEF TokenTyped
<1> HIDE DEF fs
<1>8. Matches(q, fs) /\ Unsettled(q, fs, 1)
  <2>1. \A i \in 1 .. Len(fs) : i \in 1 .. Len(es) \/ i = Len(es) + 1
    BY <1>6
  <2>2. Len(fs) <= Len(LimitsOf[q])
    BY <1>1, <1>2, <1>6
  <2>3. \A i \in 1 .. Len(es) : es[i].limit = LimitsOf[q][i] /\ es[i].charge = Tokens[q]
    <3>1. \A i \in 1 .. Len(es) : i >= 1
      OBVIOUS
    <3> QED
      BY <1>1, <3>1 DEF Matches, Unsettled
  <2>4. Len(es) + 1 = index[q]
    BY <1>1, <1>6
  <2>5. \A i \in 1 .. Len(fs) : fs[i].limit = LimitsOf[q][i] /\ fs[i].charge = Tokens[q]
    BY <1>3, <1>5, <1>6, <2>1, <2>3, <2>4
  <2> QED
    BY <1>6, <2>2, <2>5 DEF Matches, Unsettled
<1>9. index'[q] = (IF index[q] = Len(LimitsOf[q]) THEN 1 ELSE index[q] + 1)
      /\ pc'[q] = (IF index[q] = Len(LimitsOf[q]) THEN "delivering" ELSE "reserving")
      /\ pc' \in [Turns -> PCs] /\ index' \in [Turns -> Nat]
      /\ \A p \in Turns \ {q} : pc'[p] = pc[p] /\ index'[p] = index[p]
  <2>1. index[q] \in Nat /\ pc \in [Turns -> PCs] /\ index \in [Turns -> Nat]
    BY <1>0 DEF TokenTyped
  <2>2. CASE index[q] = Len(LimitsOf[q])
    <3>1. pc' = [pc EXCEPT ![q] = "delivering"] /\ index' = [index EXCEPT ![q] = 1]
      BY <2>2 DEF ReserveLimit, Go
    <3> QED
      BY <2>1, <2>2, <3>1 DEF PCs
  <2>3. CASE index[q] # Len(LimitsOf[q])
    <3>1. pc' = pc /\ index' = [index EXCEPT ![q] = index[q] + 1]
      BY <2>3 DEF ReserveLimit
    <3> QED
      BY <1>0, <2>1, <2>3, <3>1
  <2> QED
    BY <2>2, <2>3
<1>10. TokenTyped'
  <2>1. CountersTyped'
    BY <1>0, <1>1, <1>4, AttemptIs
  <2>2. entries' \in [Turns -> Seq(Entries)]
    BY <1>0, <1>4, <1>6 DEF TokenTyped, fs
  <2> QED
    BY <1>0, <1>4, <1>9, <2>1, <2>2 DEF TokenTyped, CountersTyped
<1>11. StageOf(q)'
  <2>1. q \in strays => store[q] = "local"
    BY <1>0 DEF TokenInv, StageOf, Stage
  <2>2. store' = store /\ strays' = strays /\ actual' = actual
    BY <1>4
  <2>3. CASE index[q] = Len(LimitsOf[q])
    <3>1. pc'[q] = "delivering" /\ index'[q] = 1
      BY <1>9, <2>3
    <3> QED
      BY <1>6, <1>7, <1>8, <3>1 DEF StageOf, Stage
  <2>4. CASE index[q] # Len(LimitsOf[q])
    <3>1. pc'[q] = "reserving" /\ index'[q] = index[q] + 1
      BY <1>9, <2>4
    <3>2. index[q] \in 1 .. Len(LimitsOf[q]) /\ Len(es) = index[q] - 1 /\ Len(fs) = Len(es) + 1
      BY <1>1, <1>6
    <3>3. index[q] + 1 \in 1 .. Len(LimitsOf[q])
      <4>1. \A n \in Nat : \A k \in 1 .. n : k # n => k + 1 \in 1 .. n
        OBVIOUS
      <4> QED
        BY <1>2, <2>4, <3>2, <4>1
    <3>4. Len(fs) = (index[q] + 1) - 1
      BY <3>2
    <3> QED
      BY <1>7, <1>8, <2>1, <2>2, <3>1, <3>3, <3>4 DEF StageOf, Stage
  <2> QED
    BY <2>3, <2>4
<1>12. OthersAlone(q)
  BY <1>0, <1>4, <1>9 DEF OthersAlone, TokenTyped
<1>13. ASSUME NEW t \in Stores, NEW m \in Limits, NEW w \in Int, t # store[q] \/ m # LimitOf(q)
       PROVE  LiabilityOf(q, t, m, w) <= Liability(q, store'[q], entries'[q], strays', t, m, w)
  <2>1. LiabilityOf(q, t, m, w) = Liability(q, store[q], es, strays, t, m, w)
        /\ Liability(q, store'[q], entries'[q], strays', t, m, w) =
             Liability(q, store[q], fs, strays, t, m, w)
    BY <1>4, <1>7 DEF LiabilityOf
  <2>2. Liability(q, store[q], es, strays, t, m, w) \in Nat
    BY <1>1, LiabilityIs
  <2>3. CASE store[q] = t /\ \E i \in 1 .. Len(es) : es[i].limit = m
    <3>1. PICK i \in 1 .. Len(es) : es[i].limit = m
      BY <2>3
    <3>2. i \in 1 .. Len(fs) /\ fs[i] = es[i]
      BY <1>6
    <3>3. Liability(q, store[q], es, strays, t, m, w) = (IF es[i].window = w THEN es[i].charge ELSE 0)
      BY <1>1, <2>3, <3>1, LiabilityIs
    <3>4. Liability(q, store[q], fs, strays, t, m, w) = (IF fs[i].window = w THEN fs[i].charge ELSE 0)
      BY <1>8, <2>3, <3>1, <3>2, LiabilityIs
    <3> QED
      BY <2>1, <2>2, <3>2, <3>3, <3>4
  <2>4. CASE store[q] # t \/ \A i \in 1 .. Len(es) : es[i].limit # m
    <3>1. store[q] # t \/ \A i \in 1 .. Len(fs) : fs[i].limit # m
      <4>1. \A i \in 1 .. Len(fs) : i \in 1 .. Len(es) \/ i = Len(es) + 1
        BY <1>6
      <4> QED
        BY <1>3, <1>6, <1>13, <2>4, <4>1
    <3>2. Liability(q, store[q], es, strays, t, m, w) = StrayCharge(q, strays, t, m)
      BY <2>4, LiabilityStray
    <3>3. Liability(q, store[q], fs, strays, t, m, w) = StrayCharge(q, strays, t, m)
      BY <3>1, LiabilityStray
    <3> QED
      BY <2>1, <2>2, <3>2, <3>3
  <2> QED
    BY <2>3, <2>4
<1>14. Liability(q, store'[q], entries'[q], strays', store[q], LimitOf(q), WindowAt(q)) >= Tokens[q]
  <2>1. Len(es) + 1 \in 1 .. Len(fs)
    BY <1>6
  <2>2. Liability(q, store[q], fs, strays, store[q], LimitOf(q), WindowAt(q)) = Tokens[q]
    BY <1>3, <1>6, <1>8, <2>1, LiabilityIs
  <2>3. store' = store /\ strays' = strays
    BY <1>4
  <2> QED
    BY <1>2, <1>7, <2>2, <2>3
<1> QED
  BY <1>0, <1>4, <1>10, <1>11, <1>12, <1>13, <1>14, AttemptStep

LEMMA RejectLimitStep ==
  ASSUME TokenInv, NEW q \in Turns, RejectLimit(q)
  PROVE  TokenInv'
PROOF
<1>0. pc[q] = "reserving" /\ TokenTyped /\ Attempt(q) /\ ~TokensFit(q)
      /\ UNCHANGED <<clock, read, store, index, entries, actual, strays>>
      /\ pc' = [pc EXCEPT ![q] = IF entries[q] = <<>> THEN "done" ELSE "rollback"]
  BY DEF RejectLimit, TokenInv, Go
<1>1. Matches(q, entries[q]) /\ index[q] \in 1 .. Len(LimitsOf[q]) /\ Unsettled(q, entries[q], 1)
  BY <1>0, NothingOwedYet
<1>2. TokenTyped'
  <2>1. CountersTyped'
    BY <1>0, <1>1, AttemptIs
  <2>2. pc' \in [Turns -> PCs]
    BY <1>0 DEF TokenTyped, PCs
  <2> QED
    BY <1>0, <2>1, <2>2 DEF TokenTyped, CountersTyped
<1>3. StageOf(q)'
  BY <1>0, <1>1 DEF StageOf, Stage, TokenTyped
<1>4. OthersAlone(q)
  BY <1>0 DEF OthersAlone, TokenTyped
<1>5. \A t \in Stores, m \in Limits, w \in Int :
        LiabilityOf(q, t, m, w) <= Liability(q, store'[q], entries'[q], strays', t, m, w)
  BY <1>0, <1>1, SameLiability DEF LiabilityOf
<1> QED
  BY <1>0, <1>2, <1>3, <1>4, <1>5, AttemptStep

(* A lost call only adds to what a request answers for.                    *)
LEMMA MoreStrays ==
  ASSUME NEW q \in Turns, NEW st, NEW es, Matches(q, es), NEW sy, NEW sz, sy \subseteq sz,
         NEW t, NEW m, NEW w
  PROVE  /\ StrayCharge(q, sy, t, m) <= StrayCharge(q, sz, t, m)
         /\ Liability(q, st, es, sy, t, m, w) <= Liability(q, st, es, sz, t, m, w)
PROOF
<1>1. Tokens[q] \in Nat /\ OwnCharge(es, m, w) \in Nat
  BY TurnIs, OwnChargeIs
<1>2. StrayCharge(q, sy, t, m) <= StrayCharge(q, sz, t, m)
  BY <1>1 DEF StrayCharge
<1> QED
  BY <1>1, <1>2 DEF Liability

LEMMA LostCall ==
  ASSUME NEW q \in Turns, NEW sy, q \in sy, NEW m \in Range(LimitsOf[q])
  PROVE  StrayCharge(q, sy, "redis", m) = Tokens[q]
PROOF
  BY DEF StrayCharge

LEMMA ReserveFailsStep ==
  ASSUME TokenInv, NEW q \in Turns, ReserveFails(q)
  PROVE  TokenInv'
PROOF
<1> DEFINE es == entries[q]
<1>0. /\ TokenTyped /\ pc[q] = "reserving" /\ store[q] = "redis"
      /\ UNCHANGED <<clock, read, entries, actual>>
      /\ \/ UNCHANGED <<window, tokens, strays>>
         \/ Attempt(q) /\ strays' = strays \union {q}
  BY DEF ReserveFails, TokenInv, counters
<1>1. /\ Matches(q, es) /\ index[q] \in 1 .. Len(LimitsOf[q]) /\ Unsettled(q, es, 1)
      /\ LimitOf(q) \in Range(LimitsOf[q]) /\ \A i \in 1 .. Len(es) : es[i].limit # LimitOf(q)
  BY <1>0, NothingOwedYet
<1>2. strays \subseteq strays' /\ strays' \subseteq Turns
  BY <1>0 DEF TokenTyped
<1>3. CountersTyped'
  BY <1>0, <1>1, AttemptIs DEF TokenTyped, CountersTyped
<1>4. Len(LimitsOf[q]) \in Nat \ {0} /\ Tokens[q] \in Nat
  BY TurnIs
<1>5. /\ TokenTyped' /\ StageOf(q)' /\ OthersAlone(q)
      /\ es = <<>> \/ store' = store
  <2>1. CASE es = <<>>
    <3>1. pc' = [pc EXCEPT ![q] = "reserving"] /\ store' = [store EXCEPT ![q] = "local"]
          /\ index' = [index EXCEPT ![q] = 1]
      BY <2>1 DEF ReserveFails, FallBack, Go
    <3>2. TokenTyped'
      BY <1>0, <1>2, <1>3, <3>1 DEF TokenTyped, CountersTyped, PCs, Stores
    <3>3. pc'[q] = "reserving" /\ store'[q] = "local" /\ index'[q] = 1 /\ entries'[q] = <<>>
      BY <1>0, <2>1, <3>1 DEF TokenTyped
    <3>4. 1 \in 1 .. Len(LimitsOf[q]) /\ Len(<<>>) = 1 - 1
      BY <1>4
    <3>5. StageOf(q)'
      BY <1>1, <2>1, <3>3, <3>4 DEF StageOf, Stage
    <3>6. OthersAlone(q)
      BY <1>0, <3>1 DEF OthersAlone, TokenTyped
    <3> QED
      BY <2>1, <3>2, <3>5, <3>6
  <2>2. CASE es # <<>>
    <3>1. pc' = [pc EXCEPT ![q] = "rollback"] /\ store' = store /\ index' = index
      BY <2>2 DEF ReserveFails, Go
    <3>2. TokenTyped'
      BY <1>0, <1>2, <1>3, <3>1 DEF TokenTyped, CountersTyped, PCs
    <3>3. pc'[q] = "rollback" /\ entries'[q] = es
      BY <1>0, <3>1 DEF TokenTyped
    <3>4. StageOf(q)'
      BY <1>1, <2>2, <3>3 DEF StageOf, Stage
    <3>5. OthersAlone(q)
      BY <1>0, <3>1 DEF OthersAlone, TokenTyped
    <3> QED
      BY <3>1, <3>2, <3>4, <3>5
  <2> QED
    BY <2>1, <2>2
<1>6. ASSUME NEW t \in Stores, NEW m \in Limits, NEW w \in Int
      PROVE  LiabilityOf(q, t, m, w) <= Liability(q, store'[q], entries'[q], strays', t, m, w)
  <2>1. entries'[q] = es /\ LiabilityOf(q, t, m, w) = Liability(q, store[q], es, strays, t, m, w)
    BY <1>0 DEF LiabilityOf
  <2>2. CASE es = <<>>
    BY <1>1, <1>2, <2>1, <2>2, MoreStrays, LiabilityEmpty
  <2>3. CASE store' = store
    BY <1>1, <1>2, <2>1, <2>3, MoreStrays
  <2> QED
    BY <1>5, <2>2, <2>3
<1>7. CASE UNCHANGED <<window, tokens, strays>>
  BY <1>5, <1>6, <1>7, QuietStep
<1>8. CASE Attempt(q) /\ strays' = strays \union {q}
  <2>1. Liability(q, store'[q], entries'[q], strays', store[q], LimitOf(q), WindowAt(q))
          = StrayCharge(q, strays', "redis", LimitOf(q))
    BY <1>0, <1>1, LiabilityStray
  <2>2. StrayCharge(q, strays', "redis", LimitOf(q)) = Tokens[q]
    BY <1>1, <1>8, LostCall
  <2>3. Liability(q, store'[q], entries'[q], strays', store[q], LimitOf(q), WindowAt(q)) >= Tokens[q]
    BY <1>4, <2>1, <2>2
  <2> QED
    BY <1>0, <1>5, <1>6, <1>8, <2>3, AttemptStep
<1> QED
  BY <1>0, <1>7, <1>8

(* The entries without the newest one.                                     *)
Older(es) == SubSeq(es, 1, Len(es) - 1)

LEMMA OlderIs ==
  ASSUME NEW q \in Turns, NEW es, Matches(q, es), es # <<>>, Unsettled(q, es, 1)
  PROVE  /\ Matches(q, Older(es)) /\ Unsettled(q, Older(es), 1)
         /\ Len(es) \in 1 .. Len(LimitsOf[q]) /\ es[Len(es)] \in Entries
         /\ es[Len(es)].limit \in Limits /\ es[Len(es)].limit \in Range(LimitsOf[q])
         /\ es[Len(es)].charge = Tokens[q]
         /\ Len(Older(es)) = Len(es) - 1
         /\ \A i \in 1 .. Len(Older(es)) :
              i \in 1 .. Len(es) /\ Older(es)[i] = es[i] /\ es[i].limit # es[Len(es)].limit
         /\ \A i \in 1 .. Len(es) : i \in 1 .. Len(Older(es)) \/ i = Len(es)
PROOF
<1> DEFINE fs == Older(es)
           n == Len(es)
<1>1. es \in Seq(Entries) /\ n \in Nat /\ n # 0 /\ n <= Len(LimitsOf[q]) /\ Len(LimitsOf[q]) \in Nat
  BY TurnIs DEF Matches
<1>2. fs \in Seq(Entries) /\ Len(fs) = n - 1 /\ \A i \in 1 .. n - 1 : fs[i] = es[i]
  <2>1. 1 \in 1 .. n + 1 /\ n - 1 \in 0 .. n /\ n - 1 \in Nat
    BY <1>1
  <2>3. \A i \in 1 .. n - 1 : fs[i] = es[i] /\ i \in 1 .. n
    BY <1>1, <2>1 DEF Older
  <2>4. fs = [i \in 1 .. n - 1 |-> es[i]] /\ \A i \in 1 .. n - 1 : es[i] \in Entries
    BY <1>1, <2>1, <2>3 DEF Older
  <2>5. fs \in Seq(Entries)
    BY <2>1, <2>4
  <2>6. Len(fs) = n - 1
    <3> HIDE DEF fs, n
    <3> QED
      BY <2>1, <2>4
  <2> QED
    BY <2>3, <2>5, <2>6
<1>3. n \in 1 .. n /\ n \in 1 .. Len(LimitsOf[q]) /\ es[n] \in Entries
  BY <1>1
<1>4. es[n].limit = LimitsOf[q][n] /\ es[n].charge = Tokens[q]
  BY <1>1, <1>3 DEF Matches, Unsettled
<1>5. \A i \in 1 .. n - 1 : i \in 1 .. n /\ i # n /\ i \in 1 .. Len(LimitsOf[q]) /\ i >= 1
  BY <1>1
<1>6. \A i \in 1 .. n - 1 : es[i].limit = LimitsOf[q][i] /\ es[i].charge = Tokens[q]
  BY <1>5 DEF Matches, Unsettled
<1>7. \A i \in 1 .. n - 1 : es[i].limit # es[n].limit
  BY <1>3, <1>4, <1>5, <1>6, TurnIs
<1>8. es[n].limit \in Limits /\ es[n].limit \in Range(LimitsOf[q])
  BY <1>3, <1>4, TurnIs
<1>9. \A i \in 1 .. n : i \in 1 .. n - 1 \/ i = n
  BY <1>1
<1> HIDE DEF fs
<1>10. Matches(q, fs) /\ Unsettled(q, fs, 1)
  <2>1. Len(fs) <= Len(LimitsOf[q])
    BY <1>1, <1>2
  <2>2. \A i \in 1 .. Len(fs) : fs[i].limit = LimitsOf[q][i] /\ fs[i].charge = Tokens[q]
    BY <1>2, <1>6
  <2> QED
    BY <1>2, <2>1, <2>2 DEF Matches, Unsettled
<1> QED
  BY <1>2, <1>3, <1>4, <1>5, <1>7, <1>8, <1>9, <1>10 DEF fs

(* Where a request is after giving up its newest entry.                    *)
LEMMA ContinueIs ==
  ASSUME TokenInv, NEW q \in Turns, pc[q] = "rollback", NEW f, Continue(q, Older(entries[q]), f),
         UNCHANGED <<clock, read, actual>>, CountersTyped',
         strays \subseteq strays', strays' \subseteq strays \union {q}
  PROVE  /\ TokenTyped' /\ StageOf(q)' /\ OthersAlone(q)
         /\ entries'[q] = Older(entries[q])
         /\ Older(entries[q]) = <<>> \/ store' = store
PROOF
<1> DEFINE fs == Older(entries[q])
<1>1. TokenTyped /\ Matches(q, entries[q]) /\ entries[q] # <<>> /\ Unsettled(q, entries[q], 1)
  BY DEF TokenInv, StageOf, Stage
<1>2. Matches(q, fs) /\ Unsettled(q, fs, 1)
  BY <1>1, OlderIs
<1>3. entries' = [entries EXCEPT ![q] = fs]
  BY DEF Continue
<1>4. Len(LimitsOf[q]) \in Nat \ {0}
  BY TurnIs
<1> HIDE DEF fs
<1>5. entries'[q] = fs /\ entries' \in [Turns -> Seq(Entries)] /\ strays' \subseteq Turns
  BY <1>1, <1>2, <1>3 DEF TokenTyped, Matches
<1>6. CASE fs = <<>> /\ f = "clean"
  <2>1. pc' = [pc EXCEPT ![q] = "reserving"] /\ store' = [store EXCEPT ![q] = "local"]
        /\ index' = [index EXCEPT ![q] = 1]
    BY <1>6 DEF Continue, FallBack, Go, fs
  <2>2. TokenTyped'
    BY <1>1, <1>5, <2>1 DEF TokenTyped, CountersTyped, PCs, Stores
  <2>3. pc'[q] = "reserving" /\ store'[q] = "local" /\ index'[q] = 1
    BY <1>1, <2>1 DEF TokenTyped
  <2>4. 1 \in 1 .. Len(LimitsOf[q]) /\ Len(<<>>) = 1 - 1
    BY <1>4
  <2>5. StageOf(q)'
    BY <1>2, <1>5, <1>6, <2>3, <2>4 DEF StageOf, Stage
  <2>6. OthersAlone(q)
    BY <1>1, <1>3, <2>1 DEF OthersAlone, TokenTyped
  <2> QED
    BY <1>5, <1>6, <2>2, <2>5, <2>6 DEF fs
<1>7. CASE ~(fs = <<>> /\ f = "clean")
  <2>1. pc' = (IF fs = <<>> THEN [pc EXCEPT ![q] = "done"] ELSE pc) /\ store' = store /\ index' = index
    BY <1>7 DEF Continue, Go, fs
  <2>2. TokenTyped'
    BY <1>1, <1>5, <2>1 DEF TokenTyped, CountersTyped, PCs
  <2>3. pc'[q] = IF fs = <<>> THEN "done" ELSE "rollback"
    BY <1>1, <2>1 DEF TokenTyped
  <2>4. StageOf(q)'
    BY <1>2, <1>5, <2>3 DEF StageOf, Stage
  <2>5. OthersAlone(q)
    BY <1>1, <1>3, <2>1 DEF OthersAlone, TokenTyped
  <2> QED
    BY <1>5, <2>1, <2>2, <2>4, <2>5 DEF fs
<1> QED
  BY <1>6, <1>7

(* Only the liability for the newest entry can fall.                       *)
OnlyNewestFalls(q, es, st, su, sy, sz, t, m, w) ==
  /\ t # st \/ m # es[Len(es)].limit =>
       Liability(q, st, es, sy, t, m, w) <= Liability(q, su, Older(es), sz, t, m, w)
  /\ t = st /\ m = es[Len(es)].limit =>
       /\ Liability(q, st, es, sy, t, m, w) = (IF es[Len(es)].window = w THEN Tokens[q] ELSE 0)
       /\ Liability(q, su, Older(es), sz, t, m, w) = StrayCharge(q, sz, t, m)

LEMMA OlderLiability ==
  ASSUME NEW q \in Turns, NEW es, Matches(q, es), es # <<>>, Unsettled(q, es, 1),
         NEW st, NEW su, Older(es) = <<>> \/ su = st,
         NEW sy, NEW sz, sy \subseteq sz, NEW t, NEW m, NEW w
  PROVE  OnlyNewestFalls(q, es, st, su, sy, sz, t, m, w)
PROOF
<1> DEFINE fs == Older(es)
           n == Len(es)
           L == Liability(q, st, es, sy, t, m, w)
           M == Liability(q, su, fs, sz, t, m, w)
<1>1. /\ Matches(q, fs) /\ n \in 1 .. Len(es) /\ es[n].charge = Tokens[q]
      /\ \A i \in 1 .. Len(fs) : i \in 1 .. Len(es) /\ fs[i] = es[i] /\ es[i].limit # es[n].limit
      /\ \A i \in 1 .. Len(es) : i \in 1 .. Len(fs) \/ i = n
  <2>1. n \in 1 .. Len(LimitsOf[q])
    BY OlderIs
  <2>2. n \in 1 .. Len(es)
    BY <2>1
  <2> QED
    BY <2>2, OlderIs
<1>2. StrayCharge(q, sy, t, m) <= StrayCharge(q, sz, t, m)
  BY MoreStrays
<1>3. L \in Nat /\ M \in Nat
  BY <1>1, LiabilityIs
<1>4. ASSUME t = st, m = es[n].limit
      PROVE  L = (IF es[n].window = w THEN Tokens[q] ELSE 0) /\ M = StrayCharge(q, sz, t, m)
  <2>1. L = (IF es[n].window = w THEN es[n].charge ELSE 0)
    <3>1. Liability(q, st, es, sy, st, es[n].limit, w) = (IF es[n].window = w THEN es[n].charge ELSE 0)
      BY <1>1, LiabilityOwn
    <3> QED
      BY <1>4, <3>1
  <2>2. \A i \in 1 .. Len(fs) : fs[i].limit # m
    BY <1>1, <1>4
  <2>3. M = StrayCharge(q, sz, t, m)
    BY <2>2, LiabilityStray
  <2> QED
    BY <1>1, <2>1, <2>3
<1>5. ASSUME t # st \/ m # es[n].limit
      PROVE  L <= M
  <2>1. CASE t = st /\ \E i \in 1 .. Len(fs) : fs[i].limit = m
    <3>1. PICK i \in 1 .. Len(fs) : fs[i].limit = m
      BY <2>1
    <3>2. i \in 1 .. Len(es) /\ fs[i] = es[i] /\ fs # <<>>
      BY <1>1, <3>1
    <3>3. su = t
      BY <2>1, <3>2
    <3>4. L = (IF es[i].window = w THEN es[i].charge ELSE 0)
      <4>1. Liability(q, st, es, sy, st, es[i].limit, w) = (IF es[i].window = w THEN es[i].charge ELSE 0)
        BY <3>2, LiabilityOwn
      <4> QED
        BY <2>1, <3>1, <3>2, <4>1
    <3>5. M = (IF fs[i].window = w THEN fs[i].charge ELSE 0)
      BY <1>1, <3>1, <3>3, LiabilityOwn
    <3> QED
      BY <1>3, <3>2, <3>4, <3>5
  <2>2. CASE t # st \/ \A i \in 1 .. Len(fs) : fs[i].limit # m
    <3>1. st # t \/ \A i \in 1 .. Len(es) : es[i].limit # m
      BY <1>1, <1>5, <2>2
    <3>2. L = StrayCharge(q, sy, t, m)
      BY <3>1, LiabilityStray
    <3>3. su # t \/ \A i \in 1 .. Len(fs) : fs[i].limit # m
      BY <2>2
    <3>4. M = StrayCharge(q, sz, t, m)
      BY <3>3, LiabilityStray
    <3> QED
      BY <1>2, <3>2, <3>4
  <2> QED
    BY <2>1, <2>2
<1> QED
  BY <1>4, <1>5 DEF OnlyNewestFalls

(* A rollback gives the tokens back, or a lost call keeps answering for    *)
(* them.                                                                   *)
LEMMA RollbackStep ==
  ASSUME TokenInv, NEW q \in Turns, pc[q] = "rollback", NEW f, Continue(q, Older(entries[q]), f),
         UNCHANGED <<clock, read, actual>>,
         strays \subseteq strays', strays' \subseteq strays \union {q},
         \/ GiveBack(q)
         \/ UNCHANGED <<window, tokens>> /\ q \in strays' /\ store[q] = "redis"
  PROVE  TokenInv'
PROOF
<1> DEFINE es == entries[q]
           e == es[Len(es)]
           L(t, m, w) == Liability(q, store'[q], entries'[q], strays', t, m, w)
           K(t, m, w) == LiabilityOf(q, t, m, w)
<1>1. TokenTyped /\ Matches(q, es) /\ es # <<>> /\ Unsettled(q, es, 1)
  BY DEF TokenInv, StageOf, Stage
<1>2. e \in Entries /\ e.limit \in Limits /\ e.limit \in Range(LimitsOf[q]) /\ e = Last(q)
  BY <1>1, OlderIs DEF Last
<1>3. Tokens[q] \in Nat /\ store[q] \in Stores
  BY <1>1, TurnIs DEF TokenTyped
<1>4. CountersTyped'
  BY <1>1, <1>2, GiveBackIs DEF TokenTyped, CountersTyped
<1>5. /\ TokenTyped' /\ StageOf(q)' /\ OthersAlone(q)
      /\ entries'[q] = Older(es) /\ (Older(es) = <<>> \/ store' = store)
  BY <1>4, ContinueIs
<1>6. \A t, m, w : L(t, m, w) \in Nat /\ K(t, m, w) \in Nat
  <2>1. Matches(q, entries'[q])
    BY <1>1, <1>5, OlderIs
  <2> QED
    BY <1>1, <2>1, LiabilityIs DEF LiabilityOf
<1>7. \A t, m, w :
        /\ t # store[q] \/ m # e.limit => K(t, m, w) <= L(t, m, w)
        /\ t = store[q] /\ m = e.limit =>
             /\ K(t, m, w) = (IF e.window = w THEN Tokens[q] ELSE 0)
             /\ L(t, m, w) = StrayCharge(q, strays', t, m)
  <2>1. Older(es) = <<>> \/ store'[q] = store[q]
    BY <1>5
  <2>2. ASSUME NEW t, NEW m, NEW w
        PROVE  /\ t # store[q] \/ m # e.limit =>
                    Liability(q, store[q], es, strays, t, m, w)
                      <= Liability(q, store'[q], Older(es), strays', t, m, w)
               /\ t = store[q] /\ m = e.limit =>
                    /\ Liability(q, store[q], es, strays, t, m, w)
                         = (IF e.window = w THEN Tokens[q] ELSE 0)
                    /\ Liability(q, store'[q], Older(es), strays', t, m, w)
                         = StrayCharge(q, strays', t, m)
    <3>1. OnlyNewestFalls(q, es, store[q], store'[q], strays, strays', t, m, w)
      BY <1>1, <2>1, OlderLiability
    <3> QED
      BY <3>1 DEF OnlyNewestFalls
  <2> QED
    BY <1>5, <2>2 DEF LiabilityOf
<1>8. \A t \in Stores, m \in Limits : window[t][m] \in Int /\ tokens[t][m] \in Int /\ tokens'[t][m] \in Int
  BY <1>1, <1>5 DEF TokenTyped
<1> HIDE DEF L, K, e
<1>9. CASE UNCHANGED <<window, tokens>> /\ q \in strays' /\ store[q] = "redis"
  <2>1. ASSUME NEW t \in Stores, NEW m \in Limits, NEW w \in Int
        PROVE  K(t, m, w) <= L(t, m, w)
    <3>1. CASE t = store[q] /\ m = e.limit
      <4>1. L(t, m, w) = Tokens[q]
        BY <1>2, <1>7, <1>9, <3>1, LostCall
      <4>2. K(t, m, w) = (IF e.window = w THEN Tokens[q] ELSE 0)
        BY <1>7, <3>1
      <4> QED
        BY <1>3, <4>1, <4>2
    <3>2. CASE t # store[q] \/ m # e.limit
      BY <1>7, <3>2
    <3> QED
      BY <3>1, <3>2
  <2> QED
    BY <1>5, <1>9, <2>1, QuietStep DEF L, K
<1>10. CASE GiveBack(q)
  <2>1. ASSUME NEW t \in Stores, NEW m \in Limits
        PROVE  \/ /\ window'[t][m] = window[t][m]
                  /\ tokens'[t][m] - L(t, m, window[t][m]) <= tokens[t][m] - K(t, m, window[t][m])
               \/ tokens'[t][m] <= L(t, m, window'[t][m])
    <3> DEFINE w == window[t][m]
    <3>1. tokens[t][m] \in Int /\ L(t, m, w) \in Nat /\ K(t, m, w) \in Nat
      BY <1>6, <1>8
    <3>2. CASE t # store[q] \/ m # e.limit
      <4>1. window'[t][m] = w /\ tokens'[t][m] = tokens[t][m]
        BY <1>1, <1>2, <1>10, <3>2, GiveBackIs DEF OthersKeep
      <4>2. K(t, m, w) <= L(t, m, w)
        BY <1>7, <3>2
      <4> QED
        BY <3>1, <4>1, <4>2
    <3>3. CASE t = store[q] /\ m = e.limit
      <4>1. /\ window'[t][m] = w
            /\ w = e.window => tokens'[t][m] = tokens[t][m] - Tokens[q] \/ tokens'[t][m] = 0
            /\ w # e.window => tokens'[t][m] = tokens[t][m]
        BY <1>1, <1>2, <1>10, <3>3, GiveBackIs
      <4>2. K(t, m, w) = (IF e.window = w THEN Tokens[q] ELSE 0)
        BY <1>7, <3>3
      <4> HIDE DEF w
      <4>3. CASE w # e.window
        <5>1. tokens'[t][m] - L(t, m, w) <= tokens[t][m] - K(t, m, w)
          BY <3>1, <4>1, <4>2, <4>3
        <5> QED
          BY <4>1, <5>1 DEF w
      <4>4. CASE w = e.window /\ tokens'[t][m] = tokens[t][m] - Tokens[q]
        <5>1. tokens'[t][m] - L(t, m, w) <= tokens[t][m] - K(t, m, w)
          BY <1>3, <3>1, <4>2, <4>4
        <5> QED
          BY <4>1, <5>1 DEF w
      <4>5. CASE tokens'[t][m] = 0
        BY <3>1, <4>1, <4>5
      <4> QED
        BY <4>1, <4>3, <4>4, <4>5
    <3> QED
      BY <3>2, <3>3
  <2> QED
    BY <1>5, <2>1, TurnStep DEF L, K
<1> QED
  BY <1>9, <1>10

LEMMA RollbackEntryStep ==
  ASSUME TokenInv, NEW q \in Turns, RollbackEntry(q)
  PROVE  TokenInv'
PROOF
<1>1. /\ pc[q] = "rollback" /\ GiveBack(q) /\ Continue(q, Older(entries[q]), failure[q])
      /\ UNCHANGED <<clock, read, actual>> /\ strays' = strays
  BY DEF RollbackEntry, Older
<1>2. strays \subseteq strays' /\ strays' \subseteq strays \union {q}
  BY <1>1
<1> QED
  BY <1>1, <1>2, RollbackStep

LEMMA RollbackFailsStep ==
  ASSUME TokenInv, NEW q \in Turns, RollbackFails(q)
  PROVE  TokenInv'
PROOF
<1> DEFINE f == IF failure[q] = "clean" THEN "unsafe" ELSE failure[q]
<1>1. /\ pc[q] = "rollback" /\ store[q] = "redis" /\ Continue(q, Older(entries[q]), f)
      /\ UNCHANGED <<clock, read, actual>> /\ strays' = strays \union {q}
      /\ UNCHANGED <<window, tokens>> \/ GiveBack(q)
  BY DEF RollbackFails, Older, counters
<1>2. strays \subseteq strays' /\ strays' \subseteq strays \union {q} /\ q \in strays'
  BY <1>1
<1> HIDE DEF f
<1> QED
  BY <1>1, <1>2, RollbackStep

(* A request that leaves answers for all the tokens it may have taken.     *)
LEMMA LeavingLiability ==
  ASSUME NEW q \in Turns, NEW es, Matches(q, es), Unsettled(q, es, 1),
         NEW sy, NEW sz, sy \subseteq sz, q \in sz, NEW t, NEW m, NEW w
  PROVE  Liability(q, "redis", es, sy, t, m, w) <= Liability(q, "redis", <<>>, sz, t, m, w)
PROOF
<1> DEFINE L == Liability(q, "redis", es, sy, t, m, w)
           M == Liability(q, "redis", <<>>, sz, t, m, w)
<1>1. M = StrayCharge(q, sz, t, m)
  BY LiabilityEmpty
<1>2. StrayCharge(q, sy, t, m) <= StrayCharge(q, sz, t, m)
  BY MoreStrays
<1>3. CASE t = "redis" /\ \E i \in 1 .. Len(es) : es[i].limit = m
  <2>1. PICK i \in 1 .. Len(es) : es[i].limit = m
    BY <1>3
  <2>2. es[i].charge = Tokens[q] /\ i \in 1 .. Len(LimitsOf[q]) /\ m = LimitsOf[q][i]
    <3>1. i >= 1 /\ i <= Len(es) /\ Len(es) <= Len(LimitsOf[q]) /\ Len(es) \in Nat
          /\ Len(LimitsOf[q]) \in Nat
      BY <2>1, TurnIs DEF Matches
    <3> QED
      BY <2>1, <3>1 DEF Matches, Unsettled
  <2>3. Tokens[q] \in Nat /\ m \in Range(LimitsOf[q])
    BY <2>2, TurnIs
  <2>4. M = Tokens[q]
    BY <1>1, <1>3, <2>3, LostCall
  <2>5. Liability(q, "redis", es, sy, "redis", es[i].limit, w)
          = EntryCharge(es[i], w)
    BY <2>1, LiabilityEntry
  <2>6. L = (IF es[i].window = w THEN Tokens[q] ELSE 0)
    BY <1>3, <2>1, <2>2, <2>5 DEF EntryCharge
  <2> QED
    BY <2>3, <2>4, <2>6
<1>4. CASE t # "redis" \/ \A i \in 1 .. Len(es) : es[i].limit # m
  <2>1. L = StrayCharge(q, sy, t, m)
    BY <1>4, LiabilityStray
  <2> QED
    BY <1>1, <1>2, <2>1
<1> QED
  BY <1>3, <1>4

LEMMA CancelTokensStep ==
  ASSUME TokenInv, NEW q \in Turns, CancelTokens(q)
  PROVE  TokenInv'
PROOF
<1> DEFINE es == entries[q]
           L(t, m, w) == Liability(q, store'[q], entries'[q], strays', t, m, w)
           K(t, m, w) == LiabilityOf(q, t, m, w)
<1>1. /\ TokenTyped /\ pc[q] \in {"reserving", "rollback"} /\ store[q] = "redis"
      /\ pc' = [pc EXCEPT ![q] = "done"] /\ entries' = [entries EXCEPT ![q] = <<>>]
      /\ strays' = strays \union {q} /\ UNCHANGED <<clock, read, store, index, actual>>
      /\ \/ UNCHANGED <<window, tokens>>
         \/ pc[q] = "reserving" /\ Attempt(q)
         \/ pc[q] = "rollback" /\ GiveBack(q)
  BY DEF CancelTokens, TokenInv, Go, counters
<1>2. Matches(q, es) /\ Unsettled(q, es, 1)
      /\ (pc[q] = "reserving" => index[q] \in 1 .. Len(LimitsOf[q]))
      /\ (pc[q] = "rollback" => es # <<>>)
  BY <1>1 DEF TokenInv, StageOf, Stage
<1>3. pc[q] = "rollback" =>
        es[Len(es)] \in Entries /\ es[Len(es)] = Last(q) /\ Last(q).limit \in Limits
  BY <1>2, OlderIs DEF Last
<1>4. CountersTyped'
  BY <1>1, <1>2, <1>3, AttemptIs, GiveBackIs DEF TokenTyped, CountersTyped
<1>5. TokenTyped'
  <2>1. <<>> \in Seq(Entries)
    OBVIOUS
  <2> QED
    BY <1>1, <1>4, <2>1 DEF TokenTyped, CountersTyped, PCs
<1>6. pc'[q] = "done" /\ entries'[q] = <<>> /\ store'[q] = "redis"
  BY <1>1 DEF TokenTyped
<1>7. Matches(q, <<>>)
  BY <1>2, TurnIs DEF Matches
<1>8. StageOf(q)'
  BY <1>6, <1>7 DEF StageOf, Stage
<1>9. OthersAlone(q)
  BY <1>1 DEF OthersAlone, TokenTyped
<1>10. strays \subseteq strays' /\ q \in strays'
  BY <1>1
<1>11. \A t, m, w : K(t, m, w) <= L(t, m, w)
  BY <1>1, <1>2, <1>6, <1>10, LeavingLiability DEF LiabilityOf
<1>12. \A t, m, w : L(t, m, w) \in Nat /\ K(t, m, w) \in Nat
  BY <1>2, <1>6, <1>7, LiabilityIs DEF LiabilityOf
<1>13. CASE UNCHANGED <<window, tokens>>
  BY <1>5, <1>8, <1>9, <1>11, <1>13, QuietStep
<1>14. CASE pc[q] = "reserving" /\ Attempt(q)
  <2>1. LimitOf(q) \in Range(LimitsOf[q]) /\ Tokens[q] \in Nat
    BY <1>14, NothingOwedYet, TurnIs
  <2>2. L(store[q], LimitOf(q), WindowAt(q)) = StrayCharge(q, strays', "redis", LimitOf(q))
    BY <1>1, <1>6, LiabilityEmpty
  <2>3. L(store[q], LimitOf(q), WindowAt(q)) >= Tokens[q]
    BY <1>10, <2>1, <2>2, LostCall
  <2> QED
    BY <1>5, <1>8, <1>9, <1>11, <1>14, <2>3, AttemptStep
<1>15. CASE pc[q] = "rollback" /\ GiveBack(q)
  <2> HIDE DEF L, K
  <2>1. ASSUME NEW t \in Stores, NEW m \in Limits
        PROVE  \/ /\ window'[t][m] = window[t][m]
                  /\ tokens'[t][m] - L(t, m, window[t][m]) <= tokens[t][m] - K(t, m, window[t][m])
               \/ tokens'[t][m] <= L(t, m, window'[t][m])
    <3> DEFINE w == window[t][m]
    <3>1. tokens[t][m] \in Int /\ Tokens[q] \in Nat
      BY <1>1, TurnIs DEF TokenTyped
    <3>2. window'[t][m] = w
          /\ \/ tokens'[t][m] = tokens[t][m]
             \/ tokens'[t][m] = tokens[t][m] - Tokens[q]
             \/ tokens'[t][m] = 0
      BY <1>1, <1>3, <1>15, GiveBackIs DEF OthersKeep
    <3>3. L(t, m, w) \in Nat /\ K(t, m, w) \in Nat /\ K(t, m, w) <= L(t, m, w)
      BY <1>11, <1>12
    <3> HIDE DEF w
    <3>4. \/ tokens'[t][m] - L(t, m, w) <= tokens[t][m] - K(t, m, w)
          \/ tokens'[t][m] <= L(t, m, w)
      BY <3>1, <3>2, <3>3
    <3> QED
      BY <3>2, <3>4 DEF w
  <2> QED
    BY <1>5, <1>8, <1>9, <2>1, TurnStep DEF L, K
<1> QED
  BY <1>1, <1>13, <1>14, <1>15

(* Entries es once the charge of entry i is settled.                       *)
SettledEntry(es, i, a) == [es EXCEPT ![i].charge = a]

LEMMA SettledIs ==
  ASSUME NEW q \in Turns, NEW es, Matches(q, es), NEW i \in 1 .. Len(es), NEW a \in Nat,
         Unsettled(q, es, i)
  PROVE  /\ Matches(q, SettledEntry(es, i, a)) /\ Unsettled(q, SettledEntry(es, i, a), i + 1)
         /\ Len(SettledEntry(es, i, a)) = Len(es)
         /\ SettledEntry(es, i, a)[i].limit = es[i].limit
         /\ SettledEntry(es, i, a)[i].window = es[i].window
         /\ SettledEntry(es, i, a)[i].charge = a /\ es[i].charge = Tokens[q]
         /\ \A j \in 1 .. Len(es) : j # i => SettledEntry(es, i, a)[j] = es[j]
PROOF
<1> DEFINE fs == SettledEntry(es, i, a)
           e == [es[i] EXCEPT !.charge = a]
<1>1. es \in Seq(Entries) /\ es[i] \in Entries /\ Len(es) \in Nat
  BY DEF Matches
<1>2. e \in Entries /\ e.limit = es[i].limit /\ e.window = es[i].window /\ e.charge = a
  BY <1>1 DEF Entries
<1>3. fs = [es EXCEPT ![i] = e]
  BY DEF SettledEntry
<1> HIDE DEF fs, e
<1>4. fs \in Seq(Entries) /\ Len(fs) = Len(es) /\ fs[i] = e
      /\ \A j \in 1 .. Len(es) : j # i => fs[j] = es[j]
  BY <1>1, <1>2, <1>3
<1>5. es[i].charge = Tokens[q]
  BY DEF Unsettled
<1>6. \A j \in 1 .. Len(es) : j >= i + 1 => j # i /\ j >= i
  OBVIOUS
<1>7. Matches(q, fs)
  BY <1>2, <1>4 DEF Matches
<1>8. Unsettled(q, fs, i + 1)
  BY <1>4, <1>6 DEF Unsettled
<1> QED
  BY <1>2, <1>4, <1>5, <1>7, <1>8 DEF fs

(* Settling an entry changes what q answers for in its own limit only.     *)
LEMMA SettledLiability ==
  ASSUME NEW q \in Turns, NEW es, Matches(q, es), NEW i \in 1 .. Len(es), NEW a \in Nat,
         Unsettled(q, es, i), NEW st, NEW sy, NEW t, NEW m, NEW w
  PROVE  /\ t # st \/ m # es[i].limit =>
              Liability(q, st, es, sy, t, m, w) = Liability(q, st, SettledEntry(es, i, a), sy, t, m, w)
         /\ t = st /\ m = es[i].limit =>
              /\ Liability(q, st, es, sy, t, m, w) = (IF es[i].window = w THEN Tokens[q] ELSE 0)
              /\ Liability(q, st, SettledEntry(es, i, a), sy, t, m, w) = (IF es[i].window = w THEN a ELSE 0)
PROOF
<1> DEFINE fs == SettledEntry(es, i, a)
           L == Liability(q, st, es, sy, t, m, w)
           M == Liability(q, st, fs, sy, t, m, w)
<1>1. /\ Matches(q, fs) /\ Len(fs) = Len(es) /\ fs[i].limit = es[i].limit
      /\ fs[i].window = es[i].window /\ fs[i].charge = a /\ es[i].charge = Tokens[q]
      /\ \A j \in 1 .. Len(es) : j # i => fs[j] = es[j]
  BY SettledIs
<1> HIDE DEF fs
<1>2. ASSUME t = st, m = es[i].limit
      PROVE  L = (IF es[i].window = w THEN Tokens[q] ELSE 0) /\ M = (IF es[i].window = w THEN a ELSE 0)
  <2>1. Liability(q, st, es, sy, st, es[i].limit, w) = EntryCharge(es[i], w)
    BY LiabilityEntry
  <2>2. Liability(q, st, fs, sy, st, fs[i].limit, w) = EntryCharge(fs[i], w)
    <3>1. i \in 1 .. Len(fs) /\ Matches(q, fs)
      BY <1>1
    <3> QED
      BY <3>1, LiabilityEntry
  <2> QED
    BY <1>1, <1>2, <2>1, <2>2 DEF EntryCharge
<1>3. ASSUME t # st \/ m # es[i].limit
      PROVE  L = M
  <2>1. CASE t = st /\ \E j \in 1 .. Len(es) : es[j].limit = m
    <3>1. PICK j \in 1 .. Len(es) : es[j].limit = m
      BY <2>1
    <3>2. j \in 1 .. Len(fs) /\ fs[j] = es[j]
      BY <1>1, <1>3, <2>1, <3>1
    <3>3. Liability(q, st, es, sy, st, es[j].limit, w) = EntryCharge(es[j], w)
      <4>1. \A g \in 1 .. Len(es) :
              Liability(q, st, es, sy, st, es[g].limit, w) = EntryCharge(es[g], w)
        BY LiabilityEntry
      <4> QED
        BY <3>1, <4>1
    <3>4. Liability(q, st, fs, sy, st, fs[j].limit, w) = EntryCharge(fs[j], w)
      BY <1>1, <3>2, LiabilityEntry
    <3> QED
      BY <2>1, <3>1, <3>2, <3>3, <3>4
  <2>2. CASE st # t \/ \A j \in 1 .. Len(es) : es[j].limit # m
    <3>1. st # t \/ \A j \in 1 .. Len(fs) : fs[j].limit # m
      BY <1>1, <2>2
    <3>2. L = StrayCharge(q, sy, t, m)
      BY <2>2, LiabilityStray
    <3>3. M = StrayCharge(q, sy, t, m)
      BY <3>1, LiabilityStray
    <3> QED
      BY <3>2, <3>3
  <2> QED
    BY <2>1, <2>2
<1> QED
  BY <1>2, <1>3 DEF fs

LEMMA ReconcileEntryStep ==
  ASSUME TokenInv, NEW q \in Turns, ReconcileEntry(q)
  PROVE  TokenInv'
PROOF
<1> DEFINE es == entries[q]
           i == index[q]
           a == actual[q]
           t0 == store[q]
           m0 == es[i].limit
           n == tokens[t0][m0] - (Tokens[q] - a)
           k == IF t0 = "local" /\ n < 0 THEN 0 ELSE n
           L(t, m, w) == Liability(q, store'[q], entries'[q], strays', t, m, w)
           K(t, m, w) == LiabilityOf(q, t, m, w)
<1>1. TokenTyped /\ pc[q] = "reconciling" /\ UNCHANGED <<clock, window, read, store, actual, strays>>
  BY DEF ReconcileEntry, TokenInv
<1>2. Matches(q, es) /\ i \in 1 .. Len(es) /\ Unsettled(q, es, i) /\ a <= Tokens[q]
  BY <1>1 DEF TokenInv, StageOf, Stage
<1>3. es \in Seq(Entries) /\ es[i] \in Entries /\ m0 \in Limits /\ t0 \in Stores /\ a \in Nat
      /\ tokens[t0][m0] \in Int /\ Len(es) \in Nat
  <2>1. es \in Seq(Entries) /\ es[i] \in Entries /\ Len(es) \in Nat
    BY <1>2 DEF Matches
  <2>2. m0 \in Limits
    BY <2>1 DEF Entries
  <2>3. t0 \in Stores /\ a \in Nat /\ tokens \in [Stores -> [Limits -> Int]]
    BY <1>1 DEF TokenTyped
  <2> QED
    BY <2>1, <2>2, <2>3
<1>4. Tokens[q] \in Nat
  BY TurnIs
<1>5. k \in Int /\ (k = tokens[t0][m0] - (Tokens[q] - a) \/ k = 0)
  BY <1>3, <1>4
<1>6. IF window[t0][m0] = es[i].window
      THEN /\ tokens' = [tokens EXCEPT ![t0] = [@ EXCEPT ![m0] = k]]
           /\ entries' = [entries EXCEPT ![q] = SettledEntry(@, i, a)]
      ELSE tokens' = tokens /\ entries' = entries
  BY DEF ReconcileEntry, SettledEntry
<1>7. IF i = Len(es)
      THEN pc' = [pc EXCEPT ![q] = "done"] /\ index' = index
      ELSE pc' = pc /\ index' = [index EXCEPT ![q] = i + 1]
  BY DEF ReconcileEntry, NextEntry, Go
<1>8. pc' \in [Turns -> PCs] /\ index' \in [Turns -> Nat]
      /\ (IF i = Len(es) THEN pc'[q] = "done" ELSE pc'[q] = "reconciling" /\ index'[q] = i + 1)
      /\ \A p \in Turns \ {q} : pc'[p] = pc[p] /\ index'[p] = index[p]
  <2>1. pc \in [Turns -> PCs] /\ index \in [Turns -> Nat]
    BY <1>1 DEF TokenTyped
  <2>2. CASE i = Len(es)
    BY <1>7, <2>1, <2>2 DEF PCs
  <2>3. CASE i # Len(es)
    BY <1>1, <1>7, <2>1, <2>3 DEF PCs
  <2> QED
    BY <2>2, <2>3
<1>9. tokens \in [Stores -> [Limits -> Int]] /\ entries \in [Turns -> Seq(Entries)]
  BY <1>1 DEF TokenTyped
<1>10. \A t \in Stores, m \in Limits : tokens[t][m] \in Int /\ window[t][m] \in Int
  BY <1>1 DEF TokenTyped
<1>11. Matches(q, SettledEntry(es, i, a)) /\ Unsettled(q, SettledEntry(es, i, a), i + 1)
       /\ Len(SettledEntry(es, i, a)) = Len(es) /\ SettledEntry(es, i, a) \in Seq(Entries)
  <2> HIDE DEF es, i, a
  <2>1. Matches(q, SettledEntry(es, i, a)) /\ Unsettled(q, SettledEntry(es, i, a), i + 1)
        /\ Len(SettledEntry(es, i, a)) = Len(es)
    BY <1>2, <1>3, SettledIs
  <2> QED
    BY <2>1 DEF Matches
<1> HIDE DEF k, L, K, m0, t0, i, a, es
<1>12. CASE window[t0][m0] = es[i].window
  <2>1. /\ tokens' \in [Stores -> [Limits -> Int]] /\ tokens'[t0][m0] = k
        /\ \A t \in Stores, m \in Limits : t # t0 \/ m # m0 => tokens'[t][m] = tokens[t][m]
    <3> DEFINE row == [tokens[t0] EXCEPT ![m0] = k]
    <3>1. tokens' = [tokens EXCEPT ![t0] = row]
      BY <1>6, <1>12
    <3>2. t0 \in Stores /\ m0 \in Limits /\ k \in Int /\ tokens \in [Stores -> [Limits -> Int]]
      BY <1>3, <1>5, <1>9
    <3>3. /\ row \in [Limits -> Int] /\ row[m0] = k
          /\ \A m \in Limits : m # m0 => row[m] = tokens[t0][m]
      BY <3>2
    <3> HIDE DEF row
    <3> QED
      BY <3>1, <3>2, <3>3
  <2>2. /\ entries' \in [Turns -> Seq(Entries)] /\ entries'[q] = SettledEntry(es, i, a)
        /\ \A p \in Turns \ {q} : entries'[p] = entries[p]
    BY <1>6, <1>9, <1>11, <1>12 DEF es
  <2>3. TokenTyped'
    BY <1>1, <1>8, <2>1, <2>2 DEF TokenTyped
  <2>4. StageOf(q)'
    <3>1. CASE i = Len(es)
      BY <1>8, <1>11, <2>2, <3>1 DEF StageOf, Stage
    <3>2. CASE i # Len(es)
      <4>1. i + 1 \in 1 .. Len(es)
        BY <1>2, <1>3, <3>2
      <4> QED
        BY <1>1, <1>2, <1>8, <1>11, <2>2, <3>2, <4>1 DEF StageOf, Stage, a
    <3> QED
      BY <3>1, <3>2
  <2>5. OthersAlone(q)
    BY <1>1, <1>8, <2>2 DEF OthersAlone
  <2>6. ASSUME NEW t, NEW m, NEW w
        PROVE  /\ t # t0 \/ m # m0 => K(t, m, w) = L(t, m, w)
               /\ t = t0 /\ m = m0 =>
                    /\ K(t, m, w) = (IF es[i].window = w THEN Tokens[q] ELSE 0)
                    /\ L(t, m, w) = (IF es[i].window = w THEN a ELSE 0)
    <3>1. K(t, m, w) = Liability(q, t0, es, strays, t, m, w)
          /\ L(t, m, w) = Liability(q, t0, SettledEntry(es, i, a), strays, t, m, w)
      BY <1>1, <2>2 DEF K, L, LiabilityOf, t0, es
    <3> QED
      BY <1>2, <1>3, <3>1, SettledLiability DEF m0
  <2>7. \A t, m, w : K(t, m, w) \in Nat /\ L(t, m, w) \in Nat
    BY <1>2, <1>11, <2>2, LiabilityIs DEF K, L, LiabilityOf, es
  <2>8. ASSUME NEW t \in Stores, NEW m \in Limits
        PROVE  \/ /\ window'[t][m] = window[t][m]
                  /\ tokens'[t][m] - L(t, m, window[t][m]) <= tokens[t][m] - K(t, m, window[t][m])
               \/ tokens'[t][m] <= L(t, m, window'[t][m])
    <3> DEFINE w == window[t][m]
    <3>1. window'[t][m] = w /\ tokens[t][m] \in Int /\ K(t, m, w) \in Nat /\ L(t, m, w) \in Nat
      BY <1>1, <1>10, <2>7
    <3>2. CASE t # t0 \/ m # m0
      BY <2>1, <2>6, <3>1, <3>2
    <3>3. CASE t = t0 /\ m = m0
      <4>1. w = es[i].window /\ tokens'[t][m] = k
        BY <1>12, <2>1, <3>3
      <4>2. K(t, m, w) = Tokens[q] /\ L(t, m, w) = a
        BY <2>6, <3>3, <4>1
      <4> HIDE DEF w
      <4>3. \/ tokens'[t][m] - L(t, m, w) <= tokens[t][m] - K(t, m, w)
            \/ tokens'[t][m] <= L(t, m, w)
        BY <1>3, <1>4, <1>5, <3>1, <3>3, <4>1, <4>2
      <4> QED
        BY <3>1, <4>3 DEF w
    <3> QED
      BY <3>2, <3>3
  <2> QED
    BY <2>3, <2>4, <2>5, <2>8, TurnStep DEF L, K
<1>13. CASE window[t0][m0] # es[i].window
  <2>1. tokens' = tokens /\ entries' = entries /\ entries'[q] = es
    BY <1>6, <1>13 DEF es
  <2>2. TokenTyped'
    BY <1>1, <1>8, <2>1 DEF TokenTyped
  <2>3. StageOf(q)'
    <3>1. CASE i = Len(es)
      BY <1>2, <1>8, <2>1, <3>1 DEF StageOf, Stage
    <3>2. CASE i # Len(es)
      <4>1. i + 1 \in 1 .. Len(es)
        BY <1>2, <1>3, <3>2
      <4>2. Unsettled(q, es, i + 1)
        BY <1>2, <4>1 DEF Unsettled
      <4> QED
        BY <1>1, <1>2, <1>8, <2>1, <3>2, <4>1, <4>2 DEF StageOf, Stage, a
    <3> QED
      BY <3>1, <3>2
  <2>4. OthersAlone(q)
    BY <1>1, <1>8, <2>1 DEF OthersAlone
  <2>5. \A t \in Stores, m \in Limits, w \in Int :
          LiabilityOf(q, t, m, w) <= Liability(q, store'[q], entries'[q], strays', t, m, w)
    BY <1>1, <1>2, <2>1, SameLiability DEF LiabilityOf, es
  <2> QED
    BY <1>1, <2>1, <2>2, <2>3, <2>4, <2>5, QuietStep
<1> QED
  BY <1>12, <1>13

LEMMA TokenStart == TokenInit => TokenInv
PROOF
<1> SUFFICES ASSUME TokenInit PROVE TokenInv
  OBVIOUS
<1>1. <<>> \in Seq(Entries)
  OBVIOUS
<1>2. TokenTyped
  BY <1>1 DEF TokenInit, TokenTyped, Stores, PCs, NoWindow
<1>3. ASSUME NEW q \in Turns PROVE StageOf(q)
  <2>1. pc[q] = "start" /\ entries[q] = <<>> /\ index[q] = 1 /\ q \notin strays
    BY DEF TokenInit
  <2>2. Matches(q, <<>>)
    BY <1>1, TurnIs DEF Matches
  <2> QED
    BY <2>1, <2>2 DEF StageOf, Stage
<1>4. CountersCovered
  BY DEF TokenInit, CountersCovered, NoWindow
<1> QED
  BY <1>2, <1>3, <1>4 DEF TokenInv

LEMMA TokenStep == TokenInv /\ [TokenNext]_tokenVars => TokenInv'
PROOF
<1> SUFFICES ASSUME TokenInv, [TokenNext]_tokenVars PROVE TokenInv'
  OBVIOUS
<1>1. ASSUME NEW q \in Turns, Step(q) PROVE TokenInv'
  <2>1. CASE ReserveTokens(q) \/ ReserveLimit(q) \/ RejectLimit(q) \/ ReserveFails(q)
    BY <2>1, ReserveTokensStep, ReserveLimitStep, RejectLimitStep, ReserveFailsStep
  <2>2. CASE RollbackEntry(q) \/ RollbackFails(q) \/ CancelTokens(q)
    BY <2>2, RollbackEntryStep, RollbackFailsStep, CancelTokensStep
  <2>3. CASE KeepCharge(q) \/ ExactUsage(q) \/ ReconcileEntry(q) \/ ReconcileStops(q)
    BY <2>3, KeepChargeStep, ExactUsageStep, ReconcileEntryStep
  <2> QED
    BY <1>1, <2>1, <2>2, <2>3 DEF Step
<1>2. CASE UNCHANGED tokenVars
  <2>1. UNCHANGED <<clock, window, tokens, pc, read, store, index, entries, actual, strays>>
    BY <1>2 DEF tokenVars, counters
  <2>2. TokenTyped' /\ \A q \in Turns : StageOf(q)'
    BY <2>1 DEF TokenInv, TokenTyped, StageOf
  <2>3. CountersCovered'
    BY <2>1 DEF TokenInv, CountersCovered, Liabilities, LiabilityOf
  <2> QED
    BY <2>2, <2>3 DEF TokenInv
<1> QED
  BY <1>1, <1>2, WindowEndsStep DEF TokenNext

(* The liabilities are what the history records.                           *)
LEMMA CoveredIsNoPhantom == TokenInv => NoPhantomCharge
PROOF
<1> SUFFICES ASSUME TokenInv PROVE NoPhantomCharge
  OBVIOUS
<1>1. ASSUME NEW t \in Stores, NEW m \in Limits, window[t][m] # NoWindow
      PROVE  tokens[t][m] <= Charged(t, m, window[t][m])
               + SumFunctionOnSet(Tokens, {q \in strays : t = "redis" /\ m \in Range(LimitsOf[q])})
  <2> DEFINE w == window[t][m]
             stray == {q \in strays : t = "redis" /\ m \in Range(LimitsOf[q])}
             e == Liabilities(t, m, w)
             f == [q \in Turns |-> ChargeOf(q, t, m, w)]
             g == [q \in Turns |-> StrayCharge(q, strays, t, m)]
  <2>1. \A q \in Turns : Matches(q, entries[q]) /\ Tokens[q] \in Nat
    BY TurnIs DEF TokenInv, StageOf, Stage
  <2>2. \A q \in Turns : ChargeOf(q, t, m, w) = IF store[q] # t THEN 0 ELSE OwnCharge(entries[q], m, w)
    BY DEF ChargeOf, OwnCharge
  <2>3. \A q \in Turns : OwnCharge(entries[q], m, w) \in Nat /\ StrayCharge(q, strays, t, m) \in Nat
    BY <2>1, OwnChargeIs DEF StrayCharge
  <2>4. \A q \in Turns : LiabilityOf(q, t, m, w) \in Nat
    BY <2>1, LiabilityIs DEF LiabilityOf
  <2>5. ASSUME NEW q \in Turns
        PROVE  LiabilityOf(q, t, m, w) <= ChargeOf(q, t, m, w) + StrayCharge(q, strays, t, m)
    BY <2>2, <2>3 DEF LiabilityOf, Liability
  <2>6. e \in [Turns -> Nat] /\ f \in [Turns -> Nat] /\ g \in [Turns -> Nat]
    BY <2>2, <2>3, <2>4 DEF Liabilities
  <2>7. \A q \in Turns : e[q] <= f[q] + g[q]
    BY <2>5 DEF Liabilities
  <2>8. IsFiniteSet(Turns) /\ Tokens \in [Turns -> Nat] /\ stray \in SUBSET Turns
    BY TokenAssumption DEF TokenInv, TokenTyped
  <2>9. (\A q \in stray : g[q] = Tokens[q]) /\ (\A q \in Turns \ stray : g[q] = 0)
    BY <2>8 DEF StrayCharge
  <2>10. Charged(t, m, w) = SumFunctionOnSet(f, Turns)
    <3>1. DOMAIN f = Turns
      OBVIOUS
    <3>2. Charged(t, m, w) = SumFunction(f)
      BY DEF Charged
    <3> HIDE DEF f
    <3> QED
      BY <3>1, <3>2 DEF SumFunction
  <2>11. tokens[t][m] <= SumFunctionOnSet(e, Turns) /\ tokens[t][m] \in Int
    BY <1>1 DEF TokenInv, TokenTyped, CountersCovered
  <2> HIDE DEF e, f, g, stray, w
  <2>12. SumFunctionOnSet(Tokens, stray) = SumFunctionOnSet(g, Turns)
    BY <2>6, <2>8, <2>9, SumRestrict
  <2>13. SumFunctionOnSet(e, Turns) <= SumFunctionOnSet(f, Turns) + SumFunctionOnSet(g, Turns)
    BY <2>6, <2>7, <2>8, SumPlus
  <2>14. SumFunctionOnSet(e, Turns) \in Nat /\ SumFunctionOnSet(f, Turns) \in Nat
         /\ SumFunctionOnSet(g, Turns) \in Nat
    BY <2>6, <2>8, SumType
  <2>15. tokens[t][m] <= Charged(t, m, w) + SumFunctionOnSet(Tokens, stray)
    BY <2>10, <2>11, <2>12, <2>13, <2>14
  <2> QED
    BY <2>15 DEF w, stray
<1> QED
  BY <1>1 DEF NoPhantomCharge

(* With lost calls, failed rollbacks, clients that leave and windows that  *)
(* roll in any order, no counter of a limit holds more tokens than its     *)
(* window's reservations and the lost or cancelled calls account for: a    *)
(* refused request leaves nothing behind in the limits it had passed.      *)
THEOREM NoChargeIsPhantom == TokenSpec => []NoPhantomCharge
PROOF
<1>1. TokenInit => TokenInv
  BY TokenStart
<1>2. TokenInv /\ [TokenNext]_tokenVars => TokenInv'
  BY TokenStep
<1>3. TokenInv => NoPhantomCharge
  BY CoveredIsNoPhantom
<1> QED
  BY <1>1, <1>2, <1>3, PTL DEF TokenSpec

-----------------------------------------------------------------------------
(* The two state backends *)

LEMMA DivBounds ==
  ASSUME NEW a \in Nat, NEW c \in Nat \ {0}
  PROVE  a \div c \in Nat /\ c * (a \div c) <= a /\ a < c * (a \div c) + c
PROOF
  OBVIOUS

LEMMA SameWindow ==
  ASSUME NEW a \in Nat, NEW b \in Nat, NEW c \in Nat \ {0}, a \div c = b \div c
  PROVE  a < b + c
PROOF
  BY DivBounds

LEMMA WindowsGrow ==
  ASSUME NEW a \in Nat, NEW c \in Nat \ {0}
  PROVE  a \div c <= (a + 1) \div c
PROOF
<1>1. c * (a \div c) <= a /\ a + 1 < c * ((a + 1) \div c) + c
  BY DivBounds
<1>2. a \div c \in Nat /\ (a + 1) \div c \in Nat
  BY DivBounds
<1> QED
  BY <1>1, <1>2

MemoryLimits == [window : Int, requests : Nat, tokens : Nat]
RedisLimits == [window : Int, requests : Nat, tokens : Int, expires : Nat]
Reservations == [window : Nat, tokens : Nat \ {0}, request : BOOLEAN]

(* What a backend has counted in window w.                                 *)
RequestsIn(s, w) == IF s.window = w THEN s.requests ELSE 0
TokensIn(s, w) == IF s.window = w THEN s.tokens ELSE 0

(* A hash that counts for a window outlives it.                            *)
Outlives(h) == \E n \in Nat : n \div config.window = h.window /\ h.expires = n + 2 * config.window

(* The tokens of the reservations d that were made in window w.            *)
TokensOf(d, w) == [q \in Ids |-> IF q \in DOMAIN d /\ d[q].window = w THEN d[q].tokens ELSE 0]
HeldTokens(d, w) == SumFunctionOnSet(TokensOf(d, w), Ids)

ClockTypes == now \in Nat /\ now < Never /\ config.window \in Nat \ {0}

LimitTypes ==
  /\ config \in [rpm : Nat, tpm : Nat, window : Nat \ {0}]
  /\ memory \in MemoryLimits /\ hash \in RedisLimits
  /\ DOMAIN held \subseteq Ids /\ held = [q \in DOMAIN held |-> held[q]]
  /\ \A q \in DOMAIN held : held[q] \in Reservations

(* Each backend counts what a limit is compared with as the other does.    *)
LimitsCoupled ==
  /\ config.rpm > 0 => RequestsIn(memory, Window) = RequestsIn(hash, Window)
  /\ config.tpm > 0 => TokensIn(memory, Window) = TokensIn(hash, Window)

(* A reservation of this window was counted in it by both.                 *)
HeldIsCounted ==
  \A q \in DOMAIN held :
    /\ held[q].window <= Window
    /\ held[q].window = Window /\ (config.rpm > 0 \/ config.tpm > 0) =>
         memory.window = Window /\ hash.window = Window

LimitInv ==
  /\ LimitTypes
  /\ hash.window = -1 \/ Outlives(hash)
  /\ memory.window <= Window /\ hash.window <= Window
  /\ LimitsCoupled /\ HeldIsCounted
  /\ config.tpm > 0 => HeldTokens(held, Window) <= TokensIn(memory, Window)
  /\ answers.memory = answers.redis

LEMMA WindowIsNat ==
  ASSUME ClockTypes
  PROVE  Window \in Nat
PROOF
  BY DivBounds DEF ClockTypes, Window

LEMMA RolledMemoryIs ==
  ASSUME ClockTypes, LimitTypes
  PROVE  /\ roll(memory) \in MemoryLimits /\ roll(memory).window = Window
         /\ roll(memory).requests = RequestsIn(memory, Window)
         /\ roll(memory).tokens = TokensIn(memory, Window)
PROOF
  BY WindowIsNat DEF LimitTypes, MemoryLimits, roll, Counters, RequestsIn, TokensIn

LEMMA LiveInItsWindow ==
  ASSUME ClockTypes, LimitTypes, hash.window = -1 \/ Outlives(hash), hash.window = Window
  PROVE  Live = hash
PROOF
<1>1. PICK n \in Nat : n \div config.window = Window /\ hash.expires = n + 2 * config.window
  BY WindowIsNat DEF Outlives
<1>2. now < n + config.window
  BY <1>1, SameWindow DEF ClockTypes, Window
<1>3. ~(hash.expires <= now)
  BY <1>1, <1>2 DEF ClockTypes
<1> QED
  BY <1>3 DEF Live

LEMMA RolledHashIs ==
  ASSUME ClockTypes, LimitTypes, hash.window = -1 \/ Outlives(hash)
  PROVE  /\ RolledHash \in RedisLimits /\ RolledHash.window = Window /\ Outlives(RolledHash)
         /\ RolledHash.requests = RequestsIn(hash, Window)
         /\ RolledHash.tokens = TokensIn(hash, Window)
PROOF
<1>1. CASE hash.window = Window
  BY <1>1, LiveInItsWindow, WindowIsNat DEF RolledHash, LimitTypes, RequestsIn, TokensIn
<1>2. CASE hash.window # Window
  <2>1. Live.window # Window
    BY <1>2, WindowIsNat DEF Live, NoKey
  <2>2. RolledHash = [window |-> Window, requests |-> 0, tokens |-> 0,
                      expires |-> now + 2 * config.window]
    BY <2>1 DEF RolledHash, NoKey
  <2>3. Outlives(RolledHash)
    BY <2>2 DEF Outlives, ClockTypes, Window
  <2> QED
    BY <1>2, <2>2, <2>3, WindowIsNat DEF RedisLimits, ClockTypes, RequestsIn, TokensIn
<1> QED
  BY <1>1, <1>2

(* Two fields set at once.                                                 *)
LEMMA MemoryCharged ==
  ASSUME NEW s \in MemoryLimits, NEW a, NEW b
  PROVE  [s EXCEPT !.requests = a, !.tokens = b] =
           [window |-> s.window, requests |-> a, tokens |-> b]
PROOF
<1>1. s = [window |-> s.window, requests |-> s.requests, tokens |-> s.tokens]
  BY DEF MemoryLimits
<1>2. [s EXCEPT !.requests = a] = [window |-> s.window, requests |-> a, tokens |-> s.tokens]
  BY <1>1
<1> DEFINE t == [s EXCEPT !.requests = a]
<1>3. t = [window |-> s.window, requests |-> a, tokens |-> s.tokens]
  BY <1>2
<1> HIDE DEF t
<1>4. [t EXCEPT !.tokens = b] =
        [window |-> s.window, requests |-> a, tokens |-> b]
  BY <1>3
<1> QED
  BY <1>4 DEF t

LEMMA MemoryReturned ==
  ASSUME NEW s \in MemoryLimits, NEW a, NEW b
  PROVE  [s EXCEPT !.tokens = a, !.requests = b] =
           [window |-> s.window, requests |-> b, tokens |-> a]
PROOF
<1>1. s = [window |-> s.window, requests |-> s.requests, tokens |-> s.tokens]
  BY DEF MemoryLimits
<1>2. [s EXCEPT !.tokens = a] = [window |-> s.window, requests |-> s.requests, tokens |-> a]
  BY <1>1
<1> DEFINE t == [s EXCEPT !.tokens = a]
<1>3. t = [window |-> s.window, requests |-> s.requests, tokens |-> a]
  BY <1>2
<1> HIDE DEF t
<1>4. [t EXCEPT !.requests = b] =
        [window |-> s.window, requests |-> b, tokens |-> a]
  BY <1>3
<1> QED
  BY <1>4 DEF t

LEMMA HashCharged ==
  ASSUME NEW s \in RedisLimits, NEW a, NEW b
  PROVE  [s EXCEPT !.requests = a, !.tokens = b] =
           [window |-> s.window, requests |-> a, tokens |-> b, expires |-> s.expires]
PROOF
<1>1. s = [window |-> s.window, requests |-> s.requests, tokens |-> s.tokens, expires |-> s.expires]
  BY DEF RedisLimits
<1>2. [s EXCEPT !.requests = a] = [window |-> s.window, requests |-> a, tokens |-> s.tokens, expires |-> s.expires]
  BY <1>1
<1> DEFINE t == [s EXCEPT !.requests = a]
<1>3. t = [window |-> s.window, requests |-> a, tokens |-> s.tokens, expires |-> s.expires]
  BY <1>2
<1> HIDE DEF t
<1>4. [t EXCEPT !.tokens = b] =
        [window |-> s.window, requests |-> a, tokens |-> b, expires |-> s.expires]
  BY <1>3
<1> QED
  BY <1>4 DEF t

LEMMA HashReturned ==
  ASSUME NEW s \in RedisLimits, NEW a, NEW b
  PROVE  [s EXCEPT !.tokens = a, !.requests = b] =
           [window |-> s.window, requests |-> b, tokens |-> a, expires |-> s.expires]
PROOF
<1>1. s = [window |-> s.window, requests |-> s.requests, tokens |-> s.tokens, expires |-> s.expires]
  BY DEF RedisLimits
<1>2. [s EXCEPT !.tokens = a] = [window |-> s.window, requests |-> s.requests, tokens |-> a, expires |-> s.expires]
  BY <1>1
<1> DEFINE t == [s EXCEPT !.tokens = a]
<1>3. t = [window |-> s.window, requests |-> s.requests, tokens |-> a, expires |-> s.expires]
  BY <1>2
<1> HIDE DEF t
<1>4. [t EXCEPT !.requests = b] =
        [window |-> s.window, requests |-> b, tokens |-> a, expires |-> s.expires]
  BY <1>3
<1> QED
  BY <1>4 DEF t

(* A state that was asked and what it said.                                *)
CallResult(m, r, n) ==
  /\ m.rate = r.rate
  /\ m.state \in MemoryLimits /\ r.state \in RedisLimits
  /\ m.state.window \in {memory.window, Window} /\ r.state.window = Window
  /\ r.state.expires = RolledHash.expires
  /\ n # 0 /\ (config.rpm > 0 \/ config.tpm > 0) => m.state.window = Window
  /\ config.rpm > 0 => RequestsIn(m.state, Window) = RequestsIn(r.state, Window)
  /\ config.tpm > 0 => /\ TokensIn(m.state, Window) = TokensIn(r.state, Window)
                       /\ TokensIn(m.state, Window) >=
                            TokensIn(memory, Window) + (IF m.rate = Allowed THEN n ELSE 0)

(* Tokens, perhaps with a request, are granted by both or refused by both. *)
LEMMA ReserveAgrees ==
  ASSUME ClockTypes, LimitInv, NEW n \in Nat \ {0}, NEW request \in BOOLEAN,
         request \/ config.tpm > 0
  PROVE  CallResult(reserve_inner(n, request), RESERVE(RolledHash, n, request), n)
PROOF
<1> DEFINE s == roll(memory)
           h == RolledHash
<1>1. /\ s \in MemoryLimits /\ s.window = Window
      /\ s.requests = RequestsIn(memory, Window) /\ s.tokens = TokensIn(memory, Window)
  BY RolledMemoryIs DEF LimitInv
<1>2. /\ h \in RedisLimits /\ h.window = Window
      /\ h.requests = RequestsIn(hash, Window) /\ h.tokens = TokensIn(hash, Window)
  BY RolledHashIs DEF LimitInv
<1>3. /\ config.rpm > 0 => s.requests = h.requests
      /\ config.tpm > 0 => s.tokens = h.tokens
  BY <1>1, <1>2 DEF LimitInv, LimitsCoupled
<1>4. config.rpm \in Nat /\ config.tpm \in Nat /\ memory \in MemoryLimits /\ Window \in Nat
      /\ memory.window <= Window
  BY WindowIsNat DEF LimitInv, LimitTypes
<1>5. Rejected("rpm") # Allowed /\ Rejected("tpm") # Allowed
  BY DEF Rejected, Allowed
<1> HIDE DEF s, h
<1>6. RESERVE(h, n, request).state.expires = h.expires
  BY <1>2 DEF RESERVE, RedisLimits
<1>7. CASE (~request \/ config.rpm = 0) /\ config.tpm = 0
  <2>1. config.rpm = 0 /\ config.tpm = 0 /\ request
    BY <1>7, <1>4
  <2>2. reserve_inner(n, request) = [state |-> memory, rate |-> Allowed]
    BY <1>7 DEF reserve_inner
  <2> DEFINE k == IF request THEN 1 ELSE 0
  <2>3. /\ ~(request /\ config.rpm > 0 /\ h.requests >= config.rpm)
        /\ ~(config.tpm > 0 /\ h.tokens + n > config.tpm)
    BY <2>1
  <2>4. RESERVE(h, n, request) =
          [state |-> [window |-> h.window, requests |-> h.requests + k, tokens |-> h.tokens + n,
                      expires |-> h.expires], rate |-> Allowed]
    BY <1>2, <2>3 DEF RESERVE, RedisLimits
  <2>5. k \in Nat
    OBVIOUS
  <2> HIDE DEF k
  <2> DEFINE m == reserve_inner(n, request)
             r == RESERVE(h, n, request)
  <2>6. m = [state |-> memory, rate |-> Allowed]
    BY <2>2
  <2>7. r = [state |-> [window |-> h.window, requests |-> h.requests + k, tokens |-> h.tokens + n,
                        expires |-> h.expires], rate |-> Allowed]
    BY <2>4
  <2> HIDE DEF m, r
  <2>8. CallResult(m, r, n)
    BY <1>1, <1>2, <1>4, <2>1, <2>5, <2>6, <2>7
    DEF CallResult, RedisLimits, RequestsIn, TokensIn, h
  <2> QED
    BY <2>8 DEF m, r, h
<1>8. CASE ~((~request \/ config.rpm = 0) /\ config.tpm = 0)
  <2>1. reserve_inner(n, request) = reserve_rolled(s, n, request)
    BY <1>8 DEF reserve_inner, s
  <2>2. CASE request /\ config.rpm > 0 /\ s.requests >= config.rpm
    BY <1>1, <1>2, <1>3, <1>4, <1>5, <2>1, <2>2
    DEF reserve_rolled, RESERVE, CallResult, MemoryLimits, RedisLimits, RequestsIn, TokensIn, h
  <2>3. CASE /\ ~(request /\ config.rpm > 0 /\ s.requests >= config.rpm)
             /\ config.tpm > 0 /\ s.tokens + n > config.tpm
    BY <1>1, <1>2, <1>3, <1>4, <1>5, <2>1, <2>3
    DEF reserve_rolled, RESERVE, CallResult, MemoryLimits, RedisLimits, RequestsIn, TokensIn, h
  <2>4. CASE /\ ~(request /\ config.rpm > 0 /\ s.requests >= config.rpm)
             /\ ~(config.tpm > 0 /\ s.tokens + n > config.tpm)
    <3> DEFINE k == IF request THEN 1 ELSE 0
    <3>1. reserve_rolled(s, n, request) =
            [state |-> [window |-> s.window, requests |-> s.requests + k, tokens |-> s.tokens + n],
             rate |-> Allowed]
      BY <1>1, <2>4 DEF reserve_rolled, MemoryLimits
    <3>2. RESERVE(h, n, request) =
            [state |-> [window |-> h.window, requests |-> h.requests + k, tokens |-> h.tokens + n,
                        expires |-> h.expires], rate |-> Allowed]
      BY <1>2, <1>3, <1>4, <2>4 DEF RESERVE, RedisLimits
    <3> QED
      BY <1>1, <1>2, <1>3, <1>4, <2>1, <3>1, <3>2
      DEF CallResult, MemoryLimits, RedisLimits, RequestsIn, TokensIn, h
  <2> QED
    BY <2>2, <2>3, <2>4
<1> QED
  BY <1>7, <1>8 DEF h

(* So is a request alone.                                                  *)
LEMMA AdmitAgrees ==
  ASSUME ClockTypes, LimitInv
  PROVE  CallResult(reserve_inner(0, TRUE), ADMIT(RolledHash), 0)
PROOF
<1> DEFINE s == roll(memory)
           h == RolledHash
<1>1. /\ s \in MemoryLimits /\ s.window = Window
      /\ s.requests = RequestsIn(memory, Window) /\ s.tokens = TokensIn(memory, Window)
  BY RolledMemoryIs DEF LimitInv
<1>2. /\ h \in RedisLimits /\ h.window = Window
      /\ h.requests = RequestsIn(hash, Window) /\ h.tokens = TokensIn(hash, Window)
  BY RolledHashIs DEF LimitInv
<1>3. /\ config.rpm > 0 => s.requests = h.requests
      /\ config.tpm > 0 => s.tokens = h.tokens
  BY <1>1, <1>2 DEF LimitInv, LimitsCoupled
<1>4. config.rpm \in Nat /\ config.tpm \in Nat /\ memory \in MemoryLimits /\ Window \in Nat
      /\ memory.window <= Window
  BY WindowIsNat DEF LimitInv, LimitTypes
<1>5. Rejected("rpm") # Allowed /\ Rejected("tpm") # Allowed
  BY DEF Rejected, Allowed
<1> HIDE DEF s, h
<1> DEFINE m == reserve_inner(0, TRUE)
           r == ADMIT(h)
<1>7. CASE config.rpm = 0 /\ config.tpm = 0
  <2>2. m = [state |-> memory, rate |-> Allowed]
    BY <1>7 DEF reserve_inner
  <2>3. r =
          [state |-> [window |-> h.window, requests |-> h.requests + 1, tokens |-> h.tokens,
                      expires |-> h.expires], rate |-> Allowed]
    BY <1>2, <1>7 DEF ADMIT, RedisLimits
  <2> HIDE DEF m, r
  <2>4. CallResult(m, r, 0)
    BY <1>1, <1>2, <1>4, <1>7, <2>2, <2>3 DEF CallResult, RedisLimits, h
  <2> QED
    BY <2>4 DEF m, r, h
<1>8. CASE ~(config.rpm = 0 /\ config.tpm = 0)
  <2>1. m = IF config.rpm > 0 /\ s.requests >= config.rpm
            THEN [state |-> s, rate |-> Rejected("rpm")]
            ELSE IF config.tpm > 0 /\ s.tokens >= config.tpm
            THEN [state |-> s, rate |-> Rejected("tpm")]
            ELSE [state |-> [window |-> s.window, requests |-> s.requests + 1, tokens |-> s.tokens + 0],
                  rate |-> Allowed]
    <3>1. m = reserve_rolled(s, 0, TRUE)
      BY <1>8 DEF reserve_inner, s
    <3> HIDE DEF m
    <3>2. [s EXCEPT !.requests = @ + 1, !.tokens = @ + 0] =
            [window |-> s.window, requests |-> s.requests + 1, tokens |-> s.tokens + 0]
      BY <1>1, MemoryCharged, Zenon
    <3>3. m = IF TRUE /\ config.rpm > 0 /\ s.requests >= config.rpm
              THEN [state |-> s, rate |-> Rejected("rpm")]
              ELSE IF config.tpm > 0 /\ (IF 0 = 0 THEN s.tokens >= config.tpm
                                         ELSE s.tokens + 0 > config.tpm)
              THEN [state |-> s, rate |-> Rejected("tpm")]
              ELSE [state |-> [s EXCEPT !.requests = @ + (IF TRUE THEN 1 ELSE 0), !.tokens = @ + 0],
                    rate |-> Allowed]
      BY <3>1 DEF reserve_rolled
    <3> QED
      BY <3>2, <3>3
  <2>2. r = IF config.rpm > 0 /\ h.requests >= config.rpm
            THEN [state |-> h, rate |-> Rejected("rpm")]
            ELSE IF config.tpm > 0 /\ h.tokens >= config.tpm
            THEN [state |-> h, rate |-> Rejected("tpm")]
            ELSE [state |-> [window |-> h.window, requests |-> h.requests + 1, tokens |-> h.tokens,
                             expires |-> h.expires], rate |-> Allowed]
    BY <1>2 DEF ADMIT, RedisLimits
  <2> HIDE DEF m, r
  <2>3. CallResult(m, r, 0)
    BY <1>1, <1>2, <1>3, <1>4, <1>5, <2>1, <2>2
    DEF CallResult, MemoryLimits, RedisLimits, RequestsIn, TokensIn, h
  <2> QED
    BY <2>3 DEF m, r, h
<1> QED
  BY <1>7, <1>8 DEF h

-----------------------------------------------------------------------------
(* What the reservations of a window hold *)

LEMMA HeldType ==
  ASSUME NEW d, \A q \in DOMAIN d : d[q] \in Reservations, NEW w \in Nat
  PROVE  TokensOf(d, w) \in [Ids -> Nat] /\ HeldTokens(d, w) \in Nat
PROOF
<1>1. TokensOf(d, w) \in [Ids -> Nat]
  BY DEF TokensOf, Reservations
<1>2. IsFiniteSet(Ids) /\ Ids \in SUBSET Ids
  BY BackendAssumption
<1> QED
  BY <1>1, <1>2, SumType DEF HeldTokens

(* One more.                                                               *)
LEMMA HeldGrows ==
  ASSUME NEW d, \A q \in DOMAIN d : d[q] \in Reservations, NEW w \in Nat,
         NEW p \in Ids \ DOMAIN d, NEW r \in Reservations, NEW e,
         e = [x \in DOMAIN d \cup {p} |-> IF x = p THEN r ELSE d[x]]
  PROVE  HeldTokens(e, w) = HeldTokens(d, w) + (IF r.window = w THEN r.tokens ELSE 0)
PROOF
<1>1. \A q \in DOMAIN e : e[q] \in Reservations
  OBVIOUS
<1>2. TokensOf(d, w) \in [Ids -> Nat] /\ TokensOf(e, w) \in [Ids -> Nat]
      /\ HeldTokens(d, w) \in Nat
  BY <1>1, HeldType
<1>3. IsFiniteSet(Ids) /\ Ids \in SUBSET Ids /\ p \in Ids
  BY BackendAssumption
<1>4. \A y \in Ids \ {p} : TokensOf(d, w)[y] = TokensOf(e, w)[y]
  BY DEF TokensOf
<1>5. TokensOf(d, w)[p] = 0
  BY DEF TokensOf
<1>6. TokensOf(e, w)[p] = (IF r.window = w THEN r.tokens ELSE 0)
  BY DEF TokensOf
<1>7. SumFunctionOnSet(TokensOf(e, w), Ids) =
        (SumFunctionOnSet(TokensOf(d, w), Ids) - TokensOf(d, w)[p]) + TokensOf(e, w)[p]
  BY <1>2, <1>3, <1>4, SumChange
<1> QED
  BY <1>2, <1>5, <1>6, <1>7 DEF HeldTokens, Reservations

(* One less.                                                               *)
LEMMA HeldShrinks ==
  ASSUME NEW d, DOMAIN d \subseteq Ids, \A q \in DOMAIN d : d[q] \in Reservations, NEW w \in Nat,
         NEW p \in DOMAIN d, NEW e, e = [x \in DOMAIN d \ {p} |-> d[x]]
  PROVE  /\ HeldTokens(e, w) \in Nat
         /\ HeldTokens(d, w) = HeldTokens(e, w) + (IF d[p].window = w THEN d[p].tokens ELSE 0)
PROOF
<1>1. \A q \in DOMAIN e : e[q] \in Reservations
  OBVIOUS
<1>2. TokensOf(d, w) \in [Ids -> Nat] /\ TokensOf(e, w) \in [Ids -> Nat]
      /\ HeldTokens(d, w) \in Nat /\ HeldTokens(e, w) \in Nat
  BY <1>1, HeldType
<1>3. IsFiniteSet(Ids) /\ Ids \in SUBSET Ids /\ p \in Ids
  BY BackendAssumption
<1>4. \A y \in Ids \ {p} : TokensOf(e, w)[y] = TokensOf(d, w)[y]
  BY DEF TokensOf
<1>5. TokensOf(e, w)[p] = 0
  BY <1>3 DEF TokensOf
<1>6. TokensOf(d, w)[p] = (IF d[p].window = w THEN d[p].tokens ELSE 0)
  BY <1>3 DEF TokensOf
<1>7. SumFunctionOnSet(TokensOf(d, w), Ids) =
        (SumFunctionOnSet(TokensOf(e, w), Ids) - TokensOf(e, w)[p]) + TokensOf(d, w)[p]
  BY <1>2, <1>3, <1>4, SumChange, SMTT(30)
<1> QED
  BY <1>2, <1>5, <1>6, <1>7 DEF HeldTokens, Reservations

LEMMA HeldNone ==
  ASSUME NEW d, \A q \in DOMAIN d : d[q] \in Reservations, NEW w \in Nat,
         \A q \in DOMAIN d : d[q].window # w
  PROVE  HeldTokens(d, w) = 0
PROOF
<1>1. TokensOf(d, w) \in [Ids -> Nat] /\ \A q \in Ids : TokensOf(d, w)[q] = 0
  BY DEF TokensOf
<1>2. IsFiniteSet(Ids) /\ Ids \in SUBSET Ids
  BY BackendAssumption
<1> QED
  BY <1>1, <1>2, SumZero DEF HeldTokens

-----------------------------------------------------------------------------
(* Calls on a limit keep the backends together *)

(* A call that may add a reservation.                                      *)
LEMMA GrantKeeps ==
  ASSUME ClockTypes, LimitInv, UNCHANGED <<config, now>>, NEW n \in Nat,
         CallResult([state |-> memory', rate |-> answers'.memory],
                    [state |-> hash', rate |-> answers'.redis], n),
         \/ held' = held
         \/ /\ n # 0 /\ answers'.memory = Allowed
            /\ \E q \in Ids \ DOMAIN held, request \in BOOLEAN :
                 held' = [x \in DOMAIN held \cup {q} |->
                            IF x = q THEN Reservation(n, request) ELSE held[x]]
  PROVE  LimitInv'
PROOF
<1> DEFINE W == Window
<1>1. W \in Nat /\ Window' = W /\ config' = config
  BY WindowIsNat DEF Window
<1>2. LimitTypes
  BY DEF LimitInv
<1>3. /\ answers'.memory = answers'.redis
      /\ memory' \in MemoryLimits /\ hash' \in RedisLimits
      /\ memory'.window \in {memory.window, W} /\ hash'.window = W
      /\ hash'.expires = RolledHash.expires
      /\ n # 0 /\ (config.rpm > 0 \/ config.tpm > 0) => memory'.window = W
      /\ config.rpm > 0 => RequestsIn(memory', W) = RequestsIn(hash', W)
      /\ config.tpm > 0 => /\ TokensIn(memory', W) = TokensIn(hash', W)
                           /\ TokensIn(memory', W) >=
                                TokensIn(memory, W) + (IF answers'.memory = Allowed THEN n ELSE 0)
  BY DEF CallResult
<1> HIDE DEF W
<1>4. Outlives(hash)'
  <2>1. Outlives(RolledHash) /\ RolledHash.window = W
    BY RolledHashIs DEF LimitInv, W
  <2>2. PICK k \in Nat : k \div config.window = W /\ RolledHash.expires = k + 2 * config.window
    BY <2>1 DEF Outlives
  <2> QED
    BY <1>1, <1>3, <2>2 DEF Outlives
<1>5. memory'.window <= W /\ hash'.window <= W
  BY <1>1, <1>2, <1>3 DEF LimitInv, LimitTypes, MemoryLimits, RedisLimits, W
<1>6. LimitsCoupled'
  BY <1>1, <1>3 DEF LimitsCoupled
<1>7. TokensIn(memory, W) \in Nat /\ TokensIn(memory', W) \in Nat /\ HeldTokens(held, W) \in Nat
  BY <1>1, <1>2, <1>3, HeldType DEF TokensIn, MemoryLimits, LimitTypes
<1>8. CASE held' = held
  <2>1. LimitTypes'
    BY <1>1, <1>2, <1>3, <1>8 DEF LimitTypes
  <2>2. HeldIsCounted'
    BY <1>1, <1>3, <1>8 DEF LimitInv, HeldIsCounted, W
  <2>3. config.tpm > 0 => HeldTokens(held', W) <= TokensIn(memory', W)
    BY <1>3, <1>7, <1>8 DEF LimitInv, W
  <2> QED
    BY <1>1, <1>3, <1>4, <1>5, <1>6, <2>1, <2>2, <2>3 DEF LimitInv
<1>9. CASE held' # held
  <2>1. PICK q \in Ids \ DOMAIN held, request \in BOOLEAN :
          held' = [x \in DOMAIN held \cup {q} |->
                     IF x = q THEN Reservation(n, request) ELSE held[x]]
    BY <1>9
  <2>2. n # 0 /\ answers'.memory = Allowed
    BY <1>9
  <2> DEFINE r == Reservation(n, request)
  <2>3. r \in Reservations /\ r.window = W /\ r.tokens = n
    BY <1>1, <2>2 DEF Reservation, Reservations, W
  <2> HIDE DEF r
  <2>4. held' = [x \in DOMAIN held \cup {q} |-> IF x = q THEN r ELSE held[x]]
    BY <2>1 DEF r
  <2>5. LimitTypes'
    BY <1>1, <1>2, <1>3, <2>3, <2>4 DEF LimitTypes
  <2>6. HeldIsCounted'
    BY <1>1, <1>3, <2>2, <2>3, <2>4 DEF LimitInv, HeldIsCounted, W
  <2>7. HeldTokens(held', W) = HeldTokens(held, W) + n
    <3>1. (\A x \in DOMAIN held : held[x] \in Reservations) /\ q \in Ids \ DOMAIN held
      BY <1>2 DEF LimitTypes
    <3>2. HeldTokens(held', W) = HeldTokens(held, W) + (IF r.window = W THEN r.tokens ELSE 0)
      <4>1. r \in Reservations /\ W \in Nat
        BY <1>1, <2>3
      <4>2. \A e : e = [x \in DOMAIN held \cup {q} |-> IF x = q THEN r ELSE held[x]] =>
              HeldTokens(e, W) = HeldTokens(held, W) + (IF r.window = W THEN r.tokens ELSE 0)
        BY <3>1, <4>1, HeldGrows, Zenon
      <4> QED
        BY <2>4, <4>2, Zenon
    <3> QED
      BY <2>3, <3>2
  <2>8. config.tpm > 0 => HeldTokens(held', W) <= TokensIn(memory', W)
    BY <1>3, <1>7, <2>2, <2>7 DEF LimitInv, W
  <2> QED
    BY <1>1, <1>3, <1>4, <1>5, <1>6, <2>5, <2>6, <2>8 DEF LimitInv
<1> QED
  BY <1>8, <1>9

(* A call that settles a reservation.                                      *)
LEMMA SettleKeeps ==
  ASSUME ClockTypes, LimitInv, UNCHANGED <<config, now, answers>>, NEW q \in DOMAIN held, Settled(q),
         memory' \in MemoryLimits, hash' \in RedisLimits, memory'.window = memory.window,
         \/ hash'.window = -1 /\ hash.window # Window
         \/ hash'.window = hash.window /\ hash'.expires = hash.expires,
         config.rpm > 0 => RequestsIn(memory', Window) = RequestsIn(hash', Window),
         config.tpm > 0 => /\ TokensIn(memory', Window) = TokensIn(hash', Window)
                           /\ TokensIn(memory', Window) + (IF held[q].window = Window
                                                           THEN held[q].tokens ELSE 0)
                                >= TokensIn(memory, Window)
  PROVE  LimitInv'
PROOF
<1> DEFINE W == Window
<1>1. W \in Nat /\ Window' = W /\ config' = config
  BY WindowIsNat DEF Window
<1>2. LimitTypes
  BY DEF LimitInv
<1>3. held' = [x \in DOMAIN held \ {q} |-> held[x]]
  BY DEF Settled
<1>4. hash'.window = -1 \/ Outlives(hash)'
  BY <1>1 DEF LimitInv, Outlives
<1>5. memory'.window <= W /\ hash'.window <= W
  BY <1>1, <1>2 DEF LimitInv, LimitTypes, MemoryLimits, RedisLimits
<1>6. LimitsCoupled'
  BY <1>1 DEF LimitsCoupled
<1>7. LimitTypes'
  BY <1>1, <1>2, <1>3 DEF LimitTypes
<1>8. HeldIsCounted'
  BY <1>1, <1>3 DEF LimitInv, HeldIsCounted
<1>9. TokensIn(memory, W) \in Nat /\ TokensIn(memory', W) \in Nat
  BY <1>1, <1>2 DEF TokensIn, MemoryLimits, LimitTypes
<1>10. HeldTokens(held', W) \in Nat
       /\ HeldTokens(held, W) = HeldTokens(held', W)
                                + (IF held[q].window = W THEN held[q].tokens ELSE 0)
  BY <1>1, <1>2, <1>3, HeldShrinks DEF LimitTypes
<1>11. held[q] \in Reservations
  BY <1>2 DEF LimitTypes
<1>12. config.tpm > 0 => HeldTokens(held', W) <= TokensIn(memory', W)
  BY <1>9, <1>10, <1>11 DEF LimitInv, Reservations
<1> QED
  BY <1>1, <1>4, <1>5, <1>6, <1>7, <1>8, <1>12 DEF LimitInv

LEMMA AdmitKeeps == ClockTypes /\ LimitInv /\ admit => LimitInv'
PROOF
<1> SUFFICES ASSUME ClockTypes, LimitInv, admit PROVE LimitInv'
  OBVIOUS
<1> DEFINE m == reserve_inner(0, TRUE)
           r == ADMIT(RolledHash)
<1>1. CallResult(m, r, 0)
  BY AdmitAgrees
<1>2. memory' = m.state /\ hash' = r.state /\ answers' = [memory |-> m.rate, redis |-> r.rate]
      /\ UNCHANGED <<config, now, held>>
  BY DEF admit, Call, Answer, MemoryAdmit
<1> HIDE DEF m, r
<1>3. CallResult([state |-> memory', rate |-> answers'.memory],
                 [state |-> hash', rate |-> answers'.redis], 0)
  BY <1>1, <1>2 DEF CallResult
<1> QED
  BY <1>2, <1>3, GrantKeeps

LEMMA ReserveKeeps ==
  ASSUME NEW q \in Ids, NEW n \in Sizes
  PROVE  ClockTypes /\ LimitInv /\ reserve(q, n) => LimitInv'
PROOF
<1> SUFFICES ASSUME ClockTypes, LimitInv, reserve(q, n) PROVE LimitInv'
  OBVIOUS
<1> DEFINE m == reserve_inner(n, TRUE)
           r == RESERVE(RolledHash, n, TRUE)
<1>0. n \in Nat \ {0} /\ q \in Ids \ DOMAIN held
  BY BackendAssumption DEF reserve
<1>1. CallResult(m, r, n)
  BY <1>0, ReserveAgrees
<1>2. memory' = m.state /\ hash' = r.state /\ answers' = [memory |-> m.rate, redis |-> r.rate]
      /\ UNCHANGED <<config, now>>
  BY DEF reserve, Call, Answer, MemoryReserve
<1> HIDE DEF m, r
<1>3. CallResult([state |-> memory', rate |-> answers'.memory],
                 [state |-> hash', rate |-> answers'.redis], n)
  BY <1>1, <1>2 DEF CallResult
<1>4. \/ held' = held
      \/ /\ answers'.memory = Allowed
         /\ held' = [x \in DOMAIN held \cup {q} |->
                       IF x = q THEN Reservation(n, TRUE) ELSE held[x]]
  BY DEF reserve, Reserved
<1>5. \/ held' = held
      \/ /\ n # 0 /\ answers'.memory = Allowed
         /\ \E p \in Ids \ DOMAIN held, request \in BOOLEAN :
              held' = [x \in DOMAIN held \cup {p} |->
                         IF x = p THEN Reservation(n, request) ELSE held[x]]
  BY <1>0, <1>4
<1> QED
  BY <1>0, <1>2, <1>3, <1>5, GrantKeeps

LEMMA ReserveTokensKeeps ==
  ASSUME NEW q \in Ids, NEW n \in Sizes
  PROVE  ClockTypes /\ LimitInv /\ reserve_tokens(q, n) => LimitInv'
PROOF
<1> SUFFICES ASSUME ClockTypes, LimitInv, reserve_tokens(q, n) PROVE LimitInv'
  OBVIOUS
<1>0. n \in Nat \ {0} /\ q \in Ids \ DOMAIN held /\ config.tpm \in Nat
      /\ UNCHANGED <<config, now>>
  BY BackendAssumption DEF reserve_tokens, Call, LimitInv, LimitTypes
<1>1. CASE config.tpm = 0
  <2>1. MemoryReserveTokens(n) = [state |-> memory, rate |-> Allowed]
    BY <1>1 DEF MemoryReserveTokens, reserve_inner
  <2>2. memory' = memory /\ hash' = hash /\ held' = held
        /\ answers' = [memory |-> Allowed, redis |-> Allowed]
    BY <1>1, <2>1 DEF reserve_tokens, Answer
  <2>3. Window' = Window
    BY <1>0 DEF Window
  <2>4. LimitTypes' /\ LimitsCoupled' /\ HeldIsCounted'
    BY <1>0, <2>2, <2>3 DEF LimitInv, LimitTypes, LimitsCoupled, HeldIsCounted
  <2>5. (hash.window = -1 \/ Outlives(hash))'
    BY <1>0, <2>2 DEF LimitInv, Outlives
  <2> QED
    BY <1>0, <2>2, <2>3, <2>4, <2>5 DEF LimitInv
<1>2. CASE config.tpm # 0
  <2> DEFINE m == reserve_inner(n, FALSE)
             r == RESERVE(RolledHash, n, FALSE)
  <2>1. CallResult(m, r, n)
    <3>1. config.tpm > 0 /\ FALSE \in BOOLEAN
      BY <1>0, <1>2
    <3> QED
      BY <1>0, <3>1, ReserveAgrees, Zenon
  <2>2. memory' = m.state /\ hash' = r.state /\ answers' = [memory |-> m.rate, redis |-> r.rate]
    BY <1>2 DEF reserve_tokens, Answer, MemoryReserveTokens
  <2> HIDE DEF m, r
  <2>3. CallResult([state |-> memory', rate |-> answers'.memory],
                   [state |-> hash', rate |-> answers'.redis], n)
    BY <2>1, <2>2 DEF CallResult
  <2>4. \/ held' = held
        \/ /\ answers'.memory = Allowed
           /\ held' = [x \in DOMAIN held \cup {q} |->
                         IF x = q THEN Reservation(n, FALSE) ELSE held[x]]
    BY <1>2 DEF reserve_tokens, Reserved
  <2>5. \/ held' = held
        \/ /\ n # 0 /\ answers'.memory = Allowed
           /\ \E p \in Ids \ DOMAIN held, request \in BOOLEAN :
                held' = [x \in DOMAIN held \cup {p} |->
                           IF x = p THEN Reservation(n, request) ELSE held[x]]
    BY <1>0, <2>4
  <2> QED
    BY <1>0, <2>3, <2>5, GrantKeeps
<1> QED
  BY <1>1, <1>2

LEMMA AddTokensKeeps ==
  ASSUME NEW n \in Sizes
  PROVE  ClockTypes /\ LimitInv /\ add_tokens(n) => LimitInv'
PROOF
<1> SUFFICES ASSUME ClockTypes, LimitInv, add_tokens(n) PROVE LimitInv'
  OBVIOUS
<1> DEFINE s == roll(memory)
           h == RolledHash
<1>0. n \in Nat \ {0} /\ config.tpm \in Nat /\ UNCHANGED <<config, now, held, answers>>
      /\ memory \in MemoryLimits /\ Window \in Nat /\ answers.memory = answers.redis
  BY BackendAssumption, WindowIsNat DEF add_tokens, Call, LimitInv, LimitTypes
<1>1. /\ s \in MemoryLimits /\ s.window = Window
      /\ s.requests = RequestsIn(memory, Window) /\ s.tokens = TokensIn(memory, Window)
  BY RolledMemoryIs DEF LimitInv
<1>2. /\ h \in RedisLimits /\ h.window = Window
      /\ h.requests = RequestsIn(hash, Window) /\ h.tokens = TokensIn(hash, Window)
  BY RolledHashIs DEF LimitInv
<1>3. /\ config.rpm > 0 => s.requests = h.requests
      /\ config.tpm > 0 => s.tokens = h.tokens
  BY <1>1, <1>2 DEF LimitInv, LimitsCoupled
<1>4. memory' = IF config.tpm = 0 THEN memory ELSE [s EXCEPT !.tokens = @ + n]
  BY DEF add_tokens, MemoryAddTokens, add_tokens_at
<1>5. hash' = [h EXCEPT !.tokens = @ + n]
  BY DEF add_tokens, ADD_TOKENS
<1>6. RolledHash = h
  OBVIOUS
<1> HIDE DEF s, h
<1>7. hash' = [window |-> h.window, requests |-> h.requests, tokens |-> h.tokens + n,
               expires |-> h.expires]
  BY <1>2, <1>5 DEF RedisLimits
<1>8. memory' = IF config.tpm = 0 THEN memory
                ELSE [window |-> s.window, requests |-> s.requests, tokens |-> s.tokens + n]
  BY <1>1, <1>4 DEF MemoryLimits
<1>9. CallResult([state |-> memory', rate |-> answers'.memory],
                 [state |-> hash', rate |-> answers'.redis], 0)
  BY <1>0, <1>1, <1>2, <1>3, <1>6, <1>7, <1>8
  DEF CallResult, MemoryLimits, RedisLimits, RequestsIn, TokensIn
<1> QED
  BY <1>0, <1>9, GrantKeeps

LEMMA SnapshotKeeps == ClockTypes /\ LimitInv /\ snapshot => LimitInv'
PROOF
<1> SUFFICES ASSUME ClockTypes, LimitInv, snapshot PROVE LimitInv'
  OBVIOUS
<1> DEFINE s == roll(memory)
           h == RolledHash
<1>0. config.rpm \in Nat /\ config.rpm > 0 /\ UNCHANGED <<config, now, held>>
      /\ memory \in MemoryLimits /\ Window \in Nat
  BY WindowIsNat DEF snapshot, Call, LimitInv, LimitTypes
<1>1. /\ s \in MemoryLimits /\ s.window = Window
      /\ s.requests = RequestsIn(memory, Window) /\ s.tokens = TokensIn(memory, Window)
  BY RolledMemoryIs DEF LimitInv
<1>2. /\ h \in RedisLimits /\ h.window = Window
      /\ h.requests = RequestsIn(hash, Window) /\ h.tokens = TokensIn(hash, Window)
  BY RolledHashIs DEF LimitInv
<1>3. /\ config.rpm > 0 => s.requests = h.requests
      /\ config.tpm > 0 => s.tokens = h.tokens
  BY <1>1, <1>2 DEF LimitInv, LimitsCoupled
<1>4. memory' = s /\ hash' = h /\ answers' = [memory |-> Remaining(s), redis |-> Remaining(h)]
  BY DEF snapshot
<1>5. RolledHash = h
  OBVIOUS
<1> HIDE DEF s, h
<1>6. Remaining(s) = Remaining(h)
  BY <1>0, <1>3 DEF Remaining
<1>7. CallResult([state |-> memory', rate |-> answers'.memory],
                 [state |-> hash', rate |-> answers'.redis], 0)
  BY <1>0, <1>1, <1>2, <1>3, <1>4, <1>5, <1>6
  DEF CallResult, MemoryLimits, RedisLimits, RequestsIn, TokensIn
<1> QED
  BY <1>0, <1>7, GrantKeeps

LEMMA ReconcileKeeps ==
  ASSUME NEW q \in Ids, NEW usage \in Sizes
  PROVE  ClockTypes /\ LimitInv /\ reconcile(q, usage) => LimitInv'
PROOF
<1> SUFFICES ASSUME ClockTypes, LimitInv, reconcile(q, usage) PROVE LimitInv'
  OBVIOUS
<1> DEFINE r == held[q]
           W == Window
<1>0. /\ usage \in Nat /\ q \in DOMAIN held /\ r \in Reservations /\ W \in Nat
      /\ UNCHANGED <<config, now, answers>> /\ Settled(q)
      /\ config.tpm \in Nat /\ config.rpm \in Nat
      /\ memory \in MemoryLimits /\ hash \in RedisLimits /\ r.window <= W
      /\ memory.window <= W /\ hash.window <= W
  BY BackendAssumption, WindowIsNat
  DEF reconcile, Call, LimitInv, LimitTypes, HeldIsCounted
<1>1. memory' = IF memory.window # r.window THEN memory
                ELSE [memory EXCEPT !.tokens = IF usage >= r.tokens THEN @ + (usage - r.tokens)
                                               ELSE Minus(@, r.tokens - usage)]
  BY DEF reconcile, MemoryReconcile, reconcile_at
<1>2. hash' = IF Live.window # r.window THEN Live ELSE [Live EXCEPT !.tokens = @ + usage - r.tokens]
  BY DEF reconcile, RECONCILE
<1>3. Live = hash \/ (Live = NoKey /\ hash.window # W)
  BY LiveInItsWindow DEF Live, LimitInv
<1>4. /\ r.window = W /\ (config.rpm > 0 \/ config.tpm > 0) => memory.window = W /\ hash.window = W
      /\ config.rpm > 0 => RequestsIn(memory, W) = RequestsIn(hash, W)
      /\ config.tpm > 0 => TokensIn(memory, W) = TokensIn(hash, W)
  BY <1>0 DEF LimitInv, HeldIsCounted, LimitsCoupled
<1>5. r.window = W /\ config.tpm > 0 => r.tokens <= TokensIn(memory, W)
  <2> DEFINE e == [x \in DOMAIN held \ {q} |-> held[x]]
  <2>1. HeldTokens(e, W) \in Nat
        /\ HeldTokens(held, W) = HeldTokens(e, W) + (IF held[q].window = W THEN held[q].tokens ELSE 0)
    BY <1>0, HeldShrinks DEF LimitInv, LimitTypes
  <2> HIDE DEF e
  <2>2. TokensIn(memory, W) \in Nat
    BY <1>0 DEF TokensIn, MemoryLimits
  <2> QED
    BY <1>0, <2>1, <2>2 DEF LimitInv, Reservations
<1> HIDE DEF r, W
<1> DEFINE t == IF usage >= r.tokens THEN memory.tokens + (usage - r.tokens)
                ELSE Minus(memory.tokens, r.tokens - usage)
<1>6. t \in Nat
  BY <1>0 DEF Minus, MemoryLimits, Reservations
<1>7. memory' = IF memory.window # r.window THEN memory
                ELSE [window |-> memory.window, requests |-> memory.requests, tokens |-> t]
  BY <1>0, <1>1 DEF MemoryLimits
<1>8. memory' \in MemoryLimits /\ memory'.window = memory.window /\ memory'.requests = memory.requests
  BY <1>0, <1>6, <1>7 DEF MemoryLimits
<1>9. Live \in RedisLimits
  BY <1>0, <1>3 DEF RedisLimits, NoKey, Never
<1>10. hash' = IF Live.window # r.window THEN Live
               ELSE [window |-> Live.window, requests |-> Live.requests,
                     tokens |-> Live.tokens + usage - r.tokens, expires |-> Live.expires]
  BY <1>2, <1>9 DEF RedisLimits
<1>11. hash' \in RedisLimits /\ hash'.window = Live.window /\ hash'.requests = Live.requests
       /\ hash'.expires = Live.expires
  BY <1>0, <1>9, <1>10 DEF RedisLimits, Reservations
<1>12. \/ hash'.window = -1 /\ hash.window # W
       \/ hash'.window = hash.window /\ hash'.expires = hash.expires
  BY <1>3, <1>11 DEF NoKey
<1>13. config.rpm > 0 => RequestsIn(memory', W) = RequestsIn(hash', W)
  BY <1>0, <1>3, <1>4, <1>8, <1>11 DEF RequestsIn, NoKey
<1>14. config.tpm > 0 => /\ TokensIn(memory', W) = TokensIn(hash', W)
                         /\ TokensIn(memory', W) + (IF r.window = W THEN r.tokens ELSE 0)
                              >= TokensIn(memory, W)
  <2> SUFFICES ASSUME config.tpm > 0
               PROVE  /\ TokensIn(memory', W) = TokensIn(hash', W)
                      /\ TokensIn(memory', W) + (IF r.window = W THEN r.tokens ELSE 0)
                           >= TokensIn(memory, W)
    OBVIOUS
  <2>1. CASE r.window = W
    <3>1. memory.window = W /\ hash.window = W /\ Live = hash /\ memory.tokens = hash.tokens
          /\ r.tokens <= memory.tokens
      BY <1>0, <1>3, <1>4, <1>5, <2>1 DEF TokensIn
    <3>2. t = memory.tokens + usage - r.tokens
      BY <1>0, <3>1 DEF Minus, MemoryLimits, Reservations
    <3>3. memory'.tokens = t /\ hash'.tokens = hash.tokens + usage - r.tokens
          /\ memory'.window = W /\ hash'.window = W
      BY <1>7, <1>10, <2>1, <3>1
    <3> HIDE DEF t
    <3> QED
      BY <1>0, <1>6, <2>1, <3>1, <3>2, <3>3 DEF TokensIn, MemoryLimits, RedisLimits, Reservations
  <2>2. CASE r.window # W
    <3>1. TokensIn(memory', W) = TokensIn(memory, W)
      BY <1>0, <1>7, <1>8, <2>2 DEF TokensIn
    <3>2. TokensIn(hash', W) = TokensIn(hash, W)
      BY <1>0, <1>3, <1>10, <1>11, <2>2 DEF TokensIn, NoKey
    <3>3. TokensIn(memory, W) \in Nat
      BY <1>0 DEF TokensIn, MemoryLimits
    <3> QED
      BY <1>4, <2>2, <3>1, <3>2, <3>3
  <2> QED
    BY <2>1, <2>2
<1> QED
  BY <1>0, <1>8, <1>11, <1>12, <1>13, <1>14, SettleKeeps DEF r, W

LEMMA RollbackKeeps ==
  ASSUME NEW q \in Ids
  PROVE  ClockTypes /\ LimitInv /\ rollback(q) => LimitInv'
PROOF
<1> SUFFICES ASSUME ClockTypes, LimitInv, rollback(q) PROVE LimitInv'
  OBVIOUS
<1> DEFINE r == held[q]
           W == Window
<1>0. /\ q \in DOMAIN held /\ r \in Reservations /\ W \in Nat
      /\ UNCHANGED <<config, now, answers>> /\ Settled(q)
      /\ config.tpm \in Nat /\ config.rpm \in Nat
      /\ memory \in MemoryLimits /\ hash \in RedisLimits /\ r.window <= W
      /\ memory.window <= W /\ hash.window <= W
  BY WindowIsNat DEF rollback, Call, LimitInv, LimitTypes, HeldIsCounted
<1>1. memory' = IF memory.window # r.window THEN memory
                ELSE [memory EXCEPT !.tokens = Minus(@, r.tokens),
                                    !.requests = IF r.request THEN Minus(@, 1) ELSE @]
  BY DEF rollback, MemoryRollback, rollback_at
<1>2. hash' = IF Live.window # r.window THEN Live
              ELSE [Live EXCEPT !.tokens = Minus(@, r.tokens),
                                !.requests = IF r.request THEN Minus(@, 1) ELSE @]
  BY DEF rollback, ROLLBACK
<1>3. Live = hash \/ (Live = NoKey /\ hash.window # W)
  BY LiveInItsWindow DEF Live, LimitInv
<1>4. /\ r.window = W /\ (config.rpm > 0 \/ config.tpm > 0) => memory.window = W /\ hash.window = W
      /\ config.rpm > 0 => RequestsIn(memory, W) = RequestsIn(hash, W)
      /\ config.tpm > 0 => TokensIn(memory, W) = TokensIn(hash, W)
  BY <1>0 DEF LimitInv, HeldIsCounted, LimitsCoupled
<1> HIDE DEF r, W
<1> DEFINE less(n) == IF r.request THEN Minus(n, 1) ELSE n
<1>5. /\ \A n \in Nat : Minus(n, r.tokens) \in Nat /\ less(n) \in Nat
                        /\ Minus(n, r.tokens) + r.tokens >= n
      /\ \A n \in Int : Minus(n, r.tokens) \in Int
  BY <1>0 DEF Minus, Reservations
<1>6. memory' = IF memory.window # r.window THEN memory
                ELSE [window |-> memory.window, requests |-> less(memory.requests),
                      tokens |-> Minus(memory.tokens, r.tokens)]
  <2>1. [memory EXCEPT !.tokens = Minus(@, r.tokens),
                       !.requests = IF r.request THEN Minus(@, 1) ELSE @] =
          [window |-> memory.window, requests |-> less(memory.requests),
           tokens |-> Minus(memory.tokens, r.tokens)]
    BY <1>0, MemoryReturned, Zenon
  <2> QED
    BY <1>1, <2>1
<1>7. Live \in RedisLimits
  BY <1>0, <1>3 DEF RedisLimits, NoKey, Never
<1>8. hash' = IF Live.window # r.window THEN Live
              ELSE [window |-> Live.window, requests |-> less(Live.requests),
                    tokens |-> Minus(Live.tokens, r.tokens), expires |-> Live.expires]
  <2>1. [Live EXCEPT !.tokens = Minus(@, r.tokens),
                     !.requests = IF r.request THEN Minus(@, 1) ELSE @] =
          [window |-> Live.window, requests |-> less(Live.requests),
           tokens |-> Minus(Live.tokens, r.tokens), expires |-> Live.expires]
    BY <1>7, HashReturned, Zenon
  <2> QED
    BY <1>2, <2>1
<1> HIDE DEF less
<1>9. memory' \in MemoryLimits /\ memory'.window = memory.window
  BY <1>0, <1>5, <1>6 DEF MemoryLimits
<1>10. hash' \in RedisLimits /\ hash'.window = Live.window /\ hash'.expires = Live.expires
  BY <1>5, <1>7, <1>8 DEF RedisLimits
<1>11. \/ hash'.window = -1 /\ hash.window # W
       \/ hash'.window = hash.window /\ hash'.expires = hash.expires
  BY <1>3, <1>10 DEF NoKey
<1>12. CASE r.window = W
  <2>1. config.rpm > 0 \/ config.tpm > 0 =>
          /\ memory.window = W /\ hash.window = W /\ Live = hash
          /\ memory'.window = W /\ hash'.window = W
          /\ memory'.requests = less(memory.requests) /\ hash'.requests = less(hash.requests)
          /\ memory'.tokens = Minus(memory.tokens, r.tokens)
          /\ hash'.tokens = Minus(hash.tokens, r.tokens)
    BY <1>3, <1>4, <1>6, <1>8, <1>12
  <2>2. config.rpm > 0 => RequestsIn(memory', W) = RequestsIn(hash', W)
    BY <1>4, <2>1 DEF RequestsIn
  <2>3. config.tpm > 0 => TokensIn(memory', W) = TokensIn(hash', W)
                          /\ TokensIn(memory', W) + r.tokens >= TokensIn(memory, W)
    BY <1>0, <1>4, <1>5, <2>1 DEF TokensIn, MemoryLimits
  <2> QED
    BY <1>0, <1>9, <1>10, <1>11, <1>12, <2>2, <2>3, SettleKeeps DEF r, W
<1>13. CASE r.window # W
  <2>1. RequestsIn(memory', W) = RequestsIn(memory, W) /\ TokensIn(memory', W) = TokensIn(memory, W)
    BY <1>6, <1>9, <1>13 DEF TokensIn, RequestsIn
  <2>2. RequestsIn(hash', W) = RequestsIn(hash, W) /\ TokensIn(hash', W) = TokensIn(hash, W)
    BY <1>0, <1>3, <1>8, <1>10, <1>13 DEF TokensIn, RequestsIn, NoKey
  <2>3. TokensIn(memory, W) \in Nat
    BY <1>0 DEF TokensIn, MemoryLimits
  <2>4. config.rpm > 0 => RequestsIn(memory', W) = RequestsIn(hash', W)
    BY <1>4, <2>1, <2>2
  <2>5. config.tpm > 0 => TokensIn(memory', W) = TokensIn(hash', W)
                          /\ TokensIn(memory', W) + 0 >= TokensIn(memory, W)
    BY <1>4, <2>1, <2>2, <2>3
  <2> QED
    BY <1>0, <1>9, <1>10, <1>11, <1>13, <2>4, <2>5, SettleKeeps DEF r, W
<1> QED
  BY <1>12, <1>13

(* Time passes: a window that ends leaves both with nothing.               *)
LEMMA SecondKeepsLimit ==
  ClockTypes /\ LimitInv /\ SecondPasses => LimitInv'
PROOF
<1> SUFFICES ASSUME ClockTypes, LimitInv, SecondPasses PROVE LimitInv'
  OBVIOUS
<1>1. UNCHANGED <<config, memory, hash, held, answers>> /\ now' = now + 1
  BY DEF SecondPasses
<1>2. Window \in Nat /\ Window' \in Nat /\ Window <= Window'
  BY <1>1, WindowIsNat, WindowsGrow, DivBounds DEF ClockTypes, Window
<1>3. LimitTypes' /\ (hash.window = -1 \/ Outlives(hash))'
  BY <1>1 DEF LimitInv, LimitTypes, Outlives
<1>4. CASE Window' = Window
  BY <1>1, <1>3, <1>4 DEF LimitInv, LimitsCoupled, HeldIsCounted
<1>5. CASE Window' # Window
  <2>1. Window < Window'
    BY <1>2, <1>5
  <2>2. memory'.window < Window' /\ hash'.window < Window'
    BY <1>1, <1>2, <2>1 DEF LimitInv, LimitTypes, MemoryLimits, RedisLimits
  <2>3. \A q \in DOMAIN held' : held'[q].window < Window' /\ held'[q] \in Reservations
    BY <1>1, <1>2, <2>1 DEF LimitInv, LimitTypes, Reservations, HeldIsCounted
  <2>4. memory'.window # Window' /\ hash'.window # Window'
        /\ memory'.window <= Window' /\ hash'.window <= Window'
    BY <1>2, <1>3, <2>2 DEF LimitTypes, MemoryLimits, RedisLimits
  <2>5. \A q \in DOMAIN held' : held'[q].window # Window' /\ held'[q].window <= Window'
    BY <1>2, <2>3 DEF Reservations
  <2>6. HeldTokens(held', Window') = 0
    BY <1>2, <2>3, <2>5, HeldNone
  <2>7. LimitsCoupled' /\ HeldIsCounted'
    BY <2>4, <2>5 DEF LimitsCoupled, RequestsIn, TokensIn, HeldIsCounted
  <2>8. TokensIn(memory', Window') = 0
    BY <2>4 DEF TokensIn
  <2> QED
    BY <1>1, <1>3, <2>4, <2>6, <2>7, <2>8 DEF LimitInv
<1> QED
  BY <1>4, <1>5

-----------------------------------------------------------------------------
(* Rollouts *)

Reasons == {NoReason, "tripped"}

MemoryRollouts ==
  [window : Int, requests : Int, errors : Int, latency : Int, samples : Int, realized : Int,
   baseline : Int, costs : Int, tripped : Reasons, seen : SUBSET Ids, until : Nat]

RolloutHashes ==
  [window : Int, requests : Int, errors : Int, latency : Int, samples : Int, realized : Int,
   baseline : Int, costs : Int, tripped : Reasons, expires : Nat]

RolloutKeys ==
  [hash : RolloutHashes, seen : SUBSET Ids, seenExpires : Nat, exposureWindow : Int, exposed : Int]

RolloutTypes ==
  /\ config \in [window : Nat \ {0}, hold : Nat \ {0}]
  /\ memory \in MemoryRollouts /\ hash \in RolloutKeys /\ trips \in 0 .. 2

(* What a backend has counted in window w, and whom.                       *)
Counts(s) == <<s.requests, s.errors, s.latency, s.samples, s.realized, s.baseline, s.costs>>
NoCounts == <<0, 0, 0, 0, 0, 0, 0>>
CountsIn(s, w) == IF s.window = w THEN Counts(s) ELSE NoCounts
SeenIn(seen, s, w) == IF s.window = w THEN seen ELSE {}

NotTripped == memory.until = 0 /\ memory.tripped = NoReason /\ hash.hash.tripped = NoReason

(* Keys that have counted outlive their window, both for as long.          *)
KeysLast(c) ==
  \/ c.seen = {} /\ Counts(c.hash) = NoCounts
  \/ Outlives(c.hash) /\ c.seenExpires = c.hash.expires

RolloutInv ==
  /\ RolloutTypes
  /\ memory.window <= Window /\ hash.hash.window <= Window
  /\ trips = 0 =>
       /\ NotTripped /\ KeysLast(hash)
       /\ CountsIn(memory, Window) = CountsIn(hash.hash, Window)
       /\ SeenIn(memory.seen, memory, Window) = SeenIn(hash.seen, hash.hash, Window)
       /\ answers.memory = answers.redis
  /\ trips = 1 =>
       /\ \/ NotTripped
          \/ /\ memory.tripped = "tripped" /\ hash.hash.tripped = "tripped"
             /\ memory.until = hash.hash.expires
             /\ memory.until <= now + config.hold
       /\ "tripped" \in DOMAIN answers.memory => answers.memory.tripped = answers.redis.tripped

LEMMA RotatedIs ==
  ASSUME ClockTypes, RolloutTypes
  PROVE  LET m == rotate_memory_canary
         IN /\ m \in MemoryRollouts /\ m.window = Window
            /\ Counts(m) = CountsIn(memory, Window)
            /\ m.seen = SeenIn(memory.seen, memory, Window)
            /\ m.tripped = memory.tripped /\ m.until = memory.until
PROOF
<1>1. memory \in MemoryRollouts /\ Window \in Nat
  BY WindowIsNat DEF RolloutTypes
<1>2. CASE memory.window = Window
  BY <1>1, <1>2 DEF rotate_memory_canary, CountsIn, SeenIn
<1>3. CASE memory.window # Window
  <2>1. rotate_memory_canary =
          [window |-> Window, requests |-> 0, errors |-> 0, latency |-> 0, samples |-> 0,
           realized |-> 0, baseline |-> 0, costs |-> 0, tripped |-> memory.tripped,
           seen |-> {}, until |-> memory.until]
    BY <1>3 DEF rotate_memory_canary, NewMemoryRollout
  <2>2. memory.tripped \in Reasons /\ memory.until \in Nat
    BY <1>1 DEF MemoryRollouts
  <2> QED
    BY <1>1, <1>3, <2>1, <2>2 DEF MemoryRollouts, CountsIn, Counts, NoCounts, SeenIn
<1> QED
  BY <1>2, <1>3

LEMMA NoHashIs == NoHash \in RolloutHashes /\ Counts(NoHash) = NoCounts /\ NoHash.tripped = NoReason
PROOF
  BY DEF NoHash, RolloutHashes, Reasons, Counts, NoCounts, Never

(* The keys of a rollout set at once.                                      *)
LEMMA KeysSet ==
  ASSUME NEW c \in RolloutKeys, NEW h, NEW s, NEW e
  PROVE  [c EXCEPT !.hash = h, !.seen = s, !.seenExpires = e] =
           [hash |-> h, seen |-> s, seenExpires |-> e,
            exposureWindow |-> c.exposureWindow, exposed |-> c.exposed]
PROOF
<1>0. c = [hash |-> c.hash, seen |-> c.seen, seenExpires |-> c.seenExpires,
           exposureWindow |-> c.exposureWindow, exposed |-> c.exposed]
  BY DEF RolloutKeys
<1> DEFINE a == [c EXCEPT !.hash = h]
<1>1. a = [hash |-> h, seen |-> c.seen, seenExpires |-> c.seenExpires,
           exposureWindow |-> c.exposureWindow, exposed |-> c.exposed]
  BY <1>0
<1> HIDE DEF a
<1> DEFINE b == [a EXCEPT !.seen = s]
<1>2. b = [hash |-> h, seen |-> s, seenExpires |-> c.seenExpires,
           exposureWindow |-> c.exposureWindow, exposed |-> c.exposed]
  BY <1>1
<1> HIDE DEF b
<1>3. [b EXCEPT !.seenExpires = e] =
        [hash |-> h, seen |-> s, seenExpires |-> e,
         exposureWindow |-> c.exposureWindow, exposed |-> c.exposed]
  BY <1>2
<1> QED
  BY <1>3 DEF a, b

LEMMA KeysCounted ==
  ASSUME NEW c \in RolloutKeys, NEW h, NEW s, NEW e
  PROVE  [c EXCEPT !.seen = s, !.seenExpires = e, !.hash = h] =
           [hash |-> h, seen |-> s, seenExpires |-> e,
            exposureWindow |-> c.exposureWindow, exposed |-> c.exposed]
PROOF
<1>0. c = [hash |-> c.hash, seen |-> c.seen, seenExpires |-> c.seenExpires,
           exposureWindow |-> c.exposureWindow, exposed |-> c.exposed]
  BY DEF RolloutKeys
<1> DEFINE a == [c EXCEPT !.seen = s]
<1>1. a = [hash |-> c.hash, seen |-> s, seenExpires |-> c.seenExpires,
           exposureWindow |-> c.exposureWindow, exposed |-> c.exposed]
  BY <1>0
<1> HIDE DEF a
<1> DEFINE b == [a EXCEPT !.seenExpires = e]
<1>2. b = [hash |-> c.hash, seen |-> s, seenExpires |-> e,
           exposureWindow |-> c.exposureWindow, exposed |-> c.exposed]
  BY <1>1
<1> HIDE DEF b
<1>3. [b EXCEPT !.hash = h] =
        [hash |-> h, seen |-> s, seenExpires |-> e,
         exposureWindow |-> c.exposureWindow, exposed |-> c.exposed]
  BY <1>2
<1> QED
  BY <1>3 DEF a, b

LEMMA HashSet ==
  ASSUME NEW c \in RolloutKeys, NEW h
  PROVE  [c EXCEPT !.hash = h] =
           [hash |-> h, seen |-> c.seen, seenExpires |-> c.seenExpires,
            exposureWindow |-> c.exposureWindow, exposed |-> c.exposed]
PROOF
<1>0. c = [hash |-> c.hash, seen |-> c.seen, seenExpires |-> c.seenExpires,
           exposureWindow |-> c.exposureWindow, exposed |-> c.exposed]
  BY DEF RolloutKeys
<1>1. [c EXCEPT !.hash = h] =
        [hash |-> h, seen |-> c.seen, seenExpires |-> c.seenExpires,
         exposureWindow |-> c.exposureWindow, exposed |-> c.exposed]
  BY <1>0
<1> QED
  BY <1>1

LEMMA ExpiredIs ==
  ASSUME NEW c \in RolloutKeys, NEW t \in Nat
  PROVE  LET live == Expired(c, t)
         IN /\ live \in RolloutKeys
            /\ live.hash = (IF c.hash.expires <= t THEN NoHash ELSE c.hash)
            /\ live.seen = (IF c.seenExpires <= t THEN {} ELSE c.seen)
            /\ live.seenExpires = (IF c.seenExpires <= t THEN Never ELSE c.seenExpires)
PROOF
<1> DEFINE h == IF c.hash.expires <= t THEN NoHash ELSE c.hash
           s == IF c.seenExpires <= t THEN {} ELSE c.seen
           e == IF c.seenExpires <= t THEN Never ELSE c.seenExpires
<1>1. h \in RolloutHashes /\ s \in SUBSET Ids /\ e \in Nat
  <2>1. c.hash \in RolloutHashes /\ c.seen \in SUBSET Ids /\ c.seenExpires \in Nat
    BY DEF RolloutKeys
  <2>2. Never \in Nat
    BY DEF Never
  <2> QED
    BY <2>1, <2>2, NoHashIs
<1>2. c.exposureWindow \in Int /\ c.exposed \in Int
  BY DEF RolloutKeys
<1>3. Expired(c, t) = [c EXCEPT !.hash = h, !.seen = s, !.seenExpires = e]
  BY DEF Expired
<1> HIDE DEF h, s, e
<1>4. Expired(c, t) = [hash |-> h, seen |-> s, seenExpires |-> e,
                       exposureWindow |-> c.exposureWindow, exposed |-> c.exposed]
  <2>1. [c EXCEPT !.hash = h, !.seen = s, !.seenExpires = e] =
          [hash |-> h, seen |-> s, seenExpires |-> e,
           exposureWindow |-> c.exposureWindow, exposed |-> c.exposed]
    BY KeysSet, Zenon
  <2> QED
    BY <1>3, <2>1, Zenon
<1> DEFINE live == Expired(c, t)
<1> HIDE DEF live
<1>5. live \in RolloutKeys /\ live.hash = h /\ live.seen = s /\ live.seenExpires = e
  BY <1>1, <1>2, <1>4 DEF RolloutKeys, live
<1> QED
  BY <1>5 DEF live, h, s, e

(* An outcome counted, a trip set or cleared.                              *)
CountedMemory(m, s, a, b, l, n, r, z, k) ==
  [m EXCEPT !.seen = s, !.requests = a, !.errors = b, !.latency = l, !.samples = n,
            !.realized = r, !.baseline = z, !.costs = k]
CountedHash(h, e, a, b, l, n, r, z, k) ==
  [h EXCEPT !.expires = e, !.requests = a, !.errors = b, !.latency = l, !.samples = n,
            !.realized = r, !.baseline = z, !.costs = k]

LEMMA MemoryCounted ==
  ASSUME NEW m \in MemoryRollouts, NEW s, NEW a, NEW b, NEW l, NEW n, NEW r, NEW z, NEW k
  PROVE  CountedMemory(m, s, a, b, l, n, r, z, k) =
           [window |-> m.window, requests |-> a, errors |-> b, latency |-> l, samples |-> n,
            realized |-> r, baseline |-> z, costs |-> k, tripped |-> m.tripped, seen |-> s,
            until |-> m.until]
PROOF
<1>0. m = [window |-> m.window, requests |-> m.requests, errors |-> m.errors, latency |->
           m.latency, samples |-> m.samples, realized |-> m.realized, baseline |->
           m.baseline, costs |-> m.costs, tripped |-> m.tripped, seen |-> m.seen, until |->
           m.until]
  BY DEF MemoryRollouts
<1> DEFINE t1 == [m EXCEPT !.seen = s]
<1>1. t1 = [window |-> m.window, requests |-> m.requests, errors |-> m.errors, latency |->
            m.latency, samples |-> m.samples, realized |-> m.realized, baseline |->
            m.baseline, costs |-> m.costs, tripped |-> m.tripped, seen |-> s, until |->
            m.until]
  BY <1>0
<1> HIDE DEF t1
<1> DEFINE t2 == [t1 EXCEPT !.requests = a]
<1>2. t2 = [window |-> m.window, requests |-> a, errors |-> m.errors, latency |-> m.latency,
            samples |-> m.samples, realized |-> m.realized, baseline |-> m.baseline, costs
            |-> m.costs, tripped |-> m.tripped, seen |-> s, until |-> m.until]
  BY <1>1
<1> HIDE DEF t2
<1> DEFINE t3 == [t2 EXCEPT !.errors = b]
<1>3. t3 = [window |-> m.window, requests |-> a, errors |-> b, latency |-> m.latency, samples
            |-> m.samples, realized |-> m.realized, baseline |-> m.baseline, costs |->
            m.costs, tripped |-> m.tripped, seen |-> s, until |-> m.until]
  BY <1>2
<1> HIDE DEF t3
<1> DEFINE t4 == [t3 EXCEPT !.latency = l]
<1>4. t4 = [window |-> m.window, requests |-> a, errors |-> b, latency |-> l, samples |->
            m.samples, realized |-> m.realized, baseline |-> m.baseline, costs |-> m.costs,
            tripped |-> m.tripped, seen |-> s, until |-> m.until]
  BY <1>3
<1> HIDE DEF t4
<1> DEFINE t5 == [t4 EXCEPT !.samples = n]
<1>5. t5 = [window |-> m.window, requests |-> a, errors |-> b, latency |-> l, samples |-> n,
            realized |-> m.realized, baseline |-> m.baseline, costs |-> m.costs, tripped |->
            m.tripped, seen |-> s, until |-> m.until]
  BY <1>4
<1> HIDE DEF t5
<1> DEFINE t6 == [t5 EXCEPT !.realized = r]
<1>6. t6 = [window |-> m.window, requests |-> a, errors |-> b, latency |-> l, samples |-> n,
            realized |-> r, baseline |-> m.baseline, costs |-> m.costs, tripped |->
            m.tripped, seen |-> s, until |-> m.until]
  BY <1>5
<1> HIDE DEF t6
<1> DEFINE t7 == [t6 EXCEPT !.baseline = z]
<1>7. t7 = [window |-> m.window, requests |-> a, errors |-> b, latency |-> l, samples |-> n,
            realized |-> r, baseline |-> z, costs |-> m.costs, tripped |-> m.tripped, seen
            |-> s, until |-> m.until]
  BY <1>6
<1> HIDE DEF t7
<1>8. [t7 EXCEPT !.costs = k] =
        [window |-> m.window, requests |-> a, errors |-> b, latency |-> l, samples |-> n,
         realized |-> r, baseline |-> z, costs |-> k, tripped |-> m.tripped, seen |-> s,
         until |-> m.until]
  BY <1>7
<1> QED
  BY <1>8 DEF CountedMemory, t1, t2, t3, t4, t5, t6, t7

LEMMA HashCounted ==
  ASSUME NEW h \in RolloutHashes, NEW e, NEW a, NEW b, NEW l, NEW n, NEW r, NEW z, NEW k
  PROVE  CountedHash(h, e, a, b, l, n, r, z, k) =
           [window |-> h.window, requests |-> a, errors |-> b, latency |-> l, samples |-> n,
            realized |-> r, baseline |-> z, costs |-> k, tripped |-> h.tripped, expires |-> e]
PROOF
<1>0. h = [window |-> h.window, requests |-> h.requests, errors |-> h.errors, latency |->
           h.latency, samples |-> h.samples, realized |-> h.realized, baseline |->
           h.baseline, costs |-> h.costs, tripped |-> h.tripped, expires |-> h.expires]
  BY DEF RolloutHashes
<1> DEFINE t1 == [h EXCEPT !.expires = e]
<1>1. t1 = [window |-> h.window, requests |-> h.requests, errors |-> h.errors, latency |->
            h.latency, samples |-> h.samples, realized |-> h.realized, baseline |->
            h.baseline, costs |-> h.costs, tripped |-> h.tripped, expires |-> e]
  BY <1>0
<1> HIDE DEF t1
<1> DEFINE t2 == [t1 EXCEPT !.requests = a]
<1>2. t2 = [window |-> h.window, requests |-> a, errors |-> h.errors, latency |-> h.latency,
            samples |-> h.samples, realized |-> h.realized, baseline |-> h.baseline, costs
            |-> h.costs, tripped |-> h.tripped, expires |-> e]
  BY <1>1
<1> HIDE DEF t2
<1> DEFINE t3 == [t2 EXCEPT !.errors = b]
<1>3. t3 = [window |-> h.window, requests |-> a, errors |-> b, latency |-> h.latency, samples
            |-> h.samples, realized |-> h.realized, baseline |-> h.baseline, costs |->
            h.costs, tripped |-> h.tripped, expires |-> e]
  BY <1>2
<1> HIDE DEF t3
<1> DEFINE t4 == [t3 EXCEPT !.latency = l]
<1>4. t4 = [window |-> h.window, requests |-> a, errors |-> b, latency |-> l, samples |->
            h.samples, realized |-> h.realized, baseline |-> h.baseline, costs |-> h.costs,
            tripped |-> h.tripped, expires |-> e]
  BY <1>3
<1> HIDE DEF t4
<1> DEFINE t5 == [t4 EXCEPT !.samples = n]
<1>5. t5 = [window |-> h.window, requests |-> a, errors |-> b, latency |-> l, samples |-> n,
            realized |-> h.realized, baseline |-> h.baseline, costs |-> h.costs, tripped |->
            h.tripped, expires |-> e]
  BY <1>4
<1> HIDE DEF t5
<1> DEFINE t6 == [t5 EXCEPT !.realized = r]
<1>6. t6 = [window |-> h.window, requests |-> a, errors |-> b, latency |-> l, samples |-> n,
            realized |-> r, baseline |-> h.baseline, costs |-> h.costs, tripped |->
            h.tripped, expires |-> e]
  BY <1>5
<1> HIDE DEF t6
<1> DEFINE t7 == [t6 EXCEPT !.baseline = z]
<1>7. t7 = [window |-> h.window, requests |-> a, errors |-> b, latency |-> l, samples |-> n,
            realized |-> r, baseline |-> z, costs |-> h.costs, tripped |-> h.tripped, expires
            |-> e]
  BY <1>6
<1> HIDE DEF t7
<1>8. [t7 EXCEPT !.costs = k] =
        [window |-> h.window, requests |-> a, errors |-> b, latency |-> l, samples |-> n,
         realized |-> r, baseline |-> z, costs |-> k, tripped |-> h.tripped, expires |-> e]
  BY <1>7
<1> QED
  BY <1>8 DEF CountedHash, t1, t2, t3, t4, t5, t6, t7

LEMMA MemoryTripSet ==
  ASSUME NEW m \in MemoryRollouts, NEW u, NEW x
  PROVE  [m EXCEPT !.until = u, !.tripped = x] =
           [window |-> m.window, requests |-> m.requests, errors |-> m.errors, latency |->
            m.latency, samples |-> m.samples, realized |-> m.realized, baseline |->
            m.baseline, costs |-> m.costs, tripped |-> x, seen |-> m.seen, until |-> u]
PROOF
<1>0. m = [window |-> m.window, requests |-> m.requests, errors |-> m.errors, latency |->
           m.latency, samples |-> m.samples, realized |-> m.realized, baseline |->
           m.baseline, costs |-> m.costs, tripped |-> m.tripped, seen |-> m.seen, until |->
           m.until]
  BY DEF MemoryRollouts
<1> DEFINE t1 == [m EXCEPT !.until = u]
<1>1. t1 = [window |-> m.window, requests |-> m.requests, errors |-> m.errors, latency |->
            m.latency, samples |-> m.samples, realized |-> m.realized, baseline |->
            m.baseline, costs |-> m.costs, tripped |-> m.tripped, seen |-> m.seen, until |->
            u]
  BY <1>0
<1> HIDE DEF t1
<1>2. [t1 EXCEPT !.tripped = x] =
        [window |-> m.window, requests |-> m.requests, errors |-> m.errors, latency |->
         m.latency, samples |-> m.samples, realized |-> m.realized, baseline |-> m.baseline,
         costs |-> m.costs, tripped |-> x, seen |-> m.seen, until |-> u]
  BY <1>1
<1> QED
  BY <1>2 DEF t1

LEMMA HashTripSet ==
  ASSUME NEW h \in RolloutHashes, NEW x, NEW e
  PROVE  [h EXCEPT !.tripped = x, !.expires = e] =
           [window |-> h.window, requests |-> h.requests, errors |-> h.errors, latency |->
            h.latency, samples |-> h.samples, realized |-> h.realized, baseline |->
            h.baseline, costs |-> h.costs, tripped |-> x, expires |-> e]
PROOF
<1>0. h = [window |-> h.window, requests |-> h.requests, errors |-> h.errors, latency |->
           h.latency, samples |-> h.samples, realized |-> h.realized, baseline |->
           h.baseline, costs |-> h.costs, tripped |-> h.tripped, expires |-> h.expires]
  BY DEF RolloutHashes
<1> DEFINE t1 == [h EXCEPT !.tripped = x]
<1>1. t1 = [window |-> h.window, requests |-> h.requests, errors |-> h.errors, latency |->
            h.latency, samples |-> h.samples, realized |-> h.realized, baseline |->
            h.baseline, costs |-> h.costs, tripped |-> x, expires |-> h.expires]
  BY <1>0
<1> HIDE DEF t1
<1>2. [t1 EXCEPT !.expires = e] =
        [window |-> h.window, requests |-> h.requests, errors |-> h.errors, latency |->
         h.latency, samples |-> h.samples, realized |-> h.realized, baseline |-> h.baseline,
         costs |-> h.costs, tripped |-> x, expires |-> e]
  BY <1>1
<1> QED
  BY <1>2 DEF t1

LEMMA HashRolled ==
  ASSUME NEW h \in RolloutHashes, NEW w, NEW x, NEW e
  PROVE  [h EXCEPT !.window = w, !.tripped = x, !.expires = e] =
           [window |-> w, requests |-> h.requests, errors |-> h.errors, latency |->
            h.latency, samples |-> h.samples, realized |-> h.realized, baseline |->
            h.baseline, costs |-> h.costs, tripped |-> x, expires |-> e]
PROOF
<1>0. h = [window |-> h.window, requests |-> h.requests, errors |-> h.errors, latency |->
           h.latency, samples |-> h.samples, realized |-> h.realized, baseline |->
           h.baseline, costs |-> h.costs, tripped |-> h.tripped, expires |-> h.expires]
  BY DEF RolloutHashes
<1> DEFINE t1 == [h EXCEPT !.window = w]
<1>1. t1 = [window |-> w, requests |-> h.requests, errors |-> h.errors, latency |->
            h.latency, samples |-> h.samples, realized |-> h.realized, baseline |->
            h.baseline, costs |-> h.costs, tripped |-> h.tripped, expires |-> h.expires]
  BY <1>0
<1> HIDE DEF t1
<1> DEFINE t2 == [t1 EXCEPT !.tripped = x]
<1>2. t2 = [window |-> w, requests |-> h.requests, errors |-> h.errors, latency |->
            h.latency, samples |-> h.samples, realized |-> h.realized, baseline |->
            h.baseline, costs |-> h.costs, tripped |-> x, expires |-> h.expires]
  BY <1>1
<1> HIDE DEF t2
<1>3. [t2 EXCEPT !.expires = e] =
        [window |-> w, requests |-> h.requests, errors |-> h.errors, latency |-> h.latency,
         samples |-> h.samples, realized |-> h.realized, baseline |-> h.baseline, costs |->
         h.costs, tripped |-> x, expires |-> e]
  BY <1>2
<1> QED
  BY <1>3 DEF t1, t2

(* The keys once they have expired and rolled.                             *)
LEMMA RolledIs ==
  ASSUME ClockTypes, RolloutTypes
  PROVE  LET r == Rolled(hash, config.window, now)
         IN /\ r \in RolloutKeys /\ r.hash.window = Window
            /\ r.hash.tripped = (IF hash.hash.expires <= now THEN NoReason ELSE hash.hash.tripped)
            /\ hash.hash.expires > now => r.hash.expires = hash.hash.expires
            /\ KeysLast(hash) => /\ KeysLast(r)
                                 /\ Counts(r.hash) = CountsIn(hash.hash, Window)
                                 /\ r.seen = SeenIn(hash.seen, hash.hash, Window)
PROOF
<1> DEFINE live == Expired(hash, now)
           r == Rolled(hash, config.window, now)
<1>1. now \in Nat /\ hash \in RolloutKeys /\ Window \in Nat /\ config.window \in Nat \ {0}
  BY WindowIsNat DEF ClockTypes, RolloutTypes
<1>2. /\ live \in RolloutKeys
      /\ live.hash = (IF hash.hash.expires <= now THEN NoHash ELSE hash.hash)
      /\ live.seen = (IF hash.seenExpires <= now THEN {} ELSE hash.seen)
      /\ live.seenExpires = (IF hash.seenExpires <= now THEN Never ELSE hash.seenExpires)
  BY <1>1, ExpiredIs
<1>3. hash.hash \in RolloutHashes /\ hash.hash.expires \in Nat /\ hash.seenExpires \in Nat
      /\ live.hash \in RolloutHashes
  BY <1>1, <1>2 DEF RolloutKeys, RolloutHashes
<1>4. NoHash.window = -1 /\ NoHash.tripped = NoReason /\ Counts(NoHash) = NoCounts
  BY NoHashIs DEF NoHash
<1>5. Outlives(hash.hash) /\ hash.hash.window = Window => now < hash.hash.expires
  <2> SUFFICES ASSUME Outlives(hash.hash), hash.hash.window = Window PROVE now < hash.hash.expires
    OBVIOUS
  <2>1. PICK n \in Nat : n \div config.window = Window /\ hash.hash.expires = n + 2 * config.window
    BY DEF Outlives
  <2>2. now < n + config.window
    BY <1>1, <2>1, SameWindow DEF Window
  <2> QED
    BY <1>1, <2>1, <2>2
<1>6. r = IF live.hash.window = Window THEN live
          ELSE [live EXCEPT
                  !.hash = [NoHash EXCEPT !.window = Window, !.tripped = live.hash.tripped,
                                          !.expires = live.hash.expires],
                  !.seen = {}, !.seenExpires = Never]
  BY DEF Rolled, Window
<1> HIDE DEF live, r
<1>7. CASE live.hash.window = Window
  <2>1. r = live
    BY <1>6, <1>7
  <2>2. hash.hash.expires > now /\ live.hash = hash.hash /\ hash.hash.window = Window
    BY <1>1, <1>2, <1>3, <1>4, <1>7
  <2>3. ASSUME KeysLast(hash)
        PROVE  /\ KeysLast(r) /\ Counts(r.hash) = CountsIn(hash.hash, Window)
               /\ r.seen = SeenIn(hash.seen, hash.hash, Window)
    <3>1. CASE hash.seen = {} /\ Counts(hash.hash) = NoCounts
      BY <1>2, <2>1, <2>2, <3>1 DEF KeysLast, CountsIn, SeenIn
    <3>2. CASE Outlives(hash.hash) /\ hash.seenExpires = hash.hash.expires
      <4>1. live.seen = hash.seen /\ live.seenExpires = hash.seenExpires
        BY <1>1, <1>2, <1>3, <2>2, <3>2
      <4> QED
        BY <2>1, <2>2, <3>2, <4>1 DEF KeysLast, CountsIn, SeenIn
    <3> QED
      BY <2>3, <3>1, <3>2 DEF KeysLast
  <2>4. ~(hash.hash.expires <= now)
    BY <1>1, <1>3, <2>2
  <2> QED
    BY <1>2, <2>1, <2>2, <2>3, <2>4 DEF r
<1>8. CASE live.hash.window # Window
  <2> DEFINE h == [NoHash EXCEPT !.window = Window, !.tripped = live.hash.tripped,
                                 !.expires = live.hash.expires]
  <2>1. h = [window |-> Window, requests |-> 0, errors |-> 0, latency |-> 0,
             samples |-> 0, realized |-> 0, baseline |-> 0, costs |-> 0,
             tripped |-> live.hash.tripped, expires |-> live.hash.expires]
    <3>1. h = [window |-> Window, requests |-> NoHash.requests, errors |-> NoHash.errors,
               latency |-> NoHash.latency, samples |-> NoHash.samples,
               realized |-> NoHash.realized, baseline |-> NoHash.baseline,
               costs |-> NoHash.costs, tripped |-> live.hash.tripped,
               expires |-> live.hash.expires]
      BY NoHashIs, HashRolled, Zenon
    <3> HIDE DEF h
    <3> QED
      BY <3>1 DEF NoHash
  <2>2. r = [live EXCEPT !.hash = h, !.seen = {}, !.seenExpires = Never]
    BY <1>6, <1>8
  <2> HIDE DEF h
  <2>3. [live EXCEPT !.hash = h, !.seen = {}, !.seenExpires = Never] =
          [hash |-> h, seen |-> {}, seenExpires |-> Never,
           exposureWindow |-> live.exposureWindow, exposed |-> live.exposed]
    <3>1. live \in RolloutKeys
      BY <1>2
    <3>2. \A s, e : [live EXCEPT !.hash = h, !.seen = s, !.seenExpires = e] =
                      [hash |-> h, seen |-> s, seenExpires |-> e,
                       exposureWindow |-> live.exposureWindow, exposed |-> live.exposed]
      BY <3>1, KeysSet, Zenon
    <3> QED
      BY <3>2, Zenon
  <2>4. r = [hash |-> h, seen |-> {}, seenExpires |-> Never,
             exposureWindow |-> live.exposureWindow, exposed |-> live.exposed]
    BY <2>2, <2>3, Zenon
  <2>5. h \in RolloutHashes /\ Counts(h) = NoCounts /\ h.window = Window
        /\ h.tripped = live.hash.tripped /\ h.expires = live.hash.expires
    BY <1>1, <1>3, <2>1 DEF RolloutHashes, Counts, NoCounts
  <2>6. r \in RolloutKeys /\ r.hash = h /\ r.seen = {}
    BY <1>2, <2>4, <2>5 DEF RolloutKeys, Never
  <2>7. KeysLast(r)
    BY <2>5, <2>6 DEF KeysLast
  <2>8. KeysLast(hash) => CountsIn(hash.hash, Window) = NoCounts
                          /\ SeenIn(hash.seen, hash.hash, Window) = {}
    <3>1. CASE hash.hash.window # Window
      BY <3>1 DEF CountsIn, SeenIn
    <3>2. CASE hash.hash.window = Window
      <4>1. hash.hash.expires <= now
        BY <1>2, <1>8, <3>2
      <4>2. ~Outlives(hash.hash)
        BY <1>1, <1>3, <1>5, <3>2, <4>1
      <4> QED
        BY <3>2, <4>2 DEF KeysLast, CountsIn, SeenIn
    <3> QED
      BY <3>1, <3>2
  <2>9. /\ h.tripped = (IF hash.hash.expires <= now THEN NoReason ELSE hash.hash.tripped)
        /\ hash.hash.expires > now => h.expires = hash.hash.expires
    BY <1>1, <1>2, <1>3, <1>4, <2>5
  <2> QED
    BY <2>5, <2>6, <2>7, <2>8, <2>9 DEF r
<1> QED
  BY <1>7, <1>8

LEMMA RecordKeeps ==
  ASSUME NEW o \in Outcomes
  PROVE  ClockTypes /\ RolloutInv /\ record_outcome(o) => RolloutInv'
PROOF
<1> SUFFICES ASSUME ClockTypes, RolloutInv, record_outcome(o) PROVE RolloutInv'
  OBVIOUS
<1> DEFINE m == rotate_memory_canary
           r == Rolled(hash, config.window, now)
           e == now + 2 * config.window
           bad == IF o.succeeded THEN 0 ELSE 1
           costed == o.realized >= 0 /\ o.baseline >= 0
           spent == IF costed THEN o.realized ELSE 0
           base == IF costed THEN o.baseline ELSE 0
           priced == IF costed THEN 1 ELSE 0
<1>0. RolloutTypes /\ now \in Nat /\ config.window \in Nat \ {0} /\ Window \in Nat
      /\ UNCHANGED <<config, now, answers>> /\ trips' = (IF trips = 0 THEN 0 ELSE 2)
      /\ trips \in 0 .. 2
  BY WindowIsNat DEF RolloutInv, RolloutTypes, ClockTypes, record_outcome, Call
<1>1. Window' = Window
  BY <1>0 DEF Window
<1>2. /\ m \in MemoryRollouts /\ m.window = Window
      /\ Counts(m) = CountsIn(memory, Window)
      /\ m.seen = SeenIn(memory.seen, memory, Window)
      /\ m.tripped = memory.tripped /\ m.until = memory.until
  BY <1>0, RotatedIs
<1>3. /\ r \in RolloutKeys /\ r.hash.window = Window
      /\ r.hash.tripped = (IF hash.hash.expires <= now THEN NoReason ELSE hash.hash.tripped)
      /\ KeysLast(hash) => /\ KeysLast(r)
                           /\ Counts(r.hash) = CountsIn(hash.hash, Window)
                           /\ r.seen = SeenIn(hash.seen, hash.hash, Window)
  BY <1>0, RolledIs
<1>4. o.id \in Ids /\ o.latency \in Int /\ o.realized \in Int /\ o.baseline \in Int
      /\ o.succeeded \in BOOLEAN
  BY DEF Outcomes
<1>5. bad \in Int /\ spent \in Int /\ base \in Int /\ priced \in Int /\ e \in Nat
  BY <1>0, <1>4
<1>6. memory' =
        IF o.id \in m.seen THEN m
        ELSE [m EXCEPT !.seen = @ \cup {o.id}, !.requests = @ + 1, !.errors = @ + bad,
                       !.latency = @ + o.latency, !.samples = @ + 1, !.realized = @ + spent,
                       !.baseline = @ + base, !.costs = @ + priced]
  BY DEF record_outcome, memory_record_canary
<1>7. hash' =
        IF o.id \in r.seen THEN r
        ELSE [r EXCEPT
                !.seen = @ \cup {o.id}, !.seenExpires = e,
                !.hash = [r.hash EXCEPT
                   !.expires = e, !.requests = @ + 1, !.errors = @ + bad,
                   !.latency = @ + o.latency, !.samples = @ + 1, !.realized = @ + spent,
                   !.baseline = @ + base, !.costs = @ + priced]]
  BY DEF record_outcome, record_canary
<1>8. e = now + 2 * config.window
  OBVIOUS
<1> HIDE DEF m, r, e, bad, costed, spent, base, priced
<1> DEFINE m1 == [window |-> m.window, requests |-> m.requests + 1, errors |-> m.errors + bad,
                  latency |-> m.latency + o.latency, samples |-> m.samples + 1,
                  realized |-> m.realized + spent, baseline |-> m.baseline + base,
                  costs |-> m.costs + priced, tripped |-> m.tripped,
                  seen |-> m.seen \cup {o.id}, until |-> m.until]
           h1 == [window |-> r.hash.window, requests |-> r.hash.requests + 1,
                  errors |-> r.hash.errors + bad, latency |-> r.hash.latency + o.latency,
                  samples |-> r.hash.samples + 1, realized |-> r.hash.realized + spent,
                  baseline |-> r.hash.baseline + base, costs |-> r.hash.costs + priced,
                  tripped |-> r.hash.tripped, expires |-> e]
           r1 == [hash |-> h1, seen |-> r.seen \cup {o.id}, seenExpires |-> e,
                  exposureWindow |-> r.exposureWindow, exposed |-> r.exposed]
<1>9. memory' = IF o.id \in m.seen THEN m ELSE m1
  <2>1. [m EXCEPT !.seen = @ \cup {o.id}, !.requests = @ + 1, !.errors = @ + bad,
                  !.latency = @ + o.latency, !.samples = @ + 1, !.realized = @ + spent,
                  !.baseline = @ + base, !.costs = @ + priced] = m1
    <3>1. m \in MemoryRollouts
      BY <1>2
    <3> DEFINE s1 == m.seen \cup {o.id}
               a1 == m.requests + 1
               b1 == m.errors + bad
               l1 == m.latency + o.latency
               n1 == m.samples + 1
               p1 == m.realized + spent
               z1 == m.baseline + base
               k1 == m.costs + priced
    <3> HIDE DEF s1, a1, b1, l1, n1, p1, z1, k1
    <3>2. CountedMemory(m, s1, a1, b1, l1, n1, p1, z1, k1) =
            [window |-> m.window, requests |-> a1, errors |-> b1, latency |-> l1, samples |-> n1,
             realized |-> p1, baseline |-> z1, costs |-> k1, tripped |-> m.tripped, seen |-> s1,
             until |-> m.until]
      BY <3>1, MemoryCounted
    <3> QED
      BY <3>2 DEF CountedMemory, s1, a1, b1, l1, n1, p1, z1, k1
  <2> HIDE DEF m1
  <2> QED
    BY <1>6, <2>1, Zenon
<1>10. r.hash \in RolloutHashes
  BY <1>3 DEF RolloutKeys
<1>11. hash' = IF o.id \in r.seen THEN r ELSE r1
  <2>1. [r.hash EXCEPT
           !.expires = e, !.requests = @ + 1, !.errors = @ + bad,
           !.latency = @ + o.latency, !.samples = @ + 1, !.realized = @ + spent,
           !.baseline = @ + base, !.costs = @ + priced] = h1
    <3> DEFINE a1 == r.hash.requests + 1
               b1 == r.hash.errors + bad
               l1 == r.hash.latency + o.latency
               n1 == r.hash.samples + 1
               p1 == r.hash.realized + spent
               z1 == r.hash.baseline + base
               k1 == r.hash.costs + priced
    <3> HIDE DEF a1, b1, l1, n1, p1, z1, k1
    <3>1. CountedHash(r.hash, e, a1, b1, l1, n1, p1, z1, k1) =
            [window |-> r.hash.window, requests |-> a1, errors |-> b1, latency |-> l1,
             samples |-> n1, realized |-> p1, baseline |-> z1, costs |-> k1,
             tripped |-> r.hash.tripped, expires |-> e]
      BY <1>10, HashCounted
    <3> QED
      BY <3>1 DEF CountedHash, a1, b1, l1, n1, p1, z1, k1
  <2>2. r \in RolloutKeys
    BY <1>3
  <2>3. \A h, s : [r EXCEPT !.seen = s, !.seenExpires = e, !.hash = h] =
                    [hash |-> h, seen |-> s, seenExpires |-> e,
                     exposureWindow |-> r.exposureWindow, exposed |-> r.exposed]
    BY <2>2, KeysCounted, Zenon
  <2> HIDE DEF h1
  <2>4. [r EXCEPT !.seen = r.seen \cup {o.id}, !.seenExpires = e, !.hash = h1] = r1
    BY <2>3, Zenon
  <2> DEFINE hh == [r.hash EXCEPT
                      !.expires = e, !.requests = @ + 1, !.errors = @ + bad,
                      !.latency = @ + o.latency, !.samples = @ + 1, !.realized = @ + spent,
                      !.baseline = @ + base, !.costs = @ + priced]
  <2>5. hash' = IF o.id \in r.seen THEN r
                ELSE [r EXCEPT !.seen = r.seen \cup {o.id}, !.seenExpires = e, !.hash = hh]
    BY <1>7, Zenon
  <2>6. hh = h1
    BY <2>1, Zenon
  <2> HIDE DEF hh, r1
  <2> QED
    BY <2>4, <2>5, <2>6, Zenon
<1>12. m1 \in MemoryRollouts /\ m1.window = Window /\ m1.until = m.until /\ m1.tripped = m.tripped
       /\ m1.seen = m.seen \cup {o.id}
  BY <1>2, <1>4, <1>5, <1>0 DEF MemoryRollouts
<1>13. h1 \in RolloutHashes /\ h1.window = Window /\ h1.expires = e /\ h1.tripped = r.hash.tripped
  BY <1>0, <1>3, <1>4, <1>5, <1>10 DEF RolloutHashes
<1>14. Counts(m) = Counts(r.hash) => Counts(m1) = Counts(h1)
  BY DEF Counts
<1> HIDE DEF m1, h1
<1>15. r1 \in RolloutKeys /\ r1.hash = h1 /\ r1.seen = r.seen \cup {o.id} /\ r1.seenExpires = e
  BY <1>3, <1>4, <1>5, <1>13 DEF RolloutKeys
<1> HIDE DEF r1
<1>16. Outlives(h1)
  BY <1>0, <1>8, <1>13 DEF Outlives, Window
<1>17. KeysLast(r1)
  BY <1>13, <1>15, <1>16 DEF KeysLast
<1>18. RolloutTypes' /\ memory'.window = Window /\ hash'.hash.window = Window
       /\ memory'.until = memory.until /\ memory'.tripped = memory.tripped
       /\ hash'.hash.tripped = r.hash.tripped
  <2>1. memory' \in MemoryRollouts /\ hash' \in RolloutKeys
    BY <1>2, <1>3, <1>9, <1>11, <1>12, <1>15
  <2>2. trips' \in 0 .. 2 /\ config' \in [window : Nat \ {0}, hold : Nat \ {0}]
    BY <1>0 DEF RolloutTypes
  <2>3. RolloutTypes'
    BY <2>1, <2>2 DEF RolloutTypes
  <2> QED
    BY <1>2, <1>3, <1>9, <1>11, <1>12, <1>13, <1>15, <2>3
<1>19. memory'.window <= Window /\ hash'.hash.window <= Window
  BY <1>0, <1>18
<1>20. CASE trips # 0
  <2>1. trips' = 2
    BY <1>0, <1>20
  <2> QED
    BY <1>1, <1>18, <1>19, <2>1 DEF RolloutInv
<1>21. CASE trips = 0
  <2>1. NotTripped /\ KeysLast(hash) /\ answers.memory = answers.redis
        /\ Counts(m) = Counts(r.hash) /\ m.seen = r.seen
    BY <1>2, <1>3, <1>21 DEF RolloutInv
  <2>2. NotTripped'
    BY <1>3, <1>18, <2>1 DEF NotTripped
  <2>3. KeysLast(hash')
    BY <1>3, <1>11, <1>17, <2>1
  <2>4. KeysLast(hash)'
    BY <1>0, <2>3 DEF KeysLast, Outlives
  <2>5. Counts(memory') = Counts(hash'.hash) /\ memory'.seen = hash'.seen
    BY <1>9, <1>11, <1>12, <1>14, <1>15, <2>1
  <2>6. CountsIn(memory', Window) = CountsIn(hash'.hash, Window)
        /\ SeenIn(memory'.seen, memory', Window) = SeenIn(hash'.seen, hash'.hash, Window)
    BY <1>18, <2>5 DEF CountsIn, SeenIn
  <2>7. trips' = 0 /\ answers' = answers
    BY <1>0, <1>21
  <2> QED
    BY <1>1, <1>18, <1>19, <2>1, <2>2, <2>4, <2>6, <2>7 DEF RolloutInv
<1> QED
  BY <1>20, <1>21

LEMMA ReadKeeps == ClockTypes /\ RolloutInv /\ read_rollout => RolloutInv'
PROOF
<1> SUFFICES ASSUME ClockTypes, RolloutInv, read_rollout PROVE RolloutInv'
  OBVIOUS
<1> DEFINE m == rotate_memory_canary
           r == Rolled(hash, config.window, now)
<1>0. RolloutTypes /\ now \in Nat /\ config.window \in Nat \ {0} /\ Window \in Nat
      /\ UNCHANGED <<config, now, trips>> /\ trips \in 0 .. 2
  BY WindowIsNat DEF RolloutInv, RolloutTypes, ClockTypes, read_rollout, Call
<1>1. Window' = Window
  BY <1>0 DEF Window
<1>2. /\ m \in MemoryRollouts /\ m.window = Window
      /\ Counts(m) = CountsIn(memory, Window)
      /\ m.seen = SeenIn(memory.seen, memory, Window)
      /\ m.tripped = memory.tripped /\ m.until = memory.until
  BY <1>0, RotatedIs
<1>3. /\ r \in RolloutKeys /\ r.hash.window = Window
      /\ r.hash.tripped = (IF hash.hash.expires <= now THEN NoReason ELSE hash.hash.tripped)
      /\ hash.hash.expires > now => r.hash.expires = hash.hash.expires
      /\ KeysLast(hash) => /\ KeysLast(r)
                           /\ Counts(r.hash) = CountsIn(hash.hash, Window)
                           /\ r.seen = SeenIn(hash.seen, hash.hash, Window)
  BY <1>0, RolledIs
<1>4. memory' = (IF m.until <= now THEN [m EXCEPT !.until = 0, !.tripped = NoReason] ELSE m)
      /\ hash' = r
      /\ answers' = [memory |-> Seen(memory'), redis |-> Seen(hash'.hash)]
  BY DEF read_rollout, memory_canary_snapshot, canary_snapshot
<1> HIDE DEF m, r
<1> DEFINE m0 == [m EXCEPT !.until = 0, !.tripped = NoReason]
<1>5. m0 = [window |-> m.window, requests |-> m.requests, errors |-> m.errors,
            latency |-> m.latency, samples |-> m.samples, realized |-> m.realized,
            baseline |-> m.baseline, costs |-> m.costs, tripped |-> NoReason, seen |-> m.seen,
            until |-> 0]
  <2>1. m \in MemoryRollouts
    BY <1>2
  <2> QED
    BY <2>1, MemoryTripSet, Zenon
<1>6. memory' = IF m.until <= now THEN m0 ELSE m
  BY <1>4, Zenon
<1> HIDE DEF m0
<1>7. m0 \in MemoryRollouts /\ m0.window = Window /\ Counts(m0) = Counts(m) /\ m0.seen = m.seen
      /\ m0.tripped = NoReason /\ m0.until = 0
  BY <1>0, <1>2, <1>5 DEF MemoryRollouts, Counts, Reasons
<1>8. /\ memory' \in MemoryRollouts /\ memory'.window = Window
      /\ Counts(memory') = Counts(m) /\ memory'.seen = m.seen
      /\ m.until <= now => memory'.until = 0 /\ memory'.tripped = NoReason
      /\ ~(m.until <= now) => memory'.until = m.until /\ memory'.tripped = m.tripped
  BY <1>2, <1>6, <1>7
<1>9. hash' \in RolloutKeys /\ hash'.hash.window = Window
  BY <1>3, <1>4
<1>10. RolloutTypes' /\ memory'.window <= Window /\ hash'.hash.window <= Window
  <2>1. trips' \in 0 .. 2 /\ config' \in [window : Nat \ {0}, hold : Nat \ {0}]
    BY <1>0 DEF RolloutTypes
  <2>2. RolloutTypes'
    BY <1>8, <1>9, <2>1 DEF RolloutTypes
  <2> QED
    BY <1>0, <1>8, <1>9, <2>2
<1>11. answers'.memory.tripped = memory'.tripped /\ answers'.redis.tripped = hash'.hash.tripped
       /\ answers'.memory = Seen(memory') /\ answers'.redis = Seen(hash'.hash)
  BY <1>4 DEF Seen
<1>12. m.until \in Nat /\ hash.hash.expires \in Nat
  BY <1>0, <1>2 DEF MemoryRollouts, RolloutTypes, RolloutKeys, RolloutHashes
<1>13. CASE trips = 0
  <2>1. NotTripped /\ KeysLast(hash)
        /\ Counts(m) = Counts(r.hash) /\ m.seen = r.seen
    BY <1>2, <1>3, <1>13 DEF RolloutInv
  <2>2. m.until <= now
    BY <1>0, <1>2, <2>1 DEF NotTripped
  <2>3. NotTripped'
    BY <1>3, <1>4, <1>8, <2>1, <2>2 DEF NotTripped
  <2>4. KeysLast(hash)'
    BY <1>0, <1>3, <1>4, <2>1 DEF KeysLast, Outlives
  <2>5. Counts(memory') = Counts(hash'.hash) /\ memory'.seen = hash'.seen
    BY <1>4, <1>8, <2>1
  <2>6. CountsIn(memory', Window) = CountsIn(hash'.hash, Window)
        /\ SeenIn(memory'.seen, memory', Window) = SeenIn(hash'.seen, hash'.hash, Window)
    BY <1>8, <1>9, <2>5 DEF CountsIn, SeenIn
  <2>7. answers'.memory = answers'.redis
    BY <1>11, <2>3, <2>5 DEF Seen, Counts, NotTripped
  <2>8. trips' = 0
    BY <1>0, <1>13
  <2> QED
    BY <1>1, <1>10, <2>3, <2>4, <2>6, <2>7, <2>8 DEF RolloutInv
<1>14. CASE trips = 1
  <2>1. \/ NotTripped'
        \/ /\ memory'.tripped = "tripped" /\ hash'.hash.tripped = "tripped"
           /\ memory'.until = hash'.hash.expires
           /\ memory'.until <= now + config.hold
    <3>1. CASE NotTripped
      <4>1. m.until <= now
        BY <1>0, <1>2, <3>1 DEF NotTripped
      <4> QED
        BY <1>3, <1>4, <1>8, <3>1, <4>1 DEF NotTripped
    <3>2. CASE ~NotTripped
      <4>1. memory.tripped = "tripped" /\ hash.hash.tripped = "tripped"
            /\ memory.until = hash.hash.expires /\ memory.until <= now + config.hold
        BY <1>14, <3>2 DEF RolloutInv
      <4>2. CASE m.until <= now
        BY <1>2, <1>3, <1>4, <1>8, <4>1, <4>2 DEF NotTripped
      <4>3. CASE ~(m.until <= now)
        <5>1. hash.hash.expires > now /\ ~(hash.hash.expires <= now)
          BY <1>0, <1>2, <1>12, <4>1, <4>3
        <5> QED
          BY <1>2, <1>3, <1>4, <1>8, <4>1, <4>3, <5>1
      <4> QED
        BY <4>2, <4>3
    <3> QED
      BY <3>1, <3>2
  <2>2. answers'.memory.tripped = answers'.redis.tripped
    BY <1>11, <2>1 DEF NotTripped
  <2>3. trips' = 1 /\ now' = now /\ config' = config
    BY <1>0, <1>14
  <2> QED
    BY <1>1, <1>10, <2>1, <2>2, <2>3 DEF RolloutInv
<1>15. CASE trips = 2
  BY <1>0, <1>1, <1>10, <1>15 DEF RolloutInv
<1> QED
  BY <1>0, <1>13, <1>14, <1>15

LEMMA TripKeeps == ClockTypes /\ RolloutInv /\ trip_rollout => RolloutInv'
PROOF
<1> SUFFICES ASSUME ClockTypes, RolloutInv, trip_rollout PROVE RolloutInv'
  OBVIOUS
<1> DEFINE live == Expired(hash, now)
           until == IF memory.until < now + config.hold THEN now + config.hold ELSE memory.until
<1>0. /\ RolloutTypes /\ now \in Nat /\ config.hold \in Nat \ {0} /\ Window \in Nat
      /\ UNCHANGED <<config, now, answers>> /\ trips \in 0 .. 2
      /\ trips' = (IF trips = 0 THEN 1 ELSE trips)
      /\ memory \in MemoryRollouts /\ hash \in RolloutKeys /\ memory.until \in Nat
      /\ memory.window <= Window /\ hash.hash.window <= Window
  BY WindowIsNat
  DEF RolloutInv, RolloutTypes, MemoryRollouts, ClockTypes, trip_rollout, Call
<1>1. Window' = Window
  BY <1>0 DEF Window
<1>2. /\ live \in RolloutKeys
      /\ live.hash = (IF hash.hash.expires <= now THEN NoHash ELSE hash.hash)
  BY <1>0, ExpiredIs
<1>3. memory' = [memory EXCEPT !.until = until, !.tripped = "tripped"]
  BY DEF trip_rollout, memory_trip_canary
<1>4. hash' = [live EXCEPT !.hash = [live.hash EXCEPT !.tripped = "tripped",
                                                      !.expires = now + config.hold]]
  BY DEF trip_rollout, trip_canary
<1>5. until \in Nat /\ (memory.until <= now + config.hold => until = now + config.hold)
  BY <1>0
<1> HIDE DEF live, until
<1>6. memory' = [window |-> memory.window, requests |-> memory.requests, errors |-> memory.errors,
                 latency |-> memory.latency, samples |-> memory.samples,
                 realized |-> memory.realized, baseline |-> memory.baseline,
                 costs |-> memory.costs, tripped |-> "tripped", seen |-> memory.seen,
                 until |-> until]
  <2>1. memory \in MemoryRollouts
    BY <1>0
  <2>2. [memory EXCEPT !.until = until, !.tripped = "tripped"] =
          [window |-> memory.window, requests |-> memory.requests, errors |-> memory.errors,
           latency |-> memory.latency, samples |-> memory.samples,
           realized |-> memory.realized, baseline |-> memory.baseline,
           costs |-> memory.costs, tripped |-> "tripped", seen |-> memory.seen,
           until |-> until]
    BY <2>1, MemoryTripSet, Zenon
  <2> QED
    BY <1>3, <2>2, Zenon
<1>7. memory' \in MemoryRollouts /\ memory'.window = memory.window /\ memory'.until = until
      /\ memory'.tripped = "tripped"
  BY <1>0, <1>5, <1>6 DEF MemoryRollouts, Reasons
<1> DEFINE h == [live.hash EXCEPT !.tripped = "tripped", !.expires = now + config.hold]
           x == now + config.hold
<1>8. live.hash \in RolloutHashes
  BY <1>2 DEF RolloutKeys
<1>9. h = [window |-> live.hash.window, requests |-> live.hash.requests,
           errors |-> live.hash.errors, latency |-> live.hash.latency,
           samples |-> live.hash.samples, realized |-> live.hash.realized,
           baseline |-> live.hash.baseline, costs |-> live.hash.costs,
           tripped |-> "tripped", expires |-> x]
  BY <1>8, HashTripSet, Zenon
<1>10. hash' = [live EXCEPT !.hash = h]
  BY <1>4
<1> HIDE DEF h
<1>11. h \in RolloutHashes /\ h.window = live.hash.window /\ h.tripped = "tripped"
       /\ h.expires = now + config.hold
  BY <1>0, <1>8, <1>9 DEF RolloutHashes, Reasons
<1>12. hash' = [hash |-> h, seen |-> live.seen, seenExpires |-> live.seenExpires,
                exposureWindow |-> live.exposureWindow, exposed |-> live.exposed]
  BY <1>2, <1>10, HashSet
<1>13. hash' \in RolloutKeys /\ hash'.hash = h
  BY <1>2, <1>11, <1>12 DEF RolloutKeys
<1>14. live.hash.window <= Window
  BY <1>0, <1>2 DEF NoHash
<1>15. RolloutTypes' /\ memory'.window <= Window /\ hash'.hash.window <= Window
  <2>1. trips' \in 0 .. 2 /\ config' \in [window : Nat \ {0}, hold : Nat \ {0}]
    BY <1>0 DEF RolloutTypes
  <2>2. RolloutTypes'
    BY <1>7, <1>13, <2>1 DEF RolloutTypes
  <2> QED
    BY <1>0, <1>7, <1>11, <1>13, <1>14, <2>2
<1>16. CASE trips = 2
  BY <1>0, <1>1, <1>15, <1>16 DEF RolloutInv
<1>17. CASE trips \in {0, 1}
  <2>1. memory.until <= now + config.hold
    BY <1>0, <1>17 DEF RolloutInv, NotTripped
  <2>2. memory'.tripped = "tripped" /\ hash'.hash.tripped = "tripped"
        /\ memory'.until = hash'.hash.expires /\ memory'.until <= now + config.hold
    BY <1>0, <1>5, <1>7, <1>11, <1>13, <2>1
  <2>3. "tripped" \in DOMAIN answers.memory => answers.memory.tripped = answers.redis.tripped
    BY <1>17 DEF RolloutInv
  <2>4. trips' = 1 /\ now' = now /\ config' = config /\ answers' = answers
    BY <1>0, <1>17
  <2> QED
    BY <1>1, <1>15, <2>2, <2>3, <2>4 DEF RolloutInv
<1> QED
  BY <1>0, <1>16, <1>17

LEMMA SecondKeepsRollout ==
  ClockTypes /\ RolloutInv /\ SecondPasses => RolloutInv'
PROOF
<1> SUFFICES ASSUME ClockTypes, RolloutInv, SecondPasses PROVE RolloutInv'
  OBVIOUS
<1>1. UNCHANGED <<config, memory, hash, answers, trips>> /\ now' = now + 1 /\ now \in Nat
  BY DEF SecondPasses, ClockTypes
<1>2. Window \in Nat /\ Window' \in Nat /\ Window <= Window'
  BY <1>1, WindowIsNat, WindowsGrow, DivBounds DEF ClockTypes, Window
<1>3. memory.window \in Int /\ hash.hash.window \in Int /\ memory.until \in Nat
      /\ config.hold \in Nat
  BY DEF RolloutInv, RolloutTypes, MemoryRollouts, RolloutKeys, RolloutHashes
<1>4. RolloutTypes' /\ memory'.window <= Window' /\ hash'.hash.window <= Window'
      /\ (NotTripped => NotTripped') /\ (KeysLast(hash) => KeysLast(hash)')
  BY <1>1, <1>2, <1>3 DEF RolloutInv, RolloutTypes, NotTripped, KeysLast, Outlives
<1>5. memory.until <= now + config.hold => memory'.until <= now' + config'.hold
  BY <1>1, <1>3
<1>6. CASE Window' = Window
  BY <1>1, <1>4, <1>5, <1>6 DEF RolloutInv
<1>7. CASE Window' # Window
  <2>1. memory'.window # Window' /\ hash'.hash.window # Window'
    BY <1>1, <1>2, <1>3, <1>7 DEF RolloutInv
  <2>2. CountsIn(memory', Window') = CountsIn(hash'.hash, Window')
        /\ SeenIn(memory'.seen, memory', Window') = SeenIn(hash'.seen, hash'.hash, Window')
    BY <2>1 DEF CountsIn, SeenIn
  <2> QED
    BY <1>1, <1>4, <1>5, <2>2 DEF RolloutInv
<1> QED
  BY <1>6, <1>7

-----------------------------------------------------------------------------

BackendInv ==
  /\ subject \in {"limit", "rollout"} /\ ClockTypes
  /\ subject = "limit" => LimitInv
  /\ subject = "rollout" => RolloutInv

LEMMA BackendStart == BackendInit => BackendInv
PROOF
<1> SUFFICES ASSUME BackendInit PROVE BackendInv
  OBVIOUS
<1>1. now = 0 /\ answers.memory = answers.redis /\ trips = 0 /\ DOMAIN held = {}
      /\ held = [q \in DOMAIN held |-> held[q]]
  BY DEF BackendInit
<1>2. CASE subject = "limit" /\ config \in Configs /\ memory = Counters /\ hash = NoKey
  <2>1. config \in [rpm : Nat, tpm : Nat, window : Nat \ {0}]
    BY <1>2, BackendAssumption
  <2>2. ClockTypes
    BY <1>1, <2>1 DEF ClockTypes, Never
  <2>3. Window \in Nat
    BY <2>2, WindowIsNat
  <2>4. LimitTypes
    BY <1>1, <1>2, <2>1 DEF LimitTypes, MemoryLimits, RedisLimits, Counters, NoKey, Never
  <2>5. memory.window = -1 /\ hash.window = -1
    BY <1>2 DEF Counters, NoKey
  <2>6. HeldTokens(held, Window) = 0
    BY <1>1, <2>3, HeldNone
  <2>7. TokensIn(memory, Window) = 0 /\ TokensIn(hash, Window) = 0
        /\ RequestsIn(memory, Window) = 0 /\ RequestsIn(hash, Window) = 0
    BY <2>3, <2>5 DEF TokensIn, RequestsIn
  <2>8. LimitInv
    BY <1>1, <2>3, <2>4, <2>5, <2>6, <2>7 DEF LimitInv, LimitsCoupled, HeldIsCounted
  <2> QED
    BY <1>2, <2>2, <2>8 DEF BackendInv
<1>3. CASE subject = "rollout" /\ config \in Rollouts /\ memory = NewMemoryRollout
           /\ hash = NewRollout
  <2>1. config \in [window : Nat \ {0}, hold : Nat \ {0}]
    BY <1>3, BackendAssumption
  <2>2. ClockTypes
    BY <1>1, <2>1 DEF ClockTypes, Never
  <2>3. Window = 0
    BY <1>1, <2>1 DEF Window
  <2>4. memory \in MemoryRollouts /\ Counts(memory) = NoCounts /\ memory.window = 0
        /\ memory.seen = {} /\ memory.until = 0 /\ memory.tripped = NoReason
    BY <1>3 DEF NewMemoryRollout, MemoryRollouts, Counts, NoCounts, Reasons
  <2>5. hash \in RolloutKeys /\ hash.hash = NoHash /\ hash.seen = {}
    BY <1>3, NoHashIs DEF NewRollout, RolloutKeys, Never
  <2>6. hash.hash.window = -1 /\ Counts(hash.hash) = NoCounts /\ hash.hash.tripped = NoReason
    BY <2>5, NoHashIs DEF NoHash
  <2>7. RolloutTypes
    BY <1>1, <2>1, <2>4, <2>5 DEF RolloutTypes
  <2>8. RolloutInv
    BY <1>1, <2>3, <2>4, <2>5, <2>6, <2>7
    DEF RolloutInv, NotTripped, KeysLast, CountsIn, SeenIn
  <2> QED
    BY <1>3, <2>2, <2>8 DEF BackendInv
<1> QED
  BY <1>2, <1>3 DEF BackendInit

LEMMA BackendStep == BackendInv /\ [BackendNext]_backendVars => BackendInv'
PROOF
<1> SUFFICES ASSUME BackendInv, [BackendNext]_backendVars PROVE BackendInv'
  OBVIOUS
<1>1. ClockTypes
  BY DEF BackendInv
<1>2. CASE UNCHANGED backendVars
  <2>1. Window' = Window
    BY <1>2 DEF backendVars, Window
  <2> QED
    BY <1>2, <2>1
    DEF backendVars, BackendInv, ClockTypes, LimitInv, LimitTypes, Outlives, LimitsCoupled,
        HeldIsCounted, RolloutInv, RolloutTypes, NotTripped, KeysLast
<1>3. CASE SecondPasses
  <2>1. subject' = subject /\ config' = config /\ now' = now + 1 /\ now' <= MaxNow
    BY <1>1, <1>3, BackendAssumption DEF SecondPasses, ClockTypes
  <2>2. ClockTypes'
    BY <1>1, <2>1, BackendAssumption DEF ClockTypes, Never
  <2> QED
    BY <1>1, <1>3, <2>1, <2>2, SecondKeepsLimit, SecondKeepsRollout DEF BackendInv
<1>4. ASSUME subject = "limit", subject' = subject, UNCHANGED <<config, now>>, LimitInv'
      PROVE  BackendInv'
  BY <1>1, <1>4 DEF BackendInv, ClockTypes
<1>5. ASSUME subject = "rollout", subject' = subject, UNCHANGED <<config, now>>, RolloutInv'
      PROVE  BackendInv'
  BY <1>1, <1>5 DEF BackendInv, ClockTypes
<1>6. CASE admit
  <2>1. subject = "limit" /\ subject' = subject /\ UNCHANGED <<config, now>>
    BY <1>6 DEF admit, Call
  <2> QED BY <1>1, <1>4, <1>6, <2>1, AdmitKeeps DEF BackendInv
<1>7. CASE snapshot
  <2>1. subject = "limit" /\ subject' = subject /\ UNCHANGED <<config, now>>
    BY <1>7 DEF snapshot, Call
  <2> QED BY <1>1, <1>4, <1>7, <2>1, SnapshotKeeps DEF BackendInv
<1>8. CASE read_rollout
  <2>1. subject = "rollout" /\ subject' = subject /\ UNCHANGED <<config, now>>
    BY <1>8 DEF read_rollout, Call
  <2> QED BY <1>1, <1>5, <1>8, <2>1, ReadKeeps DEF BackendInv
<1>9. CASE trip_rollout
  <2>1. subject = "rollout" /\ subject' = subject /\ UNCHANGED <<config, now>>
    BY <1>9 DEF trip_rollout, Call
  <2> QED BY <1>1, <1>5, <1>9, <2>1, TripKeeps DEF BackendInv
<1>10. ASSUME NEW q \in Ids, NEW n \in Sizes, reserve(q, n) PROVE BackendInv'
  <2>1. subject = "limit" /\ subject' = subject /\ UNCHANGED <<config, now>>
    BY <1>10 DEF reserve, Call
  <2> QED BY <1>1, <1>4, <1>10, <2>1, ReserveKeeps DEF BackendInv
<1>11. ASSUME NEW q \in Ids, NEW n \in Sizes, reserve_tokens(q, n) PROVE BackendInv'
  <2>1. subject = "limit" /\ subject' = subject /\ UNCHANGED <<config, now>>
    BY <1>11 DEF reserve_tokens, Call
  <2> QED BY <1>1, <1>4, <1>11, <2>1, ReserveTokensKeeps DEF BackendInv
<1>12. ASSUME NEW q \in Ids, NEW n \in Sizes, reconcile(q, n) PROVE BackendInv'
  <2>1. subject = "limit" /\ subject' = subject /\ UNCHANGED <<config, now>>
    BY <1>12 DEF reconcile, Call
  <2> QED BY <1>1, <1>4, <1>12, <2>1, ReconcileKeeps DEF BackendInv
<1>13. ASSUME NEW q \in Ids, rollback(q) PROVE BackendInv'
  <2>1. subject = "limit" /\ subject' = subject /\ UNCHANGED <<config, now>>
    BY <1>13 DEF rollback, Call
  <2> QED BY <1>1, <1>4, <1>13, <2>1, RollbackKeeps DEF BackendInv
<1>14. ASSUME NEW n \in Sizes, add_tokens(n) PROVE BackendInv'
  <2>1. subject = "limit" /\ subject' = subject /\ UNCHANGED <<config, now>>
    BY <1>14 DEF add_tokens, Call
  <2> QED BY <1>1, <1>4, <1>14, <2>1, AddTokensKeeps DEF BackendInv
<1>15. ASSUME NEW o \in Outcomes, record_outcome(o) PROVE BackendInv'
  <2>1. subject = "rollout" /\ subject' = subject /\ UNCHANGED <<config, now>>
    BY <1>15 DEF record_outcome, Call
  <2> QED BY <1>1, <1>5, <1>15, <2>1, RecordKeeps DEF BackendInv
<1> QED
  BY <1>2, <1>3, <1>6, <1>7, <1>8, <1>9, <1>10, <1>11, <1>12, <1>13, <1>14, <1>15 DEF BackendNext

(* Whatever the limits, the windows and the calls, a limit answers the same *)
(* on both state backends, and a rollout does until an outcome follows a   *)
(* trip (the calls of MemoryStateBackend and the Lua scripts of state.rs). *)
THEOREM BackendsAlwaysAgree == BackendSpec => []BackendsAgree
PROOF
<1>1. BackendInv => BackendsAgree
  BY DEF BackendInv, BackendsAgree, LimitInv, RolloutInv
<1> QED
  BY <1>1, BackendStart, BackendStep, PTL DEF BackendSpec
=============================================================================
