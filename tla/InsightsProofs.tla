--------------------------- MODULE InsightsProofs ---------------------------
(***************************************************************************)
(* Proofs about InsightsRequests and Streaks, for any lengths of days and  *)
(* months, any distances, points and uploads.  In zones whose clocks rest  *)
(* at New Year, what is read for a year are points of that year of local   *)
(* time, and all that were there when the request came; the answers count  *)
(* every point and every distance read, and compare years truthfully.  In  *)
(* zones that neither skip nor repeat a midnight, streaks are what they    *)
(* are said to be; the other figures agree in every zone.                  *)
(***************************************************************************)
EXTENDS InsightsRequests, Streaks, TableProofs

-----------------------------------------------------------------------------
(* Sums.  What holds for a set whenever it holds for all smaller ones      *)
(* holds for every finite set.                                             *)
LEMMA BySubsets ==
  ASSUME NEW S, IsFiniteSet(S), NEW T,
         \A A \in SUBSET S : (\A B \in SUBSET A : B # A => B \in T) => A \in T
  PROVE  S \in T
<1> DEFINE Bad == {A \in SUBSET S : A \notin T}
<1>1. SUFFICES ASSUME Bad # {} PROVE FALSE
  OBVIOUS
<1>2. FiniteSubsetsOf(S) = SUBSET S
  BY FS_FiniteSubsetsOfFinite
<1>3. IsWellFoundedOn(StrictSubsetOrdering(S), SUBSET S)
  BY <1>2, FS_StrictSubsetOrderingWellFounded
<1>4. PICK A \in Bad : \A B \in Bad : <<B, A>> \notin StrictSubsetOrdering(S)
  <2>1. Bad \subseteq SUBSET S
    OBVIOUS
  <2> HIDE DEF Bad
  <2> QED
    BY <1>1, <1>3, <2>1, WFMin
<1>5. ASSUME NEW B \in SUBSET A, B # A, B \notin T PROVE FALSE
  <2>1. B \in Bad
    BY <1>5
  <2>2. <<B, A>> \in StrictSubsetOrdering(S)
    BY <1>5 DEF StrictSubsetOrdering
  <2> QED
    BY <1>4, <2>1, <2>2
<1> QED
  BY <1>4, <1>5

Pick(s) == CHOOSE x \in s : TRUE

(* g is the function by which MapThenFoldSet adds f up over S.             *)
Adds(g, f, S) == g = [s \in SUBSET S |-> IF s = {} THEN 0 ELSE f[Pick(s)] + g[s \ {Pick(s)}]]

LEMMA SumIsLast ==
  ASSUME NEW f, NEW S
  PROVE  SumOver(f, S) = (CHOOSE g : Adds(g, f, S))[S]
BY DEF SumOver, MapThenSumSet, MapThenFoldSet, Adds, Pick

LEMMA AddsBelow ==
  ASSUME NEW f, NEW S, NEW g, Adds(g, f, S), NEW A \in SUBSET S
  PROVE  Adds([s \in SUBSET A |-> g[s]], f, A)
<1> DEFINE h == [s \in SUBSET A |-> g[s]]
<1>1. ASSUME NEW s \in SUBSET A
      PROVE  h[s] = IF s = {} THEN 0 ELSE f[Pick(s)] + h[s \ {Pick(s)}]
  <2>1. s \in SUBSET S /\ h[s] = g[s] /\ h[s \ {Pick(s)}] = g[s \ {Pick(s)}]
    OBVIOUS
  <2>2. g[s] = IF s = {} THEN 0 ELSE f[Pick(s)] + g[s \ {Pick(s)}]
    BY <2>1 DEF Adds
  <2> HIDE DEF h
  <2> QED
    BY <2>1, <2>2
<1>2. h = [s \in SUBSET A |-> h[s]]
  OBVIOUS
<1>3. [s \in SUBSET A |-> h[s]] = [s \in SUBSET A |-> IF s = {} THEN 0 ELSE f[Pick(s)] + h[s \ {Pick(s)}]]
  <2> HIDE DEF h
  <2> QED
    BY <1>1
<1> QED
  BY <1>2, <1>3 DEF Adds

LEMMA AddsOnce ==
  ASSUME NEW f, NEW S, IsFiniteSet(S)
  PROVE  /\ \E g : Adds(g, f, S)
         /\ \A g, h : Adds(g, f, S) /\ Adds(h, f, S) => g = h
<1> DEFINE Only(A) == /\ \E g : Adds(g, f, A)
                      /\ \A g, h : Adds(g, f, A) /\ Adds(h, f, A) => g = h
           T == {A \in SUBSET S : Only(A)}
           Sum(A) == (CHOOSE g : Adds(g, f, A))[A]
<1>1. ASSUME NEW A \in SUBSET S, \A B \in SUBSET A : B # A => B \in T
      PROVE  A \in T
  <2>1. \A B \in SUBSET A : B # A => Only(B)
    BY <1>1
  <2> HIDE DEF T
  (* Below A every solution gives Sum.                                     *)
  <2>2. ASSUME NEW B \in SUBSET A, B # A, NEW g, Adds(g, f, B)
        PROVE  \A C \in SUBSET B : g[C] = Sum(C)
    <3> SUFFICES ASSUME NEW C \in SUBSET B PROVE g[C] = Sum(C)
      OBVIOUS
    <3>1. Adds([s \in SUBSET C |-> g[s]], f, C)
      BY <2>2, AddsBelow
    <3>2. C \in SUBSET A /\ C # A
      BY <2>2
    <3>3. (CHOOSE h : Adds(h, f, C)) = [s \in SUBSET C |-> g[s]]
      BY <2>1, <3>1, <3>2
    <3> QED
      BY <3>3
  <2>3. ASSUME NEW B \in SUBSET A, B # A
        PROVE  Sum(B) = IF B = {} THEN 0 ELSE f[Pick(B)] + Sum(B \ {Pick(B)})
    <3>1. PICK g : Adds(g, f, B)
      BY <2>1, <2>3
    <3>2. \A C \in SUBSET B : g[C] = Sum(C)
      BY <2>2, <2>3, <3>1
    <3>3. g[B] = IF B = {} THEN 0 ELSE f[Pick(B)] + g[B \ {Pick(B)}]
      BY <3>1 DEF Adds
    <3> HIDE DEF Sum
    <3> QED
      BY <3>2, <3>3
  <2>4. \E g : Adds(g, f, A)
    <3> HIDE DEF Sum, Only
    <3> DEFINE g == [s \in SUBSET A |-> IF s = {} THEN 0 ELSE f[Pick(s)] + Sum(s \ {Pick(s)})]
    <3>1. ASSUME NEW s \in SUBSET A, s # {}
          PROVE  g[s \ {Pick(s)}] = Sum(s \ {Pick(s)})
      <4> DEFINE B == s \ {Pick(s)}
      <4>1. Pick(s) \in s
        BY <3>1 DEF Pick
      <4>2. B \in SUBSET A /\ B # A
        BY <4>1
      <4>3. g[B] = IF B = {} THEN 0 ELSE f[Pick(B)] + Sum(B \ {Pick(B)})
        BY <4>2
      <4> HIDE DEF B, g
      <4>4. g[B] = Sum(B)
        BY <2>3, <4>2, <4>3
      <4> QED
        BY <4>4 DEF B
    <3>2. g = [s \in SUBSET A |-> IF s = {} THEN 0 ELSE f[Pick(s)] + g[s \ {Pick(s)}]]
      <4> DEFINE R(s) == IF s = {} THEN 0 ELSE f[Pick(s)] + Sum(s \ {Pick(s)})
                 Q(s) == IF s = {} THEN 0 ELSE f[Pick(s)] + g[s \ {Pick(s)}]
      <4>1. \A s \in SUBSET A : R(s) = Q(s)
        <5> HIDE DEF g
        <5> QED
          BY <3>1
      <4>2. g = [s \in SUBSET A |-> R(s)]
        OBVIOUS
      <4> HIDE DEF g, R, Q
      <4>3. g = [s \in SUBSET A |-> Q(s)]
        BY <4>1, <4>2
      <4> QED
        BY <4>3 DEF Q
    <3> QED
      BY <3>2 DEF Adds
  <2>5. ASSUME NEW g, NEW h, Adds(g, f, A), Adds(h, f, A) PROVE g = h
    <3>1. ASSUME NEW B \in SUBSET A, B # A PROVE g[B] = h[B]
      <4>1. Adds([s \in SUBSET B |-> g[s]], f, B) /\ Adds([s \in SUBSET B |-> h[s]], f, B)
        BY <2>5, AddsBelow
      <4>2. [s \in SUBSET B |-> g[s]] = [s \in SUBSET B |-> h[s]]
        BY <2>1, <3>1, <4>1
      <4> QED
        BY <4>2
    <3>2. ASSUME NEW s \in SUBSET A PROVE g[s] = h[s]
      <4>1. /\ g[s] = IF s = {} THEN 0 ELSE f[Pick(s)] + g[s \ {Pick(s)}]
            /\ h[s] = IF s = {} THEN 0 ELSE f[Pick(s)] + h[s \ {Pick(s)}]
        BY <2>5 DEF Adds
      <4>2. s # {} => g[s \ {Pick(s)}] = h[s \ {Pick(s)}]
        <5>1. s # {} => Pick(s) \in s
          BY DEF Pick
        <5> QED
          BY <3>1, <5>1
      <4> QED
        BY <4>1, <4>2
    <3>3. g = [s \in SUBSET A |-> g[s]] /\ h = [s \in SUBSET A |-> h[s]]
      BY <2>5 DEF Adds
    <3> QED
      BY <3>2, <3>3
  <2> QED
    BY <2>4, <2>5 DEF T
<1>2. S \in T
  <2> HIDE DEF T
  <2> QED
    BY <1>1, BySubsets
<1> QED
  BY <1>2

(* The step of a sum.                                                      *)
LEMMA SumStep ==
  ASSUME NEW f, NEW S, IsFiniteSet(S)
  PROVE  SumOver(f, S) = IF S = {} THEN 0 ELSE f[Pick(S)] + SumOver(f, S \ {Pick(S)})
<1> DEFINE B == S \ {Pick(S)}
<1>1. PICK g : Adds(g, f, S)
  BY AddsOnce
<1>2. (CHOOSE h : Adds(h, f, S)) = g
  BY <1>1, AddsOnce
<1>3. g[S] = IF S = {} THEN 0 ELSE f[Pick(S)] + g[B]
  BY <1>1 DEF Adds
<1>4. IsFiniteSet(B)
  BY FS_Subset
<1>5. Adds([s \in SUBSET B |-> g[s]], f, B)
  BY <1>1, AddsBelow
<1>6. (CHOOSE h : Adds(h, f, B)) = [s \in SUBSET B |-> g[s]]
  <2> HIDE DEF B
  <2> QED
    BY <1>4, <1>5, AddsOnce
<1>7. SumOver(f, B) = g[B]
  <2>1. SumOver(f, B) = [s \in SUBSET B |-> g[s]][B]
    BY <1>6, SumIsLast
  <2> HIDE DEF B
  <2> QED
    BY <2>1
<1> QED
  BY <1>2, <1>3, <1>7, SumIsLast

LEMMA SumEmpty == \A f : SumOver(f, {}) = 0
BY SumStep, FS_EmptySet

LEMMA SumType ==
  ASSUME NEW f, NEW S, IsFiniteSet(S), \A x \in S : f[x] \in Nat
  PROVE  SumOver(f, S) \in Nat
<1> DEFINE T == {A \in SUBSET S : SumOver(f, A) \in Nat}
<1>1. ASSUME NEW A \in SUBSET S, \A B \in SUBSET A : B # A => B \in T
      PROVE  A \in T
  <2>1. SumOver(f, A) = IF A = {} THEN 0 ELSE f[Pick(A)] + SumOver(f, A \ {Pick(A)})
    BY FS_Subset, SumStep
  <2>2. CASE A = {}
    BY <2>1, <2>2
  <2>3. CASE A # {}
    <3>1. Pick(A) \in A
      BY <2>3 DEF Pick
    <3>2. f[Pick(A)] \in Nat /\ SumOver(f, A \ {Pick(A)}) \in Nat
      BY <1>1, <3>1
    <3> QED
      BY <2>1, <2>3, <3>2
  <2> QED
    BY <2>2, <2>3
<1>2. S \in T
  <2> HIDE DEF T
  <2> QED
    BY <1>1, BySubsets
<1> QED
  BY <1>2

(* The term to begin with may be any.                                      *)
LEMMA SumTake ==
  ASSUME NEW f, NEW S, IsFiniteSet(S), \A x \in S : f[x] \in Nat, NEW x \in S
  PROVE  SumOver(f, S) = f[x] + SumOver(f, S \ {x}) /\ SumOver(f, S \ {x}) \in Nat
<1> DEFINE TakesAny(A) == \A y \in A : SumOver(f, A) = f[y] + SumOver(f, A \ {y})
           T == {A \in SUBSET S : TakesAny(A)}
<1>0. \A A \in SUBSET S : IsFiniteSet(A) /\ SumOver(f, A) \in Nat
  BY FS_Subset, SumType
<1>1. ASSUME NEW A \in SUBSET S, \A B \in SUBSET A : B # A => B \in T
      PROVE  A \in T
  <2> SUFFICES ASSUME NEW y \in A PROVE SumOver(f, A) = f[y] + SumOver(f, A \ {y})
    OBVIOUS
  <2> DEFINE c == Pick(A)
             Y == A \ {y}
             C == A \ {c}
             D == A \ {c, y}
  <2>1. c \in A
    BY DEF Pick
  <2>2. SumOver(f, A) = f[c] + SumOver(f, C)
    BY <1>0, SumStep
  <2>3. CASE y = c
    BY <2>2, <2>3
  <2>4. CASE y # c
    <3>1. C \ {y} = D /\ Y \ {c} = D /\ c \in Y /\ y \in C /\ C # A /\ Y # A
      BY <2>1, <2>4
    <3>2. TakesAny(C) /\ TakesAny(Y)
      BY <1>1, <3>1
    <3> HIDE DEF C, D, Y
    <3>3. SumOver(f, C) = f[y] + SumOver(f, D) /\ SumOver(f, Y) = f[c] + SumOver(f, D)
      BY <3>1, <3>2
    <3>4. f[c] \in Nat /\ f[y] \in Nat /\ SumOver(f, D) \in Nat
      BY <1>0, <2>1 DEF D
    <3> HIDE DEF c
    <3>5. SumOver(f, A) = f[y] + SumOver(f, Y)
      BY <2>2, <3>3, <3>4
    <3> QED
      BY <3>5 DEF Y
  <2> QED
    BY <2>3, <2>4
<1>2. S \in T
  <2> HIDE DEF T
  <2> QED
    BY <1>1, BySubsets
<1> QED
  BY <1>0, <1>2

(* Induction one element at a time.                                        *)
LEMMA ByElements ==
  ASSUME NEW S, IsFiniteSet(S), NEW T, {} \in T,
         \A A \in SUBSET S : \A x \in S \ A : A \in T => A \cup {x} \in T
  PROVE  S \in T
<1>1. ASSUME NEW A \in SUBSET S, \A B \in SUBSET A : B # A => B \in T
      PROVE  A \in T
  <2>1. CASE A = {}
    BY <2>1
  <2>2. CASE A # {}
    <3>1. PICK x \in A : TRUE
      BY <2>2
    <3>2. A \ {x} \in T /\ (A \ {x}) \cup {x} = A
      BY <1>1
    <3> QED
      BY <3>2
  <2> QED
    BY <2>1, <2>2
<1> QED
  BY <1>1, BySubsets

LEMMA SumAdd ==
  ASSUME NEW f, NEW S, IsFiniteSet(S), NEW x, x \notin S, \A y \in S \cup {x} : f[y] \in Nat
  PROVE  SumOver(f, S \cup {x}) = f[x] + SumOver(f, S)
<1> DEFINE B == S \cup {x}
<1>1. IsFiniteSet(B) /\ x \in B /\ B \ {x} = S
  BY FS_AddElement
<1> HIDE DEF B
<1>2. SumOver(f, B) = f[x] + SumOver(f, B \ {x})
  BY <1>1, SumTake DEF B
<1> QED
  BY <1>1, <1>2 DEF B

(* Sums term by term.                                                      *)
LEMMA SumAtMost ==
  ASSUME NEW f, NEW g, NEW S, IsFiniteSet(S),
         \A x \in S : f[x] \in Nat /\ g[x] \in Nat /\ f[x] <= g[x]
  PROVE  SumOver(f, S) <= SumOver(g, S)
<1> DEFINE T == {A \in SUBSET S : SumOver(f, A) <= SumOver(g, A)}
<1>1. {} \in T
  BY SumEmpty
<1>2. ASSUME NEW A \in SUBSET S, NEW x \in S \ A, A \in T PROVE A \cup {x} \in T
  <2>1. IsFiniteSet(A)
    BY FS_Subset
  <2>2. SumOver(f, A \cup {x}) = f[x] + SumOver(f, A) /\ SumOver(g, A \cup {x}) = g[x] + SumOver(g, A)
    BY <2>1, SumAdd
  <2>3. SumOver(f, A) \in Nat /\ SumOver(g, A) \in Nat
    BY <2>1, SumType
  <2>4. f[x] \in Nat /\ g[x] \in Nat /\ f[x] <= g[x] /\ SumOver(f, A) <= SumOver(g, A)
    BY <1>2
  <2>5. SumOver(f, A \cup {x}) <= SumOver(g, A \cup {x})
    BY <2>2, <2>3, <2>4
  <2> QED
    BY <2>5
<1>3. S \in T
  <2> HIDE DEF T
  <2> QED
    BY <1>1, <1>2, ByElements
<1> QED
  BY <1>3

LEMMA SumSame ==
  ASSUME NEW f, NEW g, NEW S, IsFiniteSet(S), \A x \in S : f[x] \in Nat /\ f[x] = g[x]
  PROVE  SumOver(f, S) = SumOver(g, S)
<1>1. SumOver(f, S) <= SumOver(g, S) /\ SumOver(g, S) <= SumOver(f, S)
  BY SumAtMost
<1>2. SumOver(f, S) \in Nat /\ SumOver(g, S) \in Nat
  BY SumType
<1> QED
  BY <1>1, <1>2

LEMMA SumOfNone ==
  ASSUME NEW f, NEW S, IsFiniteSet(S), \A x \in S : f[x] = 0
  PROVE  SumOver(f, S) = 0
<1> DEFINE T == {A \in SUBSET S : SumOver(f, A) = 0}
<1>1. {} \in T
  BY SumEmpty
<1>2. ASSUME NEW A \in SUBSET S, NEW x \in S \ A, A \in T PROVE A \cup {x} \in T
  <2>1. IsFiniteSet(A)
    BY FS_Subset
  <2>2. SumOver(f, A \cup {x}) = f[x] + SumOver(f, A)
    BY <2>1, SumAdd
  <2> QED
    BY <1>2, <2>2
<1>3. S \in T
  <2> HIDE DEF T
  <2> QED
    BY <1>1, <1>2, ByElements
<1> QED
  BY <1>3

LEMMA SumOnes ==
  ASSUME NEW f, NEW S, IsFiniteSet(S), \A x \in S : f[x] = 1
  PROVE  SumOver(f, S) = Cardinality(S)
<1> DEFINE T == {A \in SUBSET S : SumOver(f, A) = Cardinality(A)}
<1>1. {} \in T
  BY SumEmpty, FS_EmptySet
<1>2. ASSUME NEW A \in SUBSET S, NEW x \in S \ A, A \in T PROVE A \cup {x} \in T
  <2>1. IsFiniteSet(A)
    BY FS_Subset
  <2>2. SumOver(f, A \cup {x}) = f[x] + SumOver(f, A)
    BY <2>1, SumAdd
  <2>3. Cardinality(A \cup {x}) = Cardinality(A) + 1 /\ Cardinality(A) \in Nat
    BY <2>1, FS_AddElement, FS_CardinalityType
  <2> QED
    BY <1>2, <2>2, <2>3
<1>3. S \in T
  <2> HIDE DEF T
  <2> QED
    BY <1>1, <1>2, ByElements
<1> QED
  BY <1>3

(* Sums of parts.                                                          *)
LEMMA SumSplit ==
  ASSUME NEW f, NEW A, NEW B, IsFiniteSet(A), IsFiniteSet(B), A \cap B = {},
         \A x \in A \cup B : f[x] \in Nat
  PROVE  SumOver(f, A \cup B) = SumOver(f, A) + SumOver(f, B)
<1> DEFINE T == {C \in SUBSET B : SumOver(f, A \cup C) = SumOver(f, A) + SumOver(f, C)}
<1>0. \A C \in SUBSET B : SumOver(f, C) \in Nat /\ IsFiniteSet(C) /\ IsFiniteSet(A \cup C)
  BY FS_Subset, FS_Union, SumType
<1>00. SumOver(f, A) \in Nat
  BY SumType
<1>1. {} \in T
  <2>1. A \cup {} = A
    OBVIOUS
  <2> QED
    BY <1>00, <2>1, SumEmpty
<1>2. ASSUME NEW C \in SUBSET B, NEW x \in B \ C, C \in T PROVE C \cup {x} \in T
  <2>1. SumOver(f, C \cup {x}) = f[x] + SumOver(f, C)
    BY <1>0, SumAdd
  <2>2. SumOver(f, (A \cup C) \cup {x}) = f[x] + SumOver(f, A \cup C)
    BY <1>0, SumAdd
  <2>3. (A \cup C) \cup {x} = A \cup (C \cup {x})
    OBVIOUS
  <2>4. f[x] \in Nat
    OBVIOUS
  <2>5. SumOver(f, A \cup C) = SumOver(f, A) + SumOver(f, C)
    BY <1>2
  <2>6. SumOver(f, A \cup (C \cup {x})) = SumOver(f, A) + SumOver(f, C \cup {x})
    BY <1>0, <1>00, <2>1, <2>2, <2>3, <2>4, <2>5
  <2> QED
    BY <2>6
<1>3. B \in T
  <2> HIDE DEF T
  <2> QED
    BY <1>1, <1>2, ByElements
<1> QED
  BY <1>3

(* What is zero need not be counted.                                       *)
LEMMA SumOfPositive ==
  ASSUME NEW f, NEW S, NEW P \in SUBSET S, IsFiniteSet(S), \A x \in S : f[x] \in Nat,
         \A x \in S \ P : f[x] = 0
  PROVE  SumOver(f, P) = SumOver(f, S)
<1>1. IsFiniteSet(P) /\ IsFiniteSet(S \ P) /\ P \cap (S \ P) = {} /\ P \cup (S \ P) = S
  BY FS_Subset
<1>2. SumOver(f, S) = SumOver(f, P) + SumOver(f, S \ P)
  BY <1>1, SumSplit
<1>3. SumOver(f, S \ P) = 0 /\ SumOver(f, P) \in Nat
  BY <1>1, SumOfNone, SumType
<1> QED
  BY <1>2, <1>3

(* Summed up by group, the sums of the groups are the sum of all.          *)
LEMMA SumGroups ==
  ASSUME NEW f, NEW C, IsFiniteSet(C), \A i \in C : f[i] \in Nat,
         NEW D, IsFiniteSet(D), NEW key \in [C -> D],
         NEW g, \A d \in D : g[d] = SumOver(f, {i \in C : key[i] = d})
  PROVE  SumOver(g, D) = SumOver(f, C)
<1> DEFINE In(E) == {i \in C : key[i] \in E}
           T == {E \in SUBSET D : SumOver(g, E) = SumOver(f, In(E))}
<1>0. \A d \in D : g[d] \in Nat
  <2> SUFFICES ASSUME NEW d \in D PROVE g[d] \in Nat
    OBVIOUS
  <2>1. IsFiniteSet({i \in C : key[i] = d})
    BY FS_Subset
  <2> QED
    BY <2>1, SumType
<1>1. {} \in T
  <2>1. In({}) = {}
    OBVIOUS
  <2> HIDE DEF In
  <2> QED
    BY <2>1, SumEmpty
<1>2. ASSUME NEW E \in SUBSET D, NEW d \in D \ E, E \in T PROVE E \cup {d} \in T
  <2> DEFINE Of == {i \in C : key[i] = d}
  <2>1. In(E \cup {d}) = In(E) \cup Of /\ In(E) \cap Of = {}
    OBVIOUS
  <2>2. IsFiniteSet(In(E)) /\ IsFiniteSet(Of) /\ IsFiniteSet(E)
    BY FS_Subset
  <2>3. \A i \in In(E) \cup Of : f[i] \in Nat
    OBVIOUS
  <2>4. g[d] = SumOver(f, Of) /\ SumOver(g, E) = SumOver(f, In(E))
    BY <1>2
  <2>5. SumOver(g, E \cup {d}) = g[d] + SumOver(g, E)
    BY <1>0, <2>2, SumAdd
  <2> DEFINE I == In(E)
  <2> HIDE DEF Of
  <2>6. SumOver(f, In(E \cup {d})) = SumOver(f, In(E)) + SumOver(f, Of)
    <3>1. IsFiniteSet(I) /\ IsFiniteSet(Of) /\ I \cap Of = {} /\ \A i \in I \cup Of : f[i] \in Nat
      BY <2>1, <2>2, <2>3
    <3> HIDE DEF I
    <3>2. SumOver(f, I \cup Of) = SumOver(f, I) + SumOver(f, Of)
      BY <3>1, SumSplit
    <3> QED
      BY <2>1, <3>2 DEF I
  <2> HIDE DEF In
  <2>7. SumOver(f, In(E)) \in Nat /\ SumOver(f, Of) \in Nat
    BY <2>2, <2>3, SumType
  <2> QED
    BY <2>4, <2>5, <2>6, <2>7
<1>3. D \in T
  <2> HIDE DEF T
  <2> QED
    BY <1>1, <1>2, ByElements
<1>4. In(D) = C
  OBVIOUS
<1> QED
  BY <1>3, <1>4

(* So are the sizes of the groups that of the whole.                       *)
LEMMA CountGroups ==
  ASSUME NEW C, IsFiniteSet(C), NEW D, IsFiniteSet(D), NEW key \in [C -> D],
         NEW g, \A d \in D : g[d] = Cardinality({i \in C : key[i] = d})
  PROVE  SumOver(g, D) = Cardinality(C)
<1> DEFINE one == [i \in C |-> 1]
<1>1. \A i \in C : one[i] = 1
  OBVIOUS
<1>2. \A i \in C : one[i] \in Nat
  OBVIOUS
<1> HIDE DEF one
<1>3. ASSUME NEW d \in D PROVE g[d] = SumOver(one, {i \in C : key[i] = d})
  <2> DEFINE P == {i \in C : key[i] = d}
  <2>1. P \in SUBSET C /\ g[d] = Cardinality(P)
    OBVIOUS
  <2> HIDE DEF P
  <2>2. IsFiniteSet(P) /\ \A i \in P : one[i] = 1
    BY <1>1, <2>1, FS_Subset
  <2>3. SumOver(one, P) = Cardinality(P)
    BY <2>2, SumOnes
  <2> QED
    BY <2>1, <2>3 DEF P
<1>4. SumOver(g, D) = SumOver(one, C)
  BY <1>2, <1>3, SumGroups
<1>5. SumOver(one, C) = Cardinality(C)
  BY <1>1, SumOnes
<1> QED
  BY <1>4, <1>5

-----------------------------------------------------------------------------
(* Days and years.                                                         *)
LEMMA YearHasDays == YearDays \in Nat \ {0}
<1>1. YearDays = SumOver(MonthDays, 1..(13 - 1))
  BY DEF YearDays, DaysBefore, SumOver, MapThenSumSet, MapThenFoldSet
<1>2. IsFiniteSet(1..12) /\ \A m \in 1..12 : MonthDays[m] \in Nat \ {0}
  <2> DEFINE n == 12
  <2>1. n \in Int
    OBVIOUS
  <2>2. IsFiniteSet(1..12)
    <3> HIDE DEF n
    <3>1. IsFiniteSet(1..n)
      BY <2>1, FS_Interval
    <3> QED
      BY <3>1 DEF n
  <2>3. \A m \in 1..12 : MonthDays[m] \in Nat \ {0}
    BY CalendarAssumption
  <2> QED
    BY <2>2, <2>3
<1>3. /\ SumOver(MonthDays, 1..12) = MonthDays[1] + SumOver(MonthDays, (1..12) \ {1})
      /\ SumOver(MonthDays, (1..12) \ {1}) \in Nat
  <2>1. 1 \in 1..12
    OBVIOUS
  <2> QED
    BY <1>2, <2>1, SumTake
<1>4. MonthDays[1] \in Nat \ {0}
  BY <1>2
<1>5. 13 - 1 = 12
  OBVIOUS
<1> QED
  BY <1>1, <1>3, <1>4, <1>5

LEMMA YearAtLeast ==
  ASSUME NEW day \in Int, NEW y \in Int
  PROVE  Year(day) \in Int /\ FirstDay(y) \in Int /\ (Year(day) >= y <=> day >= FirstDay(y))
<1>1. YearDays \in Nat \ {0}
  BY YearHasDays
<1>2. day \div YearDays \in Int
  BY <1>1, Quotient
<1>3. day \div YearDays >= y <=> day >= y * YearDays
  BY <1>1, QuotientAtLeast
<1>4. y * YearDays \in Int
  BY <1>1
<1> QED
  BY <1>2, <1>3, <1>4 DEF Year, FirstDay

-----------------------------------------------------------------------------
(* Zones.                                                                  *)
LEMMA OffsetBounded ==
  ASSUME NEW zone \in Locations, NEW t \in Int
  PROVE  OffsetAt(t, zone) \in (-DaySecs + 1)..(DaySecs - 1)
<1> DEFINE S == {1} \cup {i \in DOMAIN zone : i > 1 /\ zone[i].from <= t}
<1>1. zone \in Seq([from : Int, offset : Int]) /\ QuietNewYears(zone)
  BY RequestsAssumption
<1>2. Len(zone) \in Nat /\ DOMAIN zone = 1..Len(zone) /\ 1 \in DOMAIN zone
  BY <1>1 DEF QuietNewYears
<1>3. S \in SUBSET (1..Len(zone)) /\ S # {}
  BY <1>2
<1>4. Period(t, zone) = CHOOSE x \in S : \A y \in S : x >= y
  BY DEF Period, Max
<1>5. Period(t, zone) \in S
  <2> HIDE DEF S
  <2>1. \E x \in S : \A y \in S : x >= y
    BY <1>2, <1>3, LargestExists
  <2> QED
    BY <1>4, <2>1
<1>6. Period(t, zone) \in DOMAIN zone
  <2> HIDE DEF S
  <2> QED
    BY <1>2, <1>3, <1>5
<1> QED
  BY <1>1, <1>6 DEF OffsetAt, QuietNewYears

(* Within a day of New Year, reckoned as UTC, the offset is one.           *)
LEMMA OneOffset ==
  ASSUME NEW zone \in Locations, NEW y \in Int, NEW m, m = FirstDay(y) * DaySecs,
         NEW t \in (m - DaySecs)..(m + DaySecs - 1), NEW u \in (m - DaySecs)..(m + DaySecs - 1)
  PROVE  OffsetAt(t, zone) = OffsetAt(u, zone)
<1> DEFINE F == FirstDay(y)
<1>1. DaySecs \in Nat \ {0} /\ F \in Int /\ m \in Int
  <2>1. DaySecs \in Nat \ {0}
    BY CalendarAssumption
  <2>2. F \in Int
    BY YearAtLeast
  <2> HIDE DEF F
  <2> QED
    BY <2>1, <2>2 DEF F
<1>2. ASSUME NEW i \in DOMAIN zone, i > 1,
             zone[i].from >= m - DaySecs, zone[i].from < m + DaySecs
      PROVE  FALSE
  <2> DEFINE from == zone[i].from
             day == from \div DaySecs
  <2>1. from \in Int /\ Year(day - 1) = Year(day + 1)
    BY <1>2, RequestsAssumption DEF QuietNewYears
  <2>2. day \in Int
    BY <1>1, <2>1, Quotient
  <2>3. (F - 1) * DaySecs = m - DaySecs /\ (F + 1) * DaySecs = m + DaySecs
    <3> HIDE DEF F
    <3> QED
      BY <1>1 DEF F
  <2>4. day >= F - 1 <=> from >= (F - 1) * DaySecs
    <3> HIDE DEF from, F
    <3>1. F - 1 \in Int
      BY <1>1 DEF F
    <3> QED
      BY <1>1, <2>1, <3>1, QuotientAtLeast
  <2>5. day >= F + 1 <=> from >= (F + 1) * DaySecs
    <3> HIDE DEF from, F
    <3>1. F + 1 \in Int
      BY <1>1 DEF F
    <3> QED
      BY <1>1, <2>1, <3>1, QuotientAtLeast
  <2>6. day = F - 1 \/ day = F
    <3> HIDE DEF day, F
    <3> QED
      BY <1>1, <1>2, <2>1, <2>2, <2>3, <2>4, <2>5
  <2>7. Year(day + 1) >= y
    <3> HIDE DEF day
    <3>1. Year(day + 1) >= y <=> day + 1 >= F
      BY <2>2, YearAtLeast
    <3> HIDE DEF F
    <3> QED
      BY <1>1, <2>2, <2>6, <3>1
  <2>8. ~(Year(day - 1) >= y)
    <3> HIDE DEF day
    <3>1. Year(day - 1) >= y <=> day - 1 >= F
      BY <2>2, YearAtLeast
    <3> HIDE DEF F
    <3> QED
      BY <1>1, <2>2, <2>6, <3>1
  <2> QED
    BY <2>1, <2>7, <2>8
<1>3. ASSUME NEW i \in DOMAIN zone, i > 1
      PROVE  zone[i].from <= t <=> zone[i].from <= u
  <2>1. zone[i].from \in Int
    BY <1>3, RequestsAssumption DEF QuietNewYears
  <2> QED
    BY <1>1, <1>2, <1>3, <2>1
<1>4. {i \in DOMAIN zone : i > 1 /\ zone[i].from <= t}
        = {i \in DOMAIN zone : i > 1 /\ zone[i].from <= u}
  BY <1>3
<1>5. Period(t, zone) = Period(u, zone)
  BY <1>4 DEF Period
<1> QED
  BY <1>5 DEF OffsetAt

(* So the year begins where the local clock shows it.                      *)
LEMMA AfterNewYear ==
  ASSUME NEW zone \in Locations, NEW y \in Int, NEW t \in Int
  PROVE  /\ Midnight(FirstDay(y), zone) \in Int
         /\ Midnight(FirstDay(y), zone) <= t <=> Year(Day(t, zone)) >= y
         /\ Year(Day(t, zone)) \in Int
<1> DEFINE m == FirstDay(y) * DaySecs
           o == OffsetAt(m, zone)
<1>1. DaySecs \in Nat \ {0} /\ FirstDay(y) \in Int
  BY CalendarAssumption, YearAtLeast
<1>2. m \in Int
  BY <1>1
<1>3. o \in (-DaySecs + 1)..(DaySecs - 1)
  BY <1>2, OffsetBounded
<1>4. \A u \in (m - DaySecs)..(m + DaySecs - 1) : OffsetAt(u, zone) = o
  <2>1. m \in (m - DaySecs)..(m + DaySecs - 1)
    <3> HIDE DEF m
    <3> QED
      BY <1>1, <1>2
  <2> QED
    BY <2>1, OneOffset
<1>5. Midnight(FirstDay(y), zone) = m - o
  <2>1. Midnight(FirstDay(y), zone) =
          IF o = 0 \/ Period(m - o, zone) = Period(m, zone) THEN m - o ELSE m - OffsetAt(m - o, zone)
    BY DEF Midnight, Date
  <2>2. m - o \in (m - DaySecs)..(m + DaySecs - 1)
    <3> HIDE DEF m, o
    <3> QED
      BY <1>1, <1>2, <1>3
  <2>3. OffsetAt(m - o, zone) = o
    BY <1>4, <2>2
  <2> QED
    BY <2>1, <2>3
<1>6. OffsetAt(t, zone) \in (-DaySecs + 1)..(DaySecs - 1)
  BY OffsetBounded
<1>7. m - o <= t <=> Local(t, zone) >= m
  <2> DEFINE p == OffsetAt(t, zone)
  <2>1. t \in (m - DaySecs)..(m + DaySecs - 1) => p = o
    BY <1>4
  <2>2. Local(t, zone) = t + p
    BY DEF Local
  <2> HIDE DEF m, o, p
  <2>3. p \in (-DaySecs + 1)..(DaySecs - 1)
    BY <1>6 DEF p
  <2>4. CASE t \in (m - DaySecs)..(m + DaySecs - 1)
    BY <1>1, <1>2, <1>3, <2>1, <2>2, <2>3, <2>4
  <2>5. CASE t < m - DaySecs
    BY <1>1, <1>2, <1>3, <2>2, <2>3, <2>5
  <2>6. CASE t > m + DaySecs - 1
    BY <1>1, <1>2, <1>3, <2>2, <2>3, <2>6
  <2> QED
    BY <1>1, <1>2, <2>4, <2>5, <2>6
<1>8. Local(t, zone) \in Int
  BY <1>1, <1>6 DEF Local
<1>9. Day(t, zone) \in Int /\ (Day(t, zone) >= FirstDay(y) <=> Local(t, zone) >= m)
  BY <1>1, <1>8, Quotient, QuotientAtLeast DEF Day
<1>10. Year(Day(t, zone)) >= y <=> Day(t, zone) >= FirstDay(y)
  BY <1>9, YearAtLeast
<1>11. m - o \in Int
  <2> HIDE DEF m, o
  <2> QED
    BY <1>1, <1>2, <1>3
<1> QED
  BY <1>5, <1>7, <1>9, <1>10, <1>11, YearAtLeast

(* The bounds of a year hold the seconds whose local year it is.           *)
LEMMA BoundsAreTheYear ==
  ASSUME NEW zone \in Locations, NEW y \in Int, NEW t \in Int
  PROVE  YearBounds(y, zone).start <= t /\ t <= YearBounds(y, zone).end <=> Year(Day(t, zone)) = y
<1> DEFINE start == Midnight(FirstDay(y), zone)
           next == Midnight(FirstDay(y + 1), zone)
           is == Year(Day(t, zone))
<1>1. start \in Int /\ next \in Int /\ is \in Int
  BY AfterNewYear
<1>2. (start <= t <=> is >= y) /\ (next <= t <=> is >= y + 1)
  BY AfterNewYear
<1>3. YearBounds(y, zone).start = start /\ YearBounds(y, zone).end = next - 1
  BY DEF YearBounds
<1> HIDE DEF start, next, is
<1>4. start <= t /\ t <= next - 1 <=> is = y
  BY <1>1, <1>2
<1> QED
  BY <1>3, <1>4 DEF is

-----------------------------------------------------------------------------
(* Queries.                                                                *)
LEMMA ImageFinite ==
  ASSUME NEW f, IsFiniteSet(DOMAIN f)
  PROVE  IsFiniteSet({f[x] : x \in DOMAIN f})
<1> DEFINE T == {f[x] : x \in DOMAIN f}
           g == [x \in DOMAIN f |-> f[x]]
<1>1. g \in Surjection(DOMAIN f, T)
  BY DEF Surjection
<1> QED
  BY <1>1, FS_Surjection

(* A sequence made of a finite set has all of it.                          *)
LEMMA SeqOfSet ==
  ASSUME NEW S, IsFiniteSet(S), NEW s \in SetToSeqs(S)
  PROVE  s \in Seq(S) /\ ToSet(s) = S /\ Len(s) = Cardinality(S)
<1> DEFINE n == Cardinality(S)
<1>1. n \in Nat
  BY FS_CardinalityType
<1>2. s \in [1..n -> S] /\ \A i, j \in 1..n : i # j => s[i] # s[j]
  BY DEF SetToSeqs
<1>3. s \in Injection(1..n, S)
  BY <1>2 DEF Injection, IsInjective
<1>4. Cardinality(1..n) = n
  BY <1>1, FS_Interval
<1>5. s \in Surjection(1..n, S)
  BY <1>3, <1>4, FS_Injection
<1>6. ToSet(s) = S
  BY <1>2, <1>5 DEF ToSet, Surjection
<1>7. s \in Seq(S) /\ Len(s) = n
  BY <1>1, <1>2
<1> QED
  BY <1>6, <1>7

LEMMA CoordsOfYear ==
  ASSUME loc \in Locations, NEW y \in Int, NEW s \in CoordsBetween(YearBounds(y, loc))
  PROVE  /\ s \in Seq(Coords(Keys))
         /\ ToSet(s) = Coords(OfYear(Stored, y))
         /\ Len(s) = Cardinality(ToSet(s))
<1> DEFINE K == {k \in Stored : YearBounds(y, loc).start <= Ts[k] /\ Ts[k] <= YearBounds(y, loc).end}
           found == {Coord(k) : k \in K}
<1>1. K = OfYear(Stored, y)
  <2>1. \A k \in Stored : Ts[k] \in Int
    BY RequestsAssumption DEF Stored
  <2> QED
    BY <2>1, BoundsAreTheYear DEF OfYear
<1>2. IsFiniteSet(K)
  BY RequestsAssumption, FS_Subset DEF Stored
<1>3. IsFiniteSet(found)
  <2> DEFINE f == [k \in K |-> Coord(k)]
  <2>1. DOMAIN f = K /\ {f[k] : k \in DOMAIN f} = found
    OBVIOUS
  <2> HIDE DEF f, found, K
  <2> QED
    BY <1>2, <2>1, ImageFinite
<1>4. s \in SetToSeqs(found)
  BY DEF CoordsBetween
<1>5. ToSet(s) = found /\ s \in Seq(found) /\ Len(s) = Cardinality(found)
  <2> HIDE DEF found
  <2> QED
    BY <1>3, <1>4, SeqOfSet
<1>6. s \in Seq(Coords(Keys))
  <2>1. found \subseteq Coords(Keys)
    BY DEF Coords, Stored
  <2> HIDE DEF found
  <2> QED
    BY <1>5, <2>1
<1>7. found = Coords(OfYear(Stored, y))
  BY <1>1 DEF Coords
<1> HIDE DEF found
<1> QED
  BY <1>5, <1>6, <1>7

-----------------------------------------------------------------------------
(* The inductive invariant.                                                *)
YearsType ==
  /\ rows \in [Keys -> Entry \cup {NoRow}]
  /\ clock \in Nat \ {0}
  /\ loc \in Locations
  /\ url \in Query
  /\ years \in Seq(Int)
  /\ year \in Int
  /\ IsFiniteSet(DOMAIN coords) /\ DOMAIN coords \subseteq Int

(* Nothing is read before the request comes; what was stored then still is.*)
Growing ==
  /\ pc = "idle" => DOMAIN coords = {}
  /\ before \subseteq Stored

YearsInv == YearsType /\ Growing /\ ReadsWholeYears

(* Reading one more year.                                                  *)
LEMMA ReadOne ==
  ASSUME YearsInv, pc # "idle", pc' # "idle", UNCHANGED <<rows, clock, loc, url, before, years, year>>,
         NEW y \in Int, NEW s \in CoordsBetween(YearBounds(y, loc)), coords' = WithCoords(y, s)
  PROVE  YearsInv'
<1>1. /\ DOMAIN coords' = DOMAIN coords \cup {y}
      /\ \A x \in DOMAIN coords' : coords'[x] = IF x = y THEN s ELSE coords[x]
  BY DEF WithCoords
<1>2. YearsType'
  <2>1. IsFiniteSet(DOMAIN coords')
    <3>1. IsFiniteSet(DOMAIN coords)
      BY DEF YearsInv, YearsType
    <3>2. IsFiniteSet(DOMAIN coords \cup {y})
      BY <3>1, FS_AddElement
    <3> QED
      BY <1>1, <3>2
  <2> QED
    BY <1>1, <2>1 DEF YearsInv, YearsType
<1>3. Stored' = Stored /\ \A x \in Int : OfYear(Stored, x)' = OfYear(Stored, x)
                                     /\ OfYear(before, x)' = OfYear(before, x)
  BY DEF Stored, OfYear
<1>4. Growing'
  BY <1>3 DEF YearsInv, Growing
<1>5. ASSUME NEW x \in DOMAIN coords'
      PROVE  /\ Coords(OfYear(before, x)) \subseteq ToSet(coords'[x])
             /\ ToSet(coords'[x]) \subseteq Coords(OfYear(Stored, x))
  <2>1. CASE x = y
    <3>1. ToSet(coords'[x]) = Coords(OfYear(Stored, y))
      BY <1>1, <2>1, CoordsOfYear DEF YearsInv, YearsType
    <3>2. OfYear(before, y) \subseteq OfYear(Stored, y)
      BY DEF YearsInv, Growing, OfYear
    <3>3. Coords(OfYear(before, y)) \subseteq Coords(OfYear(Stored, y))
      BY <3>2 DEF Coords
    <3> QED
      BY <2>1, <3>1, <3>3
  <2>2. CASE x # y
    BY <1>1, <2>2 DEF YearsInv, ReadsWholeYears
  <2> QED
    BY <2>1, <2>2
<1>6. ReadsWholeYears'
  <2>1. \A x \in DOMAIN coords' : Coords(OfYear(before, x))' = Coords(OfYear(before, x))
                               /\ Coords(OfYear(Stored, x))' = Coords(OfYear(Stored, x))
    BY DEF Coords, OfYear, Stored
  <2> QED
    BY <1>5, <2>1 DEF ReadsWholeYears
<1> QED
  BY <1>2, <1>4, <1>6 DEF YearsInv

(* Reading nothing.                                                        *)
LEMMA ReadNone ==
  ASSUME YearsInv, UNCHANGED <<rows, clock, loc, url, before, coords>>,
         pc' = "idle" => pc = "idle", years' \in Seq(Int), year' \in Int
  PROVE  YearsInv'
<1>1. YearsType' /\ Growing'
  BY DEF YearsInv, YearsType, Growing, Stored
<1>2. ReadsWholeYears'
  BY DEF YearsInv, ReadsWholeYears, Coords, OfYear, Stored
<1> QED
  BY <1>1, <1>2 DEF YearsInv

LEMMA InitYearsInv == Init => YearsInv
<1> SUFFICES ASSUME Init PROVE YearsInv
  OBVIOUS
<1>1. /\ rows = [k \in Keys |-> NoRow] /\ clock = 1 /\ loc \in Locations /\ url \in Query
      /\ before = {} /\ years = <<>> /\ year = 0 /\ coords = <<>>
  BY RequestsAssumption DEF Init, TableInit
<1>2. DOMAIN coords = {}
  BY <1>1
<1>3. YearsType
  BY <1>1, <1>2, FS_EmptySet DEF YearsType
<1> QED
  BY <1>1, <1>2, <1>3 DEF YearsInv, Growing, ReadsWholeYears

LEMMA ReceiveYearsInv == YearsInv /\ Receive => YearsInv'
<1> SUFFICES ASSUME YearsInv, Receive PROVE YearsInv'
  OBVIOUS
<1>1. /\ pc = "idle" /\ pc' = "years" /\ before' = Stored
      /\ UNCHANGED <<rows, clock, loc, url, years, unit, year, coords, answer>>
  BY DEF Receive
<1>2. DOMAIN coords' = {}
  BY <1>1 DEF YearsInv, Growing
<1> QED
  BY <1>1, <1>2 DEF YearsInv, YearsType, Growing, Stored, ReadsWholeYears

LEMMA YearsAreNumbers ==
  ASSUME YearsType, NEW s \in YearsWithPoints
  PROVE  s \in Seq(Int)
<1> DEFINE Y == DOMAIN TrackedMonths
           YearOf(k) == Year(Day(Ts[k], loc))
<1>1. Y = {YearOf(k) : k \in Stored}
  BY DEF TrackedMonths
<1>2. \A k \in Stored : YearOf(k) \in Int
  <2>1. \A k \in Stored : Ts[k] \in Int
    BY RequestsAssumption DEF Stored
  <2> QED
    BY <2>1, AfterNewYear DEF YearsType
<1>3. IsFiniteSet(Y)
  <2> DEFINE f == [k \in Stored |-> YearOf(k)]
  <2>1. IsFiniteSet(Stored)
    BY RequestsAssumption, FS_Subset DEF Stored
  <2>2. DOMAIN f = Stored /\ {f[k] : k \in DOMAIN f} = Y
    BY <1>1
  <2> HIDE DEF f, Y
  <2> QED
    BY <2>1, <2>2, ImageFinite
<1>4. s \in SetToSeqs(Y)
  BY DEF YearsWithPoints
<1>5. s \in Seq(Y)
  <2> HIDE DEF Y
  <2> QED
    BY <1>3, <1>4, SeqOfSet
<1> QED
  BY <1>1, <1>2, <1>5

LEMMA TableYearsInv == YearsInv /\ TableNext /\ UNCHANGED readVars => YearsInv'
<1> SUFFICES ASSUME YearsInv, TableNext, UNCHANGED readVars PROVE YearsInv'
  OBVIOUS
<1>1. /\ rows' \in [Keys -> Entry \cup {NoRow}] /\ clock' \in Nat \ {0}
      /\ \A k \in Keys : rows[k] # NoRow => rows'[k] # NoRow
  BY TableGrows DEF YearsInv, YearsType
<1>2. UNCHANGED <<loc, url, pc, before, years, unit, year, coords, answer>>
  BY DEF readVars
<1>3. Stored \subseteq Stored'
  BY <1>1 DEF Stored
<1>4. YearsType' /\ Growing'
  BY <1>1, <1>2, <1>3 DEF YearsInv, YearsType, Growing
<1>5. ASSUME NEW y \in DOMAIN coords
      PROVE  /\ Coords(OfYear(before, y))' = Coords(OfYear(before, y))
             /\ Coords(OfYear(Stored, y)) \subseteq Coords(OfYear(Stored, y))'
  BY <1>2, <1>3 DEF Coords, OfYear, Coord
<1>6. ReadsWholeYears'
  BY <1>2, <1>5 DEF YearsInv, ReadsWholeYears
<1> QED
  BY <1>4, <1>6 DEF YearsInv

LEMMA NextYearsInv == YearsInv /\ [Next]_allVars => YearsInv'
<1> SUFFICES ASSUME YearsInv, [Next]_allVars PROVE YearsInv'
  OBVIOUS
<1>0. years \in Seq(Int) /\ year \in Int /\ YearsType
  BY DEF YearsInv, YearsType
<1>1. CASE Receive
  BY <1>1, ReceiveYearsInv
<1>2. CASE ReadYears
  <2>1. years' \in Seq(Int)
    BY <1>0, <1>2, YearsAreNumbers DEF ReadYears
  <2> QED
    BY <1>0, <1>2, <2>1, ReadNone DEF ReadYears
<1>3. CASE PickScope
  <2>1. url.year \in Int
    BY DEF YearsInv, YearsType, Query
  <2>2. years # <<>> => Head(years) \in Int
    BY <1>0
  <2>3. Year(Day(Now, loc)) \in Int
    <3>1. Now \in Int
      BY RequestsAssumption DEF Now, YearsInv, YearsType
    <3> QED
      BY <3>1, AfterNewYear DEF YearsInv, YearsType
  <2>4. year' \in Int
    BY <1>3, <2>1, <2>2, <2>3 DEF PickScope
  <2> QED
    BY <1>0, <1>3, <2>4, ReadNone DEF PickScope
<1>4. CASE ReadYear
  BY <1>0, <1>4, ReadOne DEF ReadYear
<1>5. CASE ReadPreviousYear
  <2>1. year - 1 \in Int
    BY <1>0
  <2> QED
    BY <1>0, <1>5, <2>1, ReadOne DEF ReadPreviousYear
<1>6. CASE ReadCoords
  <2> DEFINE n == Cardinality(DOMAIN coords) + 1
  <2>1. n \in 1..Len(years)
    <3>1. Cardinality(DOMAIN coords) \in Nat
      BY FS_CardinalityType DEF YearsInv, YearsType
    <3>2. Cardinality(DOMAIN coords) < Len(years) /\ Len(years) \in Nat
      BY <1>0, <1>6 DEF ReadCoords
    <3> QED
      BY <3>1, <3>2
  <2>2. years[n] \in Int
    <3> HIDE DEF n
    <3> QED
      BY <1>0, <2>1
  <2>3. PICK s \in CoordsBetween(YearBounds(years[n], loc)) : coords' = WithCoords(years[n], s)
    BY <1>6 DEF ReadCoords
  <2>4. pc = "coords" /\ UNCHANGED <<rows, clock, loc, url, pc, before, years, year>>
    BY <1>6 DEF ReadCoords
  <2> HIDE DEF n
  <2> QED
    BY <2>2, <2>3, <2>4, ReadOne
<1>7. CASE AnswerTracked \/ AnswerStats \/ AnswerInsights \/ Fail
  BY <1>0, <1>7, ReadNone DEF AnswerTracked, AnswerStats, AnswerInsights, Fail
<1>8. CASE TableNext /\ UNCHANGED readVars
  BY <1>8, TableYearsInv
<1>9. CASE UNCHANGED allVars
  BY <1>0, <1>9, ReadNone DEF allVars
<1> QED
  BY <1>1, <1>2, <1>3, <1>4, <1>5, <1>6, <1>7, <1>8, <1>9 DEF Next, Read

(* What is read for a year is all that was stored of it when the request   *)
(* came, and points of that year of local time only: for any points, any   *)
(* uploads between the statements, and any zone whose clocks rest at New   *)
(* Year (YearBounds, CoordsBetween, insightsScope, stats).                 *)
THEOREM YearsAreReadWhole == Spec => []ReadsWholeYears
<1>1. YearsInv => ReadsWholeYears
  BY DEF YearsInv
<1> QED
  BY InitYearsInv, NextYearsInv, <1>1, PTL DEF Spec

-----------------------------------------------------------------------------
(* Distances.                                                              *)
LEMMA RoundDivNat ==
  ASSUME NEW a \in Nat, NEW b \in Nat \ {0}
  PROVE  RoundDiv(a, b) \in Nat
<1> DEFINE c == 2 * a + b
           d == 2 * b
<1>1. c \in Nat /\ d \in Nat \ {0}
  OBVIOUS
<1> HIDE DEF c, d
<1>2. c \div d \in Nat
  BY <1>1
<1> QED
  BY <1>2 DEF RoundDiv, c, d

LEMMA FunctionImageFinite ==
  ASSUME NEW S, IsFiniteSet(S), NEW f
  PROVE  IsFiniteSet({f[x] : x \in S})
<1> DEFINE g == [x \in S |-> f[x]]
<1>1. DOMAIN g = S /\ {g[x] : x \in DOMAIN g} = {f[x] : x \in S}
  OBVIOUS
<1> HIDE DEF g
<1> QED
  BY <1>1, ImageFinite

(* The meters of the days are the meters of all counted distances.         *)
LEMMA DaysAddUp ==
  ASSUME loc \in Locations, NEW s \in Seq(Coords(Keys))
  PROVE  LET perDay == DistancesByDay(s, loc)
             all == SumOver(Meters(s), Counted(s))
         IN  /\ IsFiniteSet(DOMAIN perDay) /\ \A day \in DOMAIN perDay : perDay[day] \in Nat
             /\ all \in Nat /\ SumOver(perDay, DOMAIN perDay) = all
             /\ \A day \in DOMAIN perDay : \E i \in DOMAIN s : day = Day(s[i].ts, loc)
<1> DEFINE C == Counted(s)
           m == Meters(s)
           D == {Day(s[i].ts, loc) : i \in C}
           key == [i \in C |-> Day(s[i].ts, loc)]
           perDay == DistancesByDay(s, loc)
<1>1. Len(s) \in Nat /\ DOMAIN s = 1..Len(s) /\ C \in SUBSET (2..Len(s))
  BY DEF Counted
<1>2. IsFiniteSet(C)
  <2>1. IsFiniteSet(2..Len(s))
    BY <1>1, FS_Interval
  <2> HIDE DEF C
  <2> QED
    BY <1>1, <2>1, FS_Subset
<1>3. \A i \in C : m[i] \in Nat
  <2> SUFFICES ASSUME NEW i \in C PROVE m[i] \in Nat
    OBVIOUS
  <2>1. i \in DOMAIN s /\ i - 1 \in DOMAIN s
    <3> HIDE DEF C
    <3> QED
      BY <1>1
  <2>2. s[i] \in Coords(Keys) /\ s[i - 1] \in Coords(Keys)
    BY <2>1
  <2>3. PICK j \in Keys, k \in Keys : s[i - 1] = Coord(j) /\ s[i] = Coord(k)
    BY <2>2 DEF Coords
  <2>4. Distance[<<s[i - 1].place, s[i].place>>] \in Nat
    <3>1. s[i - 1].place = Place[j] /\ s[i].place = Place[k]
      BY <2>3 DEF Coord
    <3> QED
      BY <3>1, RequestsAssumption
  <2>5. m[i] = RoundDiv(Distance[<<s[i - 1].place, s[i].place>>], PerMeter)
    BY DEF Meters
  <2> QED
    BY <2>4, <2>5, RoundDivNat, InsightsAssumption
<1>4. IsFiniteSet(D) /\ key \in [C -> D]
  <2>1. key \in [C -> D]
    OBVIOUS
  <2>2. D = {key[i] : i \in C}
    OBVIOUS
  <2> HIDE DEF C, D, key
  <2>3. IsFiniteSet({key[i] : i \in C})
    BY <1>2, FunctionImageFinite
  <2> QED
    BY <2>1, <2>2, <2>3
<1>5. DOMAIN perDay = D /\ \A day \in D : perDay[day] = SumOver(m, {i \in C : key[i] = day})
  <2>1. DOMAIN perDay = D
    BY DEF DistancesByDay
  <2>2. ASSUME NEW day \in D PROVE perDay[day] = SumOver(m, {i \in C : key[i] = day})
    <3>1. {i \in C : key[i] = day} = {i \in C : Day(s[i].ts, loc) = day}
      OBVIOUS
    <3>2. perDay[day] = SumOver(m, {i \in C : Day(s[i].ts, loc) = day})
      BY DEF DistancesByDay
    <3> QED
      BY <3>1, <3>2
  <2> QED
    BY <2>1, <2>2
<1>6. \A day \in D : \E i \in DOMAIN s : day = Day(s[i].ts, loc)
  BY <1>1
<1> HIDE DEF C, D, m, key, perDay
<1>7. SumOver(m, C) \in Nat
  BY <1>2, <1>3, SumType
<1>8. \A day \in D : perDay[day] \in Nat
  <2> SUFFICES ASSUME NEW day \in D PROVE perDay[day] \in Nat
    OBVIOUS
  <2> DEFINE P == {i \in C : key[i] = day}
  <2>1. P \in SUBSET C
    OBVIOUS
  <2>2. perDay[day] = SumOver(m, P)
    BY <1>5
  <2> HIDE DEF P
  <2>3. IsFiniteSet(P) /\ \A i \in P : m[i] \in Nat
    BY <1>2, <1>3, <2>1, FS_Subset
  <2> QED
    BY <2>2, <2>3, SumType
<1>9. SumOver(perDay, D) = SumOver(m, C)
  BY <1>2, <1>3, <1>4, <1>5, SumGroups
<1> QED
  BY <1>4, <1>5, <1>6, <1>7, <1>8, <1>9 DEF C, m, perDay

(* So do those of the days with movement, if all are of the year.          *)
LEMMA ActiveDaysAddUp ==
  ASSUME loc \in Locations, NEW s \in Seq(Coords(Keys)), NEW y,
         \A i \in DOMAIN s : Year(Day(s[i].ts, loc)) = y
  PROVE  LET perDay == DistancesByDay(s, loc)
             days == ActiveDays(perDay, y)
         IN  /\ IsFiniteSet(days) /\ days \subseteq DOMAIN perDay
             /\ SumOver(perDay, days) = SumOver(Meters(s), Counted(s))
<1> DEFINE perDay == DistancesByDay(s, loc)
           days == ActiveDays(perDay, y)
<1>1. /\ IsFiniteSet(DOMAIN perDay) /\ \A day \in DOMAIN perDay : perDay[day] \in Nat
      /\ SumOver(perDay, DOMAIN perDay) = SumOver(Meters(s), Counted(s))
      /\ \A day \in DOMAIN perDay : \E i \in DOMAIN s : day = Day(s[i].ts, loc)
  BY DaysAddUp
<1>2. days = {day \in DOMAIN perDay : perDay[day] > 0 /\ Year(day) = y}
  BY DEF ActiveDays
<1>3. \A day \in DOMAIN perDay : Year(day) = y
  BY <1>1
<1> HIDE DEF perDay, days
<1>4. days \in SUBSET DOMAIN perDay /\ \A day \in DOMAIN perDay \ days : perDay[day] = 0
  BY <1>1, <1>2, <1>3
<1>5. SumOver(perDay, days) = SumOver(perDay, DOMAIN perDay) /\ IsFiniteSet(days)
  BY <1>1, <1>4, SumOfPositive, FS_Subset
<1> QED
  BY <1>1, <1>4, <1>5 DEF perDay, days

LEMMA LargestValue ==
  ASSUME NEW S, IsFiniteSet(S), S # {}, NEW f, \A x \in S : f[x] \in Nat
  PROVE  \E x \in S : \A y \in S : f[y] <= f[x]
<1> DEFINE T == {A \in SUBSET S : A = {} \/ \E x \in A : \A y \in A : f[y] <= f[x]}
<1>1. {} \in T
  OBVIOUS
<1>2. ASSUME NEW A \in SUBSET S, NEW z \in S \ A, A \in T PROVE A \cup {z} \in T
  <2>1. CASE A = {}
    BY <2>1
  <2>2. ASSUME NEW x \in A, \A y \in A : f[y] <= f[x] PROVE A \cup {z} \in T
    <3>1. CASE f[z] <= f[x]
      BY <2>2, <3>1
    <3>2. CASE ~(f[z] <= f[x])
      <4>1. \A y \in A \cup {z} : f[y] <= f[z]
        BY <2>2, <3>2
      <4> QED
        BY <4>1
    <3> QED
      BY <3>1, <3>2
  <2> QED
    BY <1>2, <2>1, <2>2
<1>3. S \in T
  <2> HIDE DEF T
  <2> QED
    BY <1>1, <1>2, ByElements
<1> QED
  BY <1>3

(* The totals of a year, whichever month is its biggest.                   *)
LEMMA TotalsOfYear ==
  ASSUME loc \in Locations, NEW s \in Seq(Coords(Keys)), NEW y, NEW u,
         \A i \in DOMAIN s : Year(Day(s[i].ts, loc)) = y
  PROVE  LET perDay == DistancesByDay(s, loc)
             all == SumOver(Meters(s), Counted(s))
         IN  /\ TotalsFromDaily(perDay, y, u) # {}
             /\ \A t \in TotalsFromDaily(perDay, y, u) :
                  /\ t.distance = Convert(all, u) /\ t.unit = u
                  /\ t.days = Cardinality(ActiveDays(perDay, y))
<1> DEFINE perDay == DistancesByDay(s, loc)
           days == ActiveDays(perDay, y)
           byMonth == MonthMeters(perDay, days)
           Totals(biggest) == [distance |-> Convert(SumOver(perDay, days), u), unit |-> u,
                               days |-> Cardinality(days), biggest |-> biggest]
           Biggest(m) == [month |-> m, distance |-> Convert(byMonth[m], u)]
<1>1. /\ IsFiniteSet(days) /\ days \subseteq DOMAIN perDay
      /\ SumOver(perDay, days) = SumOver(Meters(s), Counted(s))
      /\ \A day \in DOMAIN perDay : perDay[day] \in Nat
  BY ActiveDaysAddUp, DaysAddUp
<1>2. TotalsFromDaily(perDay, y, u) = IF days = {} THEN {Totals(NoMonth)}
                                     ELSE {Totals(Biggest(m)) : m \in BiggestMonths(byMonth)}
  BY DEF TotalsFromDaily, ActiveDays
<1>3. \A b : /\ Totals(b).distance = Convert(SumOver(perDay, days), u) /\ Totals(b).unit = u
             /\ Totals(b).days = Cardinality(days)
  OBVIOUS
<1>4. days # {} => BiggestMonths(byMonth) # {}
  <2> SUFFICES ASSUME days # {} PROVE BiggestMonths(byMonth) # {}
    OBVIOUS
  <2> DEFINE of == [day \in days |-> Month(day)]
  <2>1. DOMAIN byMonth = {of[day] : day \in days}
    BY DEF MonthMeters
  <2>2. \A m \in DOMAIN byMonth : byMonth[m] = SumOver(perDay, {day \in days : Month(day) = m})
    BY DEF MonthMeters
  <2> HIDE DEF of, byMonth, days, perDay
  <2>3. IsFiniteSet(DOMAIN byMonth) /\ DOMAIN byMonth # {}
    BY <1>1, <2>1, FunctionImageFinite
  <2>4. \A m \in DOMAIN byMonth : byMonth[m] \in Nat
    <3> SUFFICES ASSUME NEW m \in DOMAIN byMonth PROVE byMonth[m] \in Nat
      OBVIOUS
    <3> DEFINE P == {day \in days : Month(day) = m}
    <3>1. P \in SUBSET days /\ byMonth[m] = SumOver(perDay, P)
      BY <2>2
    <3> HIDE DEF P
    <3>2. IsFiniteSet(P) /\ \A day \in P : perDay[day] \in Nat
      BY <1>1, <3>1, FS_Subset
    <3> QED
      BY <3>1, <3>2, SumType
  <2>5. \E m \in DOMAIN byMonth : \A n \in DOMAIN byMonth : byMonth[n] <= byMonth[m]
    BY <2>3, <2>4, LargestValue
  <2> QED
    BY <2>5 DEF BiggestMonths
<1> HIDE DEF Totals, Biggest, byMonth, days, perDay
<1>5. /\ TotalsFromDaily(perDay, y, u) # {}
      /\ \A t \in TotalsFromDaily(perDay, y, u) : \E b : t = Totals(b)
  BY <1>2, <1>4
<1>6. \A t \in TotalsFromDaily(perDay, y, u) :
        /\ t.distance = Convert(SumOver(perDay, days), u) /\ t.unit = u
        /\ t.days = Cardinality(days)
  BY <1>3, <1>5
<1> QED
  BY <1>1, <1>5, <1>6 DEF days, perDay

(* What the heat map shows of a year.                                      *)
LEMMA HeatmapOfYear ==
  ASSUME loc \in Locations, NEW s \in Seq(Coords(Keys)), NEW y, NEW t,
         \A i \in DOMAIN s : Year(Day(s[i].ts, loc)) = y
  PROVE  LET perDay == DistancesByDay(s, loc)
             heatmap == HeatmapFromDaily(perDay, y, t, loc)
         IN  /\ SumOver(heatmap.data, DOMAIN heatmap.data) = SumOver(Meters(s), Counted(s))
             /\ heatmap.active = Cardinality(ActiveDays(perDay, y))
<1> DEFINE perDay == DistancesByDay(s, loc)
           days == ActiveDays(perDay, y)
           heatmap == HeatmapFromDaily(perDay, y, t, loc)
           data == [day \in days |-> perDay[day]]
<1>1. /\ IsFiniteSet(days) /\ days \subseteq DOMAIN perDay
      /\ SumOver(perDay, days) = SumOver(Meters(s), Counted(s))
      /\ \A day \in DOMAIN perDay : perDay[day] \in Nat
  BY ActiveDaysAddUp, DaysAddUp
<1>2. CASE days = {}
  <2>1. heatmap = NoHeatmap
    BY <1>2 DEF HeatmapFromDaily
  <2>2. NoHeatmap.data = <<>> /\ DOMAIN (<<>>) = {} /\ NoHeatmap.active = 0
    BY DEF NoHeatmap
  <2>3. SumOver(NoHeatmap.data, {}) = 0 /\ SumOver(perDay, {}) = 0 /\ Cardinality({}) = 0
    BY SumEmpty, FS_EmptySet
  <2> QED
    BY <1>1, <1>2, <2>1, <2>2, <2>3
<1>3. CASE days # {}
  <2>1. heatmap.data = data /\ heatmap.active = Len(SortedMeters(perDay, days))
    BY <1>3 DEF HeatmapFromDaily
  <2>2. Len(SortedMeters(perDay, days)) = Cardinality(days)
    <3>1. Cardinality(days) \in Nat
      BY <1>1, FS_CardinalityType
    <3>2. DOMAIN SortedMeters(perDay, days) = 1..Cardinality(days)
      BY DEF SortedMeters
    <3> QED
      BY <3>1, <3>2
  <2>3. DOMAIN data = days /\ \A day \in days : data[day] = perDay[day]
    OBVIOUS
  <2> HIDE DEF data, days, perDay
  <2>4. SumOver(perDay, days) = SumOver(data, days)
    BY <1>1, <2>3, SumSame
  <2> QED
    BY <1>1, <2>1, <2>2, <2>3, <2>4 DEF days, perDay
<1> QED
  BY <1>2, <1>3

-----------------------------------------------------------------------------
(* Answers.  In the loop of /stats the years read so far are the first     *)
(* ones of the list; none of the list is empty, and none is missing that   *)
(* had points when the request came.                                       *)
Listing ==
  /\ \A i, j \in DOMAIN years : i # j => years[i] # years[j]
  /\ Cardinality(DOMAIN coords) <= Len(years)
  /\ DOMAIN coords = {years[i] : i \in 1..Cardinality(DOMAIN coords)}
  /\ \A y \in ToSet(years) : OfYear(Stored, y) # {}
  /\ \A k \in before : Year(Day(Ts[k], loc)) \in ToSet(years)
  /\ \A y \in DOMAIN coords : coords[y] # <<>>

AsRead(y) == coords[y] \in Seq(Coords(Keys)) /\ Len(coords[y]) = Cardinality(ToSet(coords[y]))

Stages ==
  /\ pc \in {"idle", "years"} => DOMAIN coords = {}
  /\ \A y \in DOMAIN coords : AsRead(y)
  /\ pc = "coords" => url.kind = "stats" /\ Listing
  /\ pc \in {"previous", "answer"} => year \in DOMAIN coords
  /\ pc = "answer" /\ url.kind = "details" => year - 1 \in DOMAIN coords

Truthful == StatsAddUp /\ TotalsCountAll /\ ComparisonTruthful

AnswersInv == YearsInv /\ Stages /\ Truthful

(* No two keys have the same time and place.                               *)
LEMMA CoordsSize ==
  ASSUME NEW K \in SUBSET Keys
  PROVE  IsFiniteSet(K) /\ IsFiniteSet(Coords(K)) /\ Cardinality(Coords(K)) = Cardinality(K)
<1> DEFINE f == [k \in K |-> Coord(k)]
           C == Coords(K)
<1>1. IsFiniteSet(K)
  BY RequestsAssumption, FS_Subset
<1>2. f \in Surjection(K, C) /\ f \in Injection(K, C)
  <2>1. f \in [K -> C] /\ \A c \in C : \E k \in K : f[k] = c
    BY DEF Coords
  <2>2. \A j, k \in K : f[j] = f[k] => j = k
    BY RequestsAssumption
  <2> HIDE DEF f, C
  <2> QED
    BY <2>1, <2>2 DEF Surjection, Injection, IsInjective
<1> HIDE DEF f, C
<1>3. IsFiniteSet(C) /\ Cardinality(C) = Cardinality(K)
  BY <1>1, <1>2, FS_Surjection
<1> QED
  BY <1>1, <1>3 DEF C

(* Points counted by year are the points of these years.                   *)
LEMMA YearSizes ==
  ASSUME NEW K \in SUBSET Keys, NEW D, IsFiniteSet(D)
  PROVE  SumOver([y \in D |-> Cardinality(OfYear(K, y))], D)
           = Cardinality({k \in K : Year(Day(Ts[k], loc)) \in D})
<1> DEFINE C == {k \in K : Year(Day(Ts[k], loc)) \in D}
           key == [k \in C |-> Year(Day(Ts[k], loc))]
           g == [y \in D |-> Cardinality(OfYear(K, y))]
<1>1. C \in SUBSET Keys /\ IsFiniteSet(C) /\ key \in [C -> D]
  BY CoordsSize
<1>2. ASSUME NEW y \in D PROVE g[y] = Cardinality({k \in C : key[k] = y})
  <2>1. {k \in C : key[k] = y} = OfYear(K, y)
    BY DEF OfYear
  <2> QED
    BY <2>1
<1> HIDE DEF key, C, g
<1>3. SumOver(g, D) = Cardinality(C)
  BY <1>1, <1>2, CountGroups
<1> QED
  BY <1>3 DEF C, g

(* What /stats lists of the years and counts of the points.                *)
LEMMA ListedAddUp ==
  ASSUME YearsInv, \A y \in DOMAIN coords : AsRead(y), Listing,
         Cardinality(DOMAIN coords) = Len(years)
  PROVE  LET listed == SumOver([y \in DOMAIN coords |-> Len(coords[y])], DOMAIN coords)
         IN  listed <= PointCount /\ (Stored = before => listed = PointCount)
<1> DEFINE D == DOMAIN coords
           S == Stored
           len == [y \in D |-> Len(coords[y])]
           size == [y \in D |-> Cardinality(OfYear(S, y))]
           C == {k \in S : Year(Day(Ts[k], loc)) \in D}
<1>1. IsFiniteSet(D) /\ S \in SUBSET Keys /\ PointCount = Cardinality(S)
  BY DEF YearsInv, YearsType, Stored, PointCount
<1>2. SumOver(size, D) = Cardinality(C)
  BY <1>1, YearSizes
<1>3. C \in SUBSET S /\ Cardinality(C) <= Cardinality(S)
  BY <1>1, CoordsSize, FS_Subset
<1>4. ASSUME NEW y \in D
      PROVE  /\ len[y] \in Nat /\ size[y] \in Nat /\ len[y] <= size[y]
             /\ S = before => len[y] = size[y]
  <2> DEFINE P == OfYear(S, y)
             Q == ToSet(coords[y])
  <2>1. P \in SUBSET Keys
    BY <1>1 DEF OfYear
  <2>2. Q \in SUBSET Coords(P) /\ (S = before => Q = Coords(P))
    BY DEF YearsInv, ReadsWholeYears
  <2>3. len[y] = Cardinality(Q) /\ size[y] = Cardinality(P)
    BY DEF AsRead
  <2> HIDE DEF P, Q, len, size
  <2>4. IsFiniteSet(Coords(P)) /\ Cardinality(Coords(P)) = Cardinality(P) /\ IsFiniteSet(P)
    BY <2>1, CoordsSize
  <2>5. Cardinality(Q) <= Cardinality(P) /\ IsFiniteSet(Q)
    BY <2>2, <2>4, FS_Subset
  <2>6. Cardinality(Q) \in Nat /\ Cardinality(P) \in Nat
    BY <2>4, <2>5, FS_CardinalityType
  <2> QED
    BY <2>2, <2>3, <2>4, <2>5, <2>6
<1>5. S = before => C = S
  <2>1. D = ToSet(years)
    <3>1. years \in Seq(Int) /\ DOMAIN years = 1..Len(years)
      BY DEF YearsInv, YearsType
    <3> QED
      BY <3>1 DEF Listing, ToSet
  <2>2. S = before => \A k \in S : Year(Day(Ts[k], loc)) \in D
    BY <2>1 DEF Listing
  <2> QED
    BY <2>2
<1> HIDE DEF D, S, len, size, C
<1>6. SumOver(len, D) <= SumOver(size, D) /\ SumOver(len, D) \in Nat /\ SumOver(size, D) \in Nat
  BY <1>1, <1>4, SumAtMost, SumType
<1>7. S = before => SumOver(len, D) = SumOver(size, D)
  BY <1>1, <1>4, SumSame
<1>8. Cardinality(S) \in Nat /\ Cardinality(C) \in Nat
  <2>1. IsFiniteSet(S) /\ IsFiniteSet(C)
    BY <1>1, <1>3, CoordsSize
  <2> QED
    BY <2>1, FS_CardinalityType
<1>9. SumOver(len, D) <= PointCount /\ (S = before => SumOver(len, D) = PointCount)
  BY <1>1, <1>2, <1>3, <1>5, <1>6, <1>7, <1>8
<1> QED
  BY <1>9 DEF len, D, S

-----------------------------------------------------------------------------
(* The comparison of two years.                                            *)
LEMMA RoundsToNothing ==
  ASSUME NEW a \in Nat, NEW b \in Nat \ {0}, RoundDiv(a, b) = 0
  PROVE  2 * a < b
<1> DEFINE c == 2 * a + b
           d == 2 * b
<1>1. c \in Nat /\ d \in Nat \ {0} /\ c \div d = 0
  BY DEF RoundDiv
<1> HIDE DEF c, d
<1>2. c < d
  BY <1>1
<1> QED
  BY <1>2 DEF c, d

LEMMA ChangeHasSign ==
  ASSUME NEW this \in Nat, NEW prev \in Nat
  PROVE  LET change == PercentChange(this, prev)
         IN  /\ change > 0 => this > prev
             /\ change < 0 => this < prev
             /\ change = 0 => 200 * (IF this > prev THEN this - prev ELSE prev - this) <= prev
<1>1. CASE prev = 0
  BY <1>1 DEF PercentChange
<1>2. CASE prev # 0 /\ this >= prev
  <2> DEFINE a == (this - prev) * 100
  <2>1. a \in Nat /\ ~(a < 0) /\ (a > 0 => this > prev) /\ prev \in Nat \ {0}
    BY <1>2
  <2>2. PercentChange(this, prev) = RoundDiv(a, prev)
    BY <1>2, <2>1 DEF PercentChange, RoundAway
  <2>3. RoundDiv(a, prev) \in Nat
    <3> HIDE DEF a
    <3> QED
      BY <2>1, RoundDivNat
  <2>4. RoundDiv(a, prev) = 0 => 2 * a < prev
    <3> HIDE DEF a
    <3> QED
      BY <2>1, RoundsToNothing
  <2>5. this = prev => RoundDiv(a, prev) = 0
    <3> SUFFICES ASSUME this = prev PROVE RoundDiv(a, prev) = 0
      OBVIOUS
    <3>1. a = 0 /\ prev < 2 * prev /\ 2 * prev \in Nat \ {0}
      BY <1>2
    <3> DEFINE d == 2 * prev
    <3>2. RoundDiv(a, prev) = prev \div d
      BY <3>1 DEF RoundDiv
    <3>3. prev \div d = 0
      <4>1. prev \in Nat /\ d \in Nat \ {0} /\ prev < d
        BY <3>1
      <4> HIDE DEF d
      <4> QED
        BY <4>1
    <3> QED
      BY <3>2, <3>3
  <2> DEFINE change == RoundDiv(a, prev)
  <2>6. /\ change > 0 => this > prev
        /\ ~(change < 0)
        /\ change = 0 => 200 * (this - prev) < prev
    <3>1. 2 * a = 200 * (this - prev)
      OBVIOUS
    <3> HIDE DEF a, change
    <3>2. change \in Nat /\ (change = 0 => 2 * a < prev) /\ (this = prev => change = 0)
      BY <2>3, <2>4, <2>5 DEF change
    <3> QED
      BY <1>2, <3>1, <3>2
  <2>7. this = prev => 200 * (prev - this) = 0
    OBVIOUS
  <2> HIDE DEF a, change
  <2> QED
    BY <1>2, <2>2, <2>6, <2>7 DEF change
<1>3. CASE prev # 0 /\ this < prev
  <2> DEFINE a == (prev - this) * 100
             b == (this - prev) * 100
  <2>1. a \in Nat /\ a > 0 /\ b < 0 /\ -b = a /\ prev \in Nat \ {0}
    BY <1>3
  <2>2. PercentChange(this, prev) = -RoundDiv(a, prev)
    <3>1. PercentChange(this, prev) = RoundAway(b, prev)
      BY <1>3 DEF PercentChange
    <3>2. RoundAway(b, prev) = -RoundDiv(-b, prev)
      BY <2>1 DEF RoundAway
    <3> QED
      BY <2>1, <3>1, <3>2
  <2>3. RoundDiv(a, prev) \in Nat
    <3> HIDE DEF a
    <3> QED
      BY <2>1, RoundDivNat
  <2>4. RoundDiv(a, prev) = 0 => 2 * a < prev
    <3> HIDE DEF a
    <3> QED
      BY <2>1, RoundsToNothing
  <2>5. 2 * a = 200 * (prev - this)
    OBVIOUS
  <2> DEFINE r == RoundDiv(a, prev)
  <2> HIDE DEF a, b, r
  <2>6. r \in Nat /\ (r = 0 => 2 * a < prev) /\ PercentChange(this, prev) = -r
    BY <2>2, <2>3, <2>4 DEF r
  <2> QED
    BY <1>3, <2>5, <2>6
<1> QED
  BY <1>1, <1>2, <1>3

LEMMA ConvertNat ==
  ASSUME NEW meters \in Nat, NEW u
  PROVE  Convert(meters, KnownUnit(u)) \in Nat
<1>1. PerUnit[KnownUnit(u)] \in Nat \ {0}
  BY InsightsAssumption DEF KnownUnit
<1> QED
  BY <1>1, RoundDivNat DEF Convert

(* What was read for a year is of the year.                                *)
LEMMA ReadIsOfYear ==
  ASSUME YearsInv, NEW y \in DOMAIN coords, AsRead(y)
  PROVE  /\ coords[y] \in Seq(Coords(Keys))
         /\ \A i \in DOMAIN coords[y] : Year(Day(coords[y][i].ts, loc)) = y
<1>1. coords[y] \in Seq(Coords(Keys))
  BY DEF AsRead
<1>2. ASSUME NEW i \in DOMAIN coords[y] PROVE Year(Day(coords[y][i].ts, loc)) = y
  <2>1. coords[y][i] \in ToSet(coords[y])
    BY DEF ToSet
  <2>2. coords[y][i] \in Coords(OfYear(Stored, y))
    BY <2>1 DEF YearsInv, ReadsWholeYears
  <2>3. PICK k \in OfYear(Stored, y) : coords[y][i] = Coord(k)
    BY <2>2 DEF Coords
  <2> QED
    BY <2>3 DEF Coord, OfYear
<1> QED
  BY <1>1, <1>2

(* The distances of a year, in the unit shown, whatever the biggest month. *)
LEMMA YearTotals ==
  ASSUME YearsInv, NEW y \in DOMAIN coords, AsRead(y), NEW u
  PROVE  LET perDay == DistancesByDay(coords[y], loc)
             all == SumOver(Meters(coords[y]), Counted(coords[y]))
         IN  /\ all \in Nat
             /\ TotalsFromDaily(perDay, y, u) # {}
             /\ \A t \in TotalsFromDaily(perDay, y, u) :
                  /\ t.distance = Convert(all, u) /\ t.unit = u
                  /\ t.days = Cardinality(ActiveDays(perDay, y))
<1>1. loc \in Locations
  BY DEF YearsInv, YearsType
<1>2. /\ coords[y] \in Seq(Coords(Keys))
      /\ \A i \in DOMAIN coords[y] : Year(Day(coords[y][i].ts, loc)) = y
  BY ReadIsOfYear
<1> QED
  BY <1>1, <1>2, DaysAddUp, TotalsOfYear

-----------------------------------------------------------------------------
(* The answers, action by action.                                          *)
LEMMA NotDone == ASSUME pc' # "done" PROVE Truthful'
  BY DEF Truthful, StatsAddUp, TotalsCountAll, ComparisonTruthful

(* What was answered stays true: the table only grows.                     *)
LEMMA StaysTruthful ==
  ASSUME Truthful, before \subseteq Stored, Stored \subseteq Stored', UNCHANGED readVars
  PROVE  Truthful'
<1>1. UNCHANGED <<loc, url, pc, before, years, unit, year, coords, answer>>
  BY DEF readVars
<1>2. Stored' = before' => Stored = before
  BY <1>1
<1>3. StatsAddUp'
  <2>1. StatsAddUp
    BY DEF Truthful
  <2> QED
    BY <1>1, <1>2, <2>1 DEF StatsAddUp
<1>4. TotalsCountAll'
  <2>1. TotalsCountAll
    BY DEF Truthful
  <2> QED
    BY <1>1, <2>1 DEF TotalsCountAll
<1>5. ComparisonTruthful'
  <2>1. ComparisonTruthful
    BY DEF Truthful
  <2> QED
    BY <1>1, <2>1 DEF ComparisonTruthful
<1> QED
  BY <1>3, <1>4, <1>5 DEF Truthful

LEMMA InitAnswersInv == Init => AnswersInv
<1> SUFFICES ASSUME Init PROVE AnswersInv
  OBVIOUS
<1>1. pc = "idle" /\ coords = <<>>
  BY DEF Init
<1>2. DOMAIN coords = {}
  BY <1>1
<1>3. Stages
  BY <1>1, <1>2 DEF Stages
<1>4. Truthful
  BY <1>1 DEF Truthful, StatsAddUp, TotalsCountAll, ComparisonTruthful
<1> QED
  BY <1>3, <1>4, InitYearsInv DEF AnswersInv

(* The list of years, as it is read.                                       *)
LEMMA ReadYearsListing ==
  ASSUME AnswersInv, ReadYears
  PROVE  Listing'
<1>1. /\ pc = "years" /\ years' \in YearsWithPoints
      /\ UNCHANGED <<rows, clock, loc, url, before, unit, year, coords, answer>>
  BY DEF ReadYears
<1>2. DOMAIN coords = {} /\ DOMAIN coords' = {}
  BY <1>1 DEF AnswersInv, Stages
<1>3. Cardinality(DOMAIN coords') = 0
  BY <1>2, FS_EmptySet
<1>4. IsFiniteSet(Stored)
  BY CoordsSize DEF Stored
<1> DEFINE Y == DOMAIN TrackedMonths
           of == [k \in Stored |-> Year(Day(Ts[k], loc))]
<1>5. Y = {of[k] : k \in Stored}
  BY DEF TrackedMonths
<1>6. IsFiniteSet(Y)
  <2> HIDE DEF Y, of
  <2> QED
    BY <1>4, <1>5, FunctionImageFinite
<1>7. years' \in SetToSeqs(Y) /\ \A i, j \in DOMAIN years' : i < j => years'[i] > years'[j]
  BY <1>1 DEF YearsWithPoints
<1>8. years' \in Seq(Y) /\ ToSet(years') = Y
  <2> DEFINE t == years'
  <2>1. t \in SetToSeqs(Y)
    BY <1>7
  <2> HIDE DEF Y, t
  <2>2. t \in Seq(Y) /\ ToSet(t) = Y
    BY <1>6, <2>1, SeqOfSet
  <2> QED
    BY <2>2 DEF t
<1>9. \A i, j \in DOMAIN years' : i # j => years'[i] # years'[j]
  <2>1. years' \in Seq(Int)
    BY <1>1, YearsAreNumbers DEF AnswersInv, YearsInv
  <2> QED
    BY <1>7, <2>1
<1>10. Stored' = Stored /\ \A y \in Y : OfYear(Stored, y)' = OfYear(Stored, y)
  BY <1>1 DEF Stored, OfYear
<1>11. \A y \in Y : OfYear(Stored, y) # {}
  BY <1>5 DEF OfYear
<1>12. \A k \in before' : Year(Day(Ts[k], loc')) \in Y
  <2>1. before \subseteq Stored
    BY DEF AnswersInv, YearsInv, Growing
  <2> QED
    BY <1>1, <1>5, <2>1
<1>13. \A y \in Y : OfYear(Stored, y)' # {}
  BY <1>1, <1>10, <1>11 DEF OfYear
<1> HIDE DEF Y, of
<1>14. Len(years') \in Nat
  BY <1>8
<1> QED
  BY <1>2, <1>3, <1>8, <1>9, <1>12, <1>13, <1>14 DEF Listing

(* One more year of the list.                                              *)
LEMMA ReadCoordsListing ==
  ASSUME AnswersInv, ReadCoords
  PROVE  Listing' /\ \A y \in DOMAIN coords' : AsRead(y)'
<1> DEFINE n == Cardinality(DOMAIN coords)
           y == years[n + 1]
<1>1. PICK s \in CoordsBetween(YearBounds(y, loc)) : coords' = WithCoords(y, s)
  BY DEF ReadCoords
<1>2. /\ pc = "coords" /\ n < Len(years)
      /\ UNCHANGED <<rows, clock, loc, url, pc, before, years, unit, year, answer>>
  BY DEF ReadCoords
<1>3. Listing /\ \A x \in DOMAIN coords : AsRead(x)
  BY <1>2 DEF AnswersInv, Stages
<1>4. years \in Seq(Int) /\ Len(years) \in Nat /\ DOMAIN years = 1..Len(years) /\ loc \in Locations
  BY DEF AnswersInv, YearsInv, YearsType
<1>5. n \in Nat /\ IsFiniteSet(DOMAIN coords)
  BY FS_CardinalityType DEF AnswersInv, YearsInv, YearsType
<1>6. y \in Int /\ y \in ToSet(years) /\ y \notin DOMAIN coords
  <2> HIDE DEF n
  <2>1. n + 1 \in DOMAIN years
    BY <1>2, <1>4, <1>5
  <2>2. \A i \in 1..n : i \in DOMAIN years /\ i # n + 1
    BY <1>2, <1>4, <1>5
  <2>3. \A i \in 1..n : years[i] # y
    BY <1>3, <2>1, <2>2 DEF Listing
  <2>4. DOMAIN coords = {years[i] : i \in 1..n}
    BY <1>3 DEF Listing, n
  <2>5. y \notin DOMAIN coords
    BY <2>3, <2>4
  <2> QED
    BY <1>4, <2>1, <2>5 DEF ToSet
<1>7. /\ s \in Seq(Coords(Keys)) /\ ToSet(s) = Coords(OfYear(Stored, y))
      /\ Len(s) = Cardinality(ToSet(s))
  <2> HIDE DEF y
  <2> QED
    BY <1>1, <1>4, <1>6, CoordsOfYear
<1>8. s # <<>>
  <2>1. OfYear(Stored, y) # {}
    BY <1>3, <1>6 DEF Listing
  <2>2. Coords(OfYear(Stored, y)) # {}
    <3> HIDE DEF y
    <3> QED
      BY <2>1 DEF Coords
  <2>3. ToSet(<<>>) = {}
    BY DEF ToSet
  <2> QED
    BY <1>7, <2>2, <2>3
<1>9. /\ DOMAIN coords' = DOMAIN coords \cup {y}
      /\ \A x \in DOMAIN coords' : coords'[x] = IF x = y THEN s ELSE coords[x]
  BY <1>1 DEF WithCoords
<1>10. \A x \in DOMAIN coords' : AsRead(x)' /\ coords'[x] # <<>>
  BY <1>3, <1>7, <1>8, <1>9 DEF AsRead, Listing
<1>11. Cardinality(DOMAIN coords') = n + 1
  <2> HIDE DEF y
  <2> QED
    BY <1>5, <1>6, <1>9, FS_AddElement
<1>12. DOMAIN coords' = {years'[i] : i \in 1..Cardinality(DOMAIN coords')}
  <2>1. DOMAIN coords = {years[i] : i \in 1..n}
    BY <1>3 DEF Listing
  <2>2. y = years[n + 1]
    OBVIOUS
  <2> HIDE DEF n, y
  <2>3. {years[i] : i \in 1..(n + 1)} = {years[i] : i \in 1..n} \cup {y}
    <3>1. 1..(n + 1) = 1..n \cup {n + 1}
      BY <1>5
    <3> QED
      BY <2>2, <3>1
  <2> QED
    BY <1>2, <1>9, <1>11, <2>1, <2>3
<1>13. Cardinality(DOMAIN coords') <= Len(years')
  <2> HIDE DEF n, y
  <2> QED
    BY <1>2, <1>4, <1>5, <1>11
<1>14. Stored' = Stored /\ \A x \in ToSet(years') : OfYear(Stored, x)' = OfYear(Stored, x)
  BY <1>2 DEF Stored, OfYear
<1> HIDE DEF n, y
<1> QED
  BY <1>2, <1>3, <1>10, <1>12, <1>13, <1>14 DEF Listing

(* The years listed keep their points.                                     *)
LEMMA TableStages ==
  ASSUME AnswersInv, UNCHANGED readVars, Stored \subseteq Stored'
  PROVE  Stages'
<1>1. UNCHANGED <<loc, url, pc, before, years, unit, year, coords, answer>>
  BY DEF readVars
<1>2. Stages
  BY DEF AnswersInv
<1>3. \A y \in DOMAIN coords' : AsRead(y)'
  BY <1>1, <1>2 DEF Stages, AsRead
<1>4. ASSUME Listing PROVE Listing'
  <2>1. \A y \in ToSet(years) : OfYear(Stored, y) \subseteq OfYear(Stored, y)'
    BY <1>1 DEF OfYear
  <2>2. \A y \in ToSet(years') : OfYear(Stored, y)' # {}
    BY <1>1, <1>4, <2>1 DEF Listing
  <2> QED
    BY <1>1, <1>4, <2>2 DEF Listing
<1> QED
  BY <1>1, <1>2, <1>3, <1>4 DEF Stages

LEMMA NextStages ==
  ASSUME AnswersInv, [Next]_allVars
  PROVE  Stages'
<1>1. Stages
  BY DEF AnswersInv
<1>2. CASE Receive
  BY <1>1, <1>2 DEF Receive, Stages
<1>3. CASE ReadYears
  <2>1. Listing'
    BY <1>3, ReadYearsListing
  <2>2. pc' = "coords" => url'.kind = "stats"
    BY <1>3 DEF ReadYears
  <2>3. pc' \in {"coords", "scope"} /\ UNCHANGED coords /\ DOMAIN coords = {}
    BY <1>1, <1>3 DEF ReadYears, Stages
  <2> QED
    BY <2>1, <2>2, <2>3 DEF Stages
<1>4. CASE PickScope
  BY <1>1, <1>4 DEF PickScope, Stages, AsRead
<1>5. CASE ReadYear
  <2>1. PICK s \in CoordsBetween(YearBounds(year, loc)) : coords' = WithCoords(year, s)
    BY <1>5 DEF ReadYear
  <2>2. s \in Seq(Coords(Keys)) /\ Len(s) = Cardinality(ToSet(s))
    <3>1. loc \in Locations /\ year \in Int
      BY DEF AnswersInv, YearsInv, YearsType
    <3> QED
      BY <3>1, CoordsOfYear
  <2>3. /\ DOMAIN coords' = DOMAIN coords \cup {year}
        /\ \A x \in DOMAIN coords' : coords'[x] = IF x = year THEN s ELSE coords[x]
    BY <2>1 DEF WithCoords
  <2>4. \A y \in DOMAIN coords' : AsRead(y)'
    BY <1>1, <2>2, <2>3 DEF Stages, AsRead
  <2>5. UNCHANGED <<url, year>> /\ pc' = IF url.kind = "details" THEN "previous" ELSE "answer"
    BY <1>5 DEF ReadYear
  <2> QED
    BY <2>3, <2>4, <2>5 DEF Stages
<1>6. CASE ReadPreviousYear
  <2>1. PICK s \in CoordsBetween(YearBounds(year - 1, loc)) : coords' = WithCoords(year - 1, s)
    BY <1>6 DEF ReadPreviousYear
  <2>2. s \in Seq(Coords(Keys)) /\ Len(s) = Cardinality(ToSet(s))
    <3>1. loc \in Locations /\ year - 1 \in Int
      BY DEF AnswersInv, YearsInv, YearsType
    <3> QED
      BY <3>1, CoordsOfYear
  <2>3. /\ DOMAIN coords' = DOMAIN coords \cup {year - 1}
        /\ \A x \in DOMAIN coords' : coords'[x] = IF x = year - 1 THEN s ELSE coords[x]
    BY <2>1 DEF WithCoords
  <2>4. \A y \in DOMAIN coords' : AsRead(y)'
    BY <1>1, <2>2, <2>3 DEF Stages, AsRead
  <2>5. UNCHANGED year /\ pc = "previous" /\ pc' = "answer"
    BY <1>6 DEF ReadPreviousYear
  <2>6. year \in DOMAIN coords
    BY <1>1, <2>5 DEF Stages
  <2> QED
    BY <2>3, <2>4, <2>5, <2>6 DEF Stages
<1>7. CASE ReadCoords
  <2>1. Listing' /\ \A y \in DOMAIN coords' : AsRead(y)'
    BY <1>7, ReadCoordsListing
  <2>2. pc' = "coords" /\ url'.kind = "stats"
    BY <1>1, <1>7 DEF ReadCoords, Stages
  <2> QED
    BY <2>1, <2>2 DEF Stages
<1>8. CASE AnswerTracked \/ AnswerStats \/ AnswerInsights \/ Fail
  <2>1. pc' \in {"done", "failed"} /\ UNCHANGED coords
    BY <1>8 DEF AnswerTracked, AnswerStats, AnswerInsights, Fail
  <2>2. \A y \in DOMAIN coords' : AsRead(y)'
    BY <1>1, <2>1 DEF Stages, AsRead
  <2> QED
    BY <2>1, <2>2 DEF Stages
<1>9. CASE TableNext /\ UNCHANGED readVars
  <2>1. Stored \subseteq Stored'
    <3>1. \A k \in Keys : rows[k] # NoRow => rows'[k] # NoRow
      BY <1>9, TableGrows DEF AnswersInv, YearsInv, YearsType
    <3> QED
      BY <3>1 DEF Stored
  <2> QED
    BY <1>9, <2>1, TableStages
<1>10. CASE UNCHANGED allVars
  <2>1. UNCHANGED readVars /\ Stored' = Stored
    BY <1>10 DEF allVars, readVars, Stored
  <2> QED
    BY <2>1, TableStages
<1> QED
  BY <1>2, <1>3, <1>4, <1>5, <1>6, <1>7, <1>8, <1>9, <1>10 DEF Next, Read

(* /stats.                                                                 *)
LEMMA AnswerStatsTruthful ==
  ASSUME AnswersInv, AnswerStats
  PROVE  Truthful'
<1>1. /\ pc = "coords" /\ Cardinality(DOMAIN coords) = Len(years)
      /\ answer' = ComputeStats(coords, PointCount, loc)
      /\ UNCHANGED <<rows, clock, loc, url, before, years, unit, year, coords>>
  BY DEF AnswerStats
<1>2. url.kind = "stats" /\ Listing /\ \A y \in DOMAIN coords : AsRead(y)
  BY <1>1 DEF AnswersInv, Stages
<1> DEFINE listed == SumOver([y \in DOMAIN coords |-> Len(coords[y])], DOMAIN coords)
<1>3. listed <= PointCount /\ (Stored = before => listed = PointCount)
  BY <1>1, <1>2, ListedAddUp DEF AnswersInv
<1>4. answer'.points = PointCount
  BY <1>1 DEF ComputeStats
<1>5. Stored' = Stored
  BY <1>1 DEF Stored
<1>6. \A y \in DOMAIN coords : coords[y] # <<>>
  BY <1>2 DEF Listing
<1>7. StatsAddUp'
  <2>1. listed' = listed
    BY <1>1
  <2> QED
    BY <1>1, <1>3, <1>4, <1>5, <1>6, <2>1 DEF StatsAddUp
<1> QED
  BY <1>1, <1>2, <1>7 DEF Truthful, TotalsCountAll, ComparisonTruthful

(* /insights.                                                              *)
LEMMA OverviewTruthful ==
  ASSUME AnswersInv, AnswerInsights, url.kind = "overview"
  PROVE  Truthful'
<1>1. /\ pc = "answer" /\ answer' \in ComputeOverview(coords[year], years, year, Now, loc, unit)
      /\ UNCHANGED <<rows, clock, loc, url, before, years, unit, year, coords>>
  BY DEF AnswerInsights
<1> DEFINE s == coords[year]
           u == KnownUnit(unit)
           all == SumOver(Meters(s), Counted(s))
           perDay == DistancesByDay(s, loc)
           heatmap == HeatmapFromDaily(perDay, year, Now, loc)
<1>2. YearsInv /\ year \in DOMAIN coords /\ AsRead(year)
  BY <1>1 DEF AnswersInv, Stages
<1>3. PICK totals \in TotalsFromDaily(perDay, year, u) :
        answer' = [year |-> year, years |-> years, totals |-> totals, heatmap |-> heatmap]
  BY <1>1 DEF ComputeOverview
<1>4. answer'.totals = totals /\ answer'.heatmap = heatmap
  BY <1>3
<1>5. /\ totals.distance = Convert(all, u) /\ totals.unit = u
      /\ totals.days = Cardinality(ActiveDays(perDay, year))
  BY <1>2, <1>3, YearTotals
<1>6. /\ SumOver(heatmap.data, DOMAIN heatmap.data) = all
      /\ heatmap.active = Cardinality(ActiveDays(perDay, year))
  <2>1. loc \in Locations
    BY <1>2 DEF YearsInv, YearsType
  <2> QED
    BY <1>2, <2>1, ReadIsOfYear, HeatmapOfYear
<1>7. TotalsCountAll'
  <2>1. all' = all
    BY <1>1
  <2> HIDE DEF heatmap, u
  <2> QED
    BY <1>4, <1>5, <1>6, <2>1 DEF TotalsCountAll
<1> QED
  BY <1>1, <1>7 DEF Truthful, StatsAddUp, ComparisonTruthful

(* /insights/details.                                                      *)
LEMMA DetailsTruthful ==
  ASSUME AnswersInv, AnswerInsights, url.kind = "details"
  PROVE  Truthful'
<1> DEFINE this == coords[year]
           prev == coords[year - 1]
           u == KnownUnit(unit)
           All(y) == SumOver(Meters(coords[y]), Counted(coords[y]))
           Km(y) == Convert(All(y), u)
           Totals(y) == TotalsFromDaily(DistancesByDay(coords[y], loc), y, u)
           change == PercentChange(Km(year), Km(year - 1))
<1>1. /\ pc = "answer" /\ answer' = ComputeDetails(this, prev, year, loc, unit)
      /\ UNCHANGED <<rows, clock, loc, url, before, years, unit, year, coords>>
  BY DEF AnswerInsights
<1>2. /\ YearsInv /\ year \in DOMAIN coords /\ AsRead(year)
      /\ year - 1 \in DOMAIN coords /\ AsRead(year - 1)
  BY <1>1 DEF AnswersInv, Stages
<1>3. ASSUME NEW y \in {year, year - 1}
      PROVE  (CHOOSE t \in Totals(y) : TRUE).distance = Km(y) /\ Km(y) \in Nat
  <2>1. /\ All(y) \in Nat /\ Totals(y) # {}
        /\ \A t \in Totals(y) : t.distance = Convert(All(y), u)
    BY <1>2, YearTotals
  <2>2. (CHOOSE t \in Totals(y) : TRUE) \in Totals(y)
    BY <2>1
  <2>3. Km(y) \in Nat
    <3> HIDE DEF All
    <3> QED
      BY <2>1, ConvertNat
  <2> QED
    BY <2>1, <2>2, <2>3
<1>4. Comparison(this, prev, year, loc, u).percent = change
  BY <1>3 DEF Comparison
<1>5. /\ answer'.comparison # <<>> <=> prev # <<>>
      /\ answer'.comparison # <<>> => answer'.comparison[1].percent = change
  <2>1. answer'.comparison = IF prev = <<>> THEN <<>> ELSE <<Comparison(this, prev, year, loc, u)>>
    BY <1>1 DEF ComputeDetails
  <2> QED
    BY <1>4, <2>1
<1>6. /\ change > 0 => Km(year) > Km(year - 1)
      /\ change < 0 => Km(year) < Km(year - 1)
      /\ change = 0 => 200 * (IF Km(year) > Km(year - 1) THEN Km(year) - Km(year - 1)
                              ELSE Km(year - 1) - Km(year)) <= Km(year - 1)
  BY <1>3, ChangeHasSign
<1>7. Km(year)' = Km(year) /\ Km(year - 1)' = Km(year - 1) /\ prev' = prev
  BY <1>1
<1>8. ComparisonTruthful'
  BY <1>5, <1>6, <1>7 DEF ComparisonTruthful
<1> QED
  BY <1>1, <1>8 DEF Truthful, StatsAddUp, TotalsCountAll

LEMMA NextAnswersInv == AnswersInv /\ [Next]_allVars => AnswersInv'
<1> SUFFICES ASSUME AnswersInv, [Next]_allVars PROVE AnswersInv'
  OBVIOUS
<1>1. YearsInv' /\ Stages'
  BY NextYearsInv, NextStages DEF AnswersInv
<1>2. Truthful'
  <2>1. CASE Receive \/ ReadYears \/ PickScope \/ ReadYear \/ ReadPreviousYear \/ ReadCoords \/ Fail
    <3>1. pc' # "done"
      BY <2>1 DEF Receive, ReadYears, PickScope, ReadYear, ReadPreviousYear, ReadCoords, Fail
    <3> QED
      BY <3>1, NotDone
  <2>2. CASE AnswerTracked
    BY <2>2 DEF AnswerTracked, Truthful, StatsAddUp, TotalsCountAll, ComparisonTruthful
  <2>3. CASE AnswerStats
    BY <2>3, AnswerStatsTruthful
  <2>4. CASE AnswerInsights
    <3>1. url.kind = "overview" \/ url.kind = "details"
      BY <2>4 DEF AnswerInsights
    <3> QED
      BY <2>4, <3>1, OverviewTruthful, DetailsTruthful
  <2>5. CASE UNCHANGED readVars /\ (TableNext \/ UNCHANGED rows)
    <3>1. Stored \subseteq Stored'
      <4>1. CASE TableNext
        <5>1. \A k \in Keys : rows[k] # NoRow => rows'[k] # NoRow
          BY <4>1, TableGrows DEF AnswersInv, YearsInv, YearsType
        <5> QED
          BY <5>1 DEF Stored
      <4>2. CASE UNCHANGED rows
        BY <4>2 DEF Stored
      <4> QED
        BY <2>5, <4>1, <4>2
    <3>2. Truthful /\ before \subseteq Stored
      BY DEF AnswersInv, YearsInv, Growing
    <3> QED
      BY <2>5, <3>1, <3>2, StaysTruthful
  <2>6. UNCHANGED allVars => UNCHANGED rows /\ UNCHANGED readVars
    BY DEF allVars, readVars
  <2> QED
    BY <2>1, <2>2, <2>3, <2>4, <2>5, <2>6 DEF Next, Read
<1> QED
  BY <1>1, <1>2 DEF AnswersInv

(* What /stats counts and lists agree, for any points and any uploads      *)
(* between its statements (stats, YearsWithPoints, PointCount).            *)
THEOREM StatsAgree == Spec => []StatsAddUp
<1>1. AnswersInv => StatsAddUp
  BY DEF AnswersInv, Truthful
<1> QED
  BY InitAnswersInv, NextAnswersInv, <1>1, PTL DEF Spec

(* The totals and the heat map of /insights have all distances of the year *)
(* (totalsFromDaily, heatmapFromDaily).                                    *)
THEOREM NothingUncounted == Spec => []TotalsCountAll
<1>1. AnswersInv => TotalsCountAll
  BY DEF AnswersInv, Truthful
<1> QED
  BY InitAnswersInv, NextAnswersInv, <1>1, PTL DEF Spec

(* The comparison of /insights/details says which year was the longer one  *)
(* (ComputeDetails, percentChange).                                        *)
THEOREM ComparisonsAreTrue == Spec => []ComparisonTruthful
<1>1. AnswersInv => ComparisonTruthful
  BY DEF AnswersInv, Truthful
<1> QED
  BY InitAnswersInv, NextAnswersInv, <1>1, PTL DEF Spec

-----------------------------------------------------------------------------
(* Zones that neither skip nor repeat a midnight.                          *)
Zone(zone) == zone \in Seq([from : Int, offset : Int]) /\ zone # <<>> /\ QuietMidnights(zone)

LEMMA ZoneFacts ==
  ASSUME NEW zone, Zone(zone)
  PROVE  /\ Len(zone) \in Nat /\ DOMAIN zone = 1..Len(zone) /\ 1 \in DOMAIN zone
         /\ \A i \in DOMAIN zone :
              /\ zone[i].from \in Int /\ zone[i].offset \in (-DaySecs + 1)..(DaySecs - 1)
<1>1. zone \in Seq([from : Int, offset : Int]) /\ zone # <<>>
  BY DEF Zone
<1>2. Len(zone) \in Nat /\ DOMAIN zone = 1..Len(zone) /\ 1 \in DOMAIN zone
  BY <1>1
<1>3. \A i \in DOMAIN zone : zone[i] \in [from : Int, offset : Int]
  <2> DEFINE R == [from : Int, offset : Int]
  <2>1. zone \in Seq(R)
    BY <1>1
  <2> HIDE DEF R
  <2>2. \A i \in DOMAIN zone : zone[i] \in R
    BY <2>1
  <2> QED
    BY <2>2 DEF R
<1>4. \A i \in DOMAIN zone : zone[i].offset \in (-DaySecs + 1)..(DaySecs - 1)
  BY DEF Zone, QuietMidnights
<1> QED
  BY <1>2, <1>3, <1>4

LEMMA PeriodFacts ==
  ASSUME NEW zone, Zone(zone), NEW t \in Int
  PROVE  LET p == Period(t, zone)
         IN  /\ p \in DOMAIN zone /\ (p > 1 => zone[p].from <= t)
             /\ \A i \in DOMAIN zone : i > 1 /\ zone[i].from <= t => i <= p
<1> DEFINE S == {1} \cup {i \in DOMAIN zone : i > 1 /\ zone[i].from <= t}
<1>1. Len(zone) \in Nat /\ DOMAIN zone = 1..Len(zone) /\ 1 \in DOMAIN zone
  BY ZoneFacts
<1>2. S \in SUBSET (1..Len(zone)) /\ S # {}
  BY <1>1
<1>3. Period(t, zone) = CHOOSE x \in S : \A y \in S : x >= y
  BY DEF Period, Max
<1>4. Period(t, zone) \in S /\ \A y \in S : Period(t, zone) >= y
  <2> HIDE DEF S
  <2>1. \E x \in S : \A y \in S : x >= y
    BY <1>1, <1>2, LargestExists
  <2> QED
    BY <1>3, <2>1
<1>5. Period(t, zone) \in Int
  BY <1>1, <1>4
<1> QED
  BY <1>1, <1>4, <1>5

(* Within a day of any second there are at most two offsets, the one       *)
(* before and the one after a change.                                      *)
LEMMA OneChange ==
  ASSUME NEW zone, Zone(zone), NEW m \in Int
  PROVE  LET W == (m - DaySecs)..(m + DaySecs - 1)
         IN  \/ \A t, u \in W : Period(t, zone) = Period(u, zone)
             \/ \E c \in DOMAIN zone :
                  /\ c > 1
                  /\ \A t \in W : Period(t, zone) = IF t < zone[c].from THEN c - 1 ELSE c
<1> DEFINE W == (m - DaySecs)..(m + DaySecs - 1)
           D == DaySecs
<1>0. D \in Nat \ {0}
  BY CalendarAssumption
<1>1. /\ Len(zone) \in Nat /\ DOMAIN zone = 1..Len(zone)
      /\ \A i \in DOMAIN zone : zone[i].from \in Int
  BY ZoneFacts
<1>2. \A i, j \in DOMAIN zone : 1 < i /\ i < j => zone[j].from - zone[i].from >= 2 * D
  BY DEF Zone, QuietMidnights
<1>3. CASE \E c \in DOMAIN zone : c > 1 /\ m - D < zone[c].from /\ zone[c].from <= m + D - 1
  <2>1. PICK c \in DOMAIN zone : c > 1 /\ m - D < zone[c].from /\ zone[c].from <= m + D - 1
    BY <1>3
  <2>2. ASSUME NEW t \in W PROVE Period(t, zone) = IF t < zone[c].from THEN c - 1 ELSE c
    <3> DEFINE p == Period(t, zone)
    <3>1. /\ p \in DOMAIN zone /\ (p > 1 => zone[p].from <= t)
          /\ \A i \in DOMAIN zone : i > 1 /\ zone[i].from <= t => i <= p
      BY PeriodFacts
    <3>2. c - 1 \in DOMAIN zone /\ c \in Int /\ p \in Int /\ c < p + 1 + c
      BY <1>1, <2>1, <3>1
    <3>3. c - 1 > 1 => zone[c].from - zone[c - 1].from >= 2 * D
      BY <1>2, <2>1, <3>2
    <3>4. p > c => zone[p].from - zone[c].from >= 2 * D
      BY <1>2, <2>1, <3>1
    <3>5. c - 1 > 1 => zone[c - 1].from <= t
      BY <1>0, <1>1, <2>1, <3>2, <3>3
    <3>6. c - 1 <= p
      BY <1>1, <2>1, <3>1, <3>2, <3>5
    <3>7. ~(p > c)
      BY <1>0, <1>1, <2>1, <3>1, <3>2, <3>4
    <3>8. zone[c].from \in Int /\ t \in Int
      BY <1>0, <1>1
    <3> HIDE DEF p, W
    <3>9. CASE t < zone[c].from
      <4>1. p # c
        BY <2>1, <3>1, <3>8, <3>9
      <4> QED
        BY <3>2, <3>6, <3>7, <3>9, <4>1 DEF p
    <3>10. CASE ~(t < zone[c].from)
      <4>1. c <= p
        BY <2>1, <3>1, <3>8, <3>10
      <4> QED
        BY <3>2, <3>7, <3>10, <4>1 DEF p
    <3> QED
      BY <3>9, <3>10
  <2> QED
    BY <2>1, <2>2
<1>4. CASE ~\E c \in DOMAIN zone : c > 1 /\ m - D < zone[c].from /\ zone[c].from <= m + D - 1
  <2>1. ASSUME NEW t \in W, NEW u \in W PROVE Period(t, zone) = Period(u, zone)
    <3>1. ASSUME NEW i \in DOMAIN zone, i > 1 PROVE zone[i].from <= t <=> zone[i].from <= u
      <4>1. zone[i].from \in Int
        BY <1>1
      <4> QED
        BY <1>0, <1>4, <3>1, <4>1
    <3>2. {i \in DOMAIN zone : i > 1 /\ zone[i].from <= t}
            = {i \in DOMAIN zone : i > 1 /\ zone[i].from <= u}
      BY <3>1
    <3> QED
      BY <3>2 DEF Period
  <2> QED
    BY <2>1
<1> QED
  BY <1>3, <1>4

(* A day begins at its midnight, which is shown by the local clock.        *)
LEMMA DayBegins ==
  ASSUME NEW zone, Zone(zone), NEW day \in Int
  PROVE  /\ Midnight(day, zone) \in Int /\ Local(Midnight(day, zone), zone) = day * DaySecs
         /\ \A t \in Int : Local(t, zone) \in Int
                           /\ (Local(t, zone) >= day * DaySecs <=> t >= Midnight(day, zone))
<1> DEFINE D == DaySecs
           m == day * D
           W == (m - D)..(m + D - 1)
           M == Midnight(day, zone)
           o(t) == OffsetAt(t, zone)
<1>1. D \in Nat \ {0} /\ m \in Int /\ m \in W
  BY CalendarAssumption
<1>2. \A i \in DOMAIN zone : zone[i].from \in Int /\ zone[i].offset \in (-D + 1)..(D - 1)
  BY ZoneFacts
<1>3. \A t \in Int : Period(t, zone) \in DOMAIN zone
  BY PeriodFacts
<1>4. \A t \in Int : o(t) \in (-D + 1)..(D - 1)
  BY <1>2, <1>3 DEF OffsetAt
<1>5. M = IF o(m) = 0 \/ Period(m - o(m), zone) = Period(m, zone)
          THEN m - o(m) ELSE m - o(m - o(m))
  BY DEF Midnight, Date
<1>6. \A t : Local(t, zone) = t + o(t)
  BY DEF Local
<1>7. m - o(m) \in W /\ m - o(m) \in Int
  <2>1. o(m) \in (-D + 1)..(D - 1)
    BY <1>1, <1>4
  <2> HIDE DEF m, o
  <2> QED
    BY <1>1, <2>1
<1>8. M \in Int /\ M + o(M) = m /\ \A t \in W : t + o(t) >= m <=> t >= M
  <2>1. CASE \A t, u \in W : Period(t, zone) = Period(u, zone)
    <3>1. Period(m - o(m), zone) = Period(m, zone) /\ \A t \in W : o(t) = o(m)
      BY <1>1, <1>7, <2>1 DEF OffsetAt
    <3>2. M = m - o(m)
      BY <1>5, <3>1
    <3>3. o(m) \in Int /\ o(M) = o(m)
      BY <1>1, <1>4, <1>7, <3>1, <3>2
    <3> HIDE DEF m, o, M
    <3> QED
      BY <1>1, <3>1, <3>2, <3>3
  <2>2. CASE \E c \in DOMAIN zone :
               c > 1 /\ \A t \in W : Period(t, zone) = IF t < zone[c].from THEN c - 1 ELSE c
    <3>1. PICK c \in DOMAIN zone :
            c > 1 /\ \A t \in W : Period(t, zone) = IF t < zone[c].from THEN c - 1 ELSE c
      BY <2>2
    <3> DEFINE f == zone[c].from
               a == zone[c - 1].offset
               b == zone[c].offset
    <3>2. c \in Int /\ c - 1 # c /\ c - 1 \in DOMAIN zone
      <4>1. DOMAIN zone = 1..Len(zone) /\ Len(zone) \in Nat
        BY ZoneFacts
      <4> QED
        BY <3>1, <4>1
    <3>3. f \in Int /\ a \in Int /\ b \in Int
      BY <1>1, <1>2, <3>2
    <3>4. \A t \in W : o(t) = IF t < f THEN a ELSE b
      BY <3>1 DEF OffsetAt
    <3>5. (f - 1 + a) \div D = (f - 1 + b) \div D
      BY <3>1 DEF Zone, QuietMidnights
    <3>6. f - 1 + a >= m <=> f - 1 + b >= m
      <4> HIDE DEF f, a, b, D
      <4>1. f - 1 + a \in Int /\ f - 1 + b \in Int
        BY <3>3
      <4>2. (f - 1 + a) \div D >= day <=> f - 1 + a >= day * D
        BY <1>1, <4>1, QuotientAtLeast
      <4>3. (f - 1 + b) \div D >= day <=> f - 1 + b >= day * D
        BY <1>1, <4>1, QuotientAtLeast
      <4> QED
        BY <3>5, <4>2, <4>3
    <3>7. Period(m, zone) = (IF m < f THEN c - 1 ELSE c)
          /\ Period(m - o(m), zone) = IF m - o(m) < f THEN c - 1 ELSE c
      BY <1>1, <1>7, <3>1
    <3>8. o(m) = (IF m < f THEN a ELSE b) /\ o(m - o(m)) = IF m - o(m) < f THEN a ELSE b
      BY <1>1, <1>7, <3>4
    <3>9. M = IF o(m) = 0 \/ (m < f <=> m - o(m) < f) THEN m - o(m) ELSE m - o(m - o(m))
      <4> HIDE DEF m, o, f
      <4> QED
        BY <1>5, <3>2, <3>7
    <3>10. M = IF f - 1 + a >= m THEN m - a ELSE m - b
      <4> DEFINE x == o(m)
                 y == o(m - x)
      <4>1. x = (IF m < f THEN a ELSE b) /\ y = (IF m - x < f THEN a ELSE b)
            /\ M = IF x = 0 \/ (m < f <=> m - x < f) THEN m - x ELSE m - y
        BY <3>8, <3>9
      <4> HIDE DEF x, y, m, f, a, b, M
      <4> QED
        BY <1>1, <3>3, <3>6, <4>1
    <3>11. M \in W
      <4>1. a \in (-D + 1)..(D - 1) /\ b \in (-D + 1)..(D - 1)
        BY <1>2, <3>2
      <4> HIDE DEF m, f, a, b, M
      <4> QED
        BY <1>1, <3>10, <4>1
    <3>12. o(M) = IF M < f THEN a ELSE b
      BY <3>4, <3>11
    <3>13. M \in Int /\ M + o(M) = m
      <4> DEFINE z == o(M)
      <4>1. z = IF M < f THEN a ELSE b
        BY <3>12
      <4> HIDE DEF z, m, f, a, b, M
      <4>2. M \in Int /\ M + z = m
        BY <1>1, <3>3, <3>6, <3>10, <4>1
      <4> QED
        BY <4>2 DEF z
    <3>14. ASSUME NEW t \in W PROVE t + o(t) >= m <=> t >= M
      <4> DEFINE z == o(t)
      <4>1. z = (IF t < f THEN a ELSE b) /\ t \in Int
        BY <1>1, <3>4
      <4> HIDE DEF z, m, f, a, b, M, W
      <4>2. t + z >= m <=> t >= M
        BY <1>1, <3>3, <3>6, <3>10, <4>1
      <4> QED
        BY <4>2 DEF z
    <3> QED
      BY <3>13, <3>14
  <2> QED
    BY <2>1, <2>2, OneChange, <1>1
<1>9. M \in W
  <2>1. o(M) \in (-D + 1)..(D - 1)
    BY <1>4, <1>8
  <2> DEFINE z == o(M)
  <2>2. M + z = m /\ z \in (-D + 1)..(D - 1) /\ M \in Int
    BY <1>8, <2>1
  <2> HIDE DEF z, m, M
  <2> QED
    BY <1>1, <2>2
<1>10. ASSUME NEW t \in Int PROVE t + o(t) \in Int /\ (t + o(t) >= m <=> t >= M)
  <2> DEFINE z == o(t)
  <2>1. z \in (-D + 1)..(D - 1)
    BY <1>4
  <2>2. t \in W => (t + z >= m <=> t >= M)
    BY <1>8
  <2> HIDE DEF z, m, M
  <2>3. t + z \in Int /\ (t + z >= m <=> t >= M)
    BY <1>1, <1>9, <2>1, <2>2
  <2> QED
    BY <2>3 DEF z
<1> QED
  BY <1>6, <1>8, <1>10

(* Midnights are in the order of their days, and AddDate steps from one to *)
(* another.                                                                *)
LEMMA Midnights ==
  ASSUME NEW zone, Zone(zone), NEW day \in Int
  PROVE  /\ Midnight(day, zone) \in Int /\ Day(Midnight(day, zone), zone) = day
         /\ \A n \in Int : AddDate(Midnight(day, zone), n, zone) = Midnight(day + n, zone)
         /\ \A t \in Int : Day(t, zone) \in Int /\ (Day(t, zone) >= day <=> t >= Midnight(day, zone))
<1>1. DaySecs \in Nat \ {0}
  BY CalendarAssumption
<1>2. Midnight(day, zone) \in Int /\ Local(Midnight(day, zone), zone) = day * DaySecs
  BY DayBegins
<1>3. ASSUME NEW t \in Int
      PROVE  Day(t, zone) \in Int /\ (Day(t, zone) >= day <=> t >= Midnight(day, zone))
  <2>1. Local(t, zone) \in Int /\ (Local(t, zone) >= day * DaySecs <=> t >= Midnight(day, zone))
    BY DayBegins
  <2> QED
    BY <1>1, <2>1, Quotient, QuotientAtLeast DEF Day
<1>4. Day(Midnight(day, zone), zone) = day
  <2>1. /\ day * DaySecs \in Int
        /\ (day * DaySecs) \div DaySecs >= day <=> day * DaySecs >= day * DaySecs
        /\ (day * DaySecs) \div DaySecs >= day + 1 <=> day * DaySecs >= (day + 1) * DaySecs
        /\ (day * DaySecs) \div DaySecs \in Int
    <3>1. day * DaySecs \in Int
      BY <1>1
    <3> DEFINE a == day * DaySecs
    <3> HIDE DEF a
    <3>2. a \in Int
      BY <3>1 DEF a
    <3>3. /\ a \div DaySecs >= day <=> a >= day * DaySecs
          /\ a \div DaySecs >= day + 1 <=> a >= (day + 1) * DaySecs
          /\ a \div DaySecs \in Int
      BY <1>1, <3>2, Quotient, QuotientAtLeast
    <3> QED
      BY <3>1, <3>3 DEF a
  <2>2. (day + 1) * DaySecs = day * DaySecs + DaySecs
    BY <1>1
  <2>3. (day * DaySecs) \div DaySecs = day
    BY <1>1, <2>1, <2>2
  <2> QED
    BY <1>2, <2>3 DEF Day
<1>5. ASSUME NEW n \in Int
      PROVE  AddDate(Midnight(day, zone), n, zone) = Midnight(day + n, zone)
  <2>1. day * DaySecs + n * DaySecs = (day + n) * DaySecs
    BY <1>1
  <2> QED
    BY <1>2, <2>1 DEF AddDate, Midnight
<1> QED
  BY <1>2, <1>3, <1>4, <1>5

-----------------------------------------------------------------------------
(* Sorting.                                                                *)

(* Of any indices there is a first one.                                    *)
LEMMA FirstExists ==
  ASSUME NEW n \in Nat, NEW S \in SUBSET (0..n), S # {}
  PROVE  \E x \in S : \A y \in S : x <= y
<1> DEFINE f == [x \in S |-> n - x]
<1>1. IsFiniteSet(0..n)
  BY FS_Interval
<1>2. IsFiniteSet(S)
  BY <1>1, FS_Subset
<1>3. \A x \in S : x \in Int /\ f[x] = n - x /\ f[x] \in Nat
  OBVIOUS
<1> HIDE DEF f
<1>4. \E x \in S : \A y \in S : f[y] <= f[x]
  BY <1>2, <1>3, LargestValue
<1> QED
  BY <1>3, <1>4

LEMMA AscendingFacts ==
  ASSUME NEW S \in SUBSET Int, IsFiniteSet(S)
  PROVE  LET s == Ascending(S)
             n == Cardinality(S)
         IN  /\ n \in Nat /\ s \in [1..n -> S]
             /\ \A i, j \in 1..n : i < j => s[i] < s[j]
             /\ \A x \in S : \E i \in 1..n : s[i] = x
<1> DEFINE s == Ascending(S)
           n == Cardinality(S)
           Below(x) == {y \in S : y < x}
           rank == [x \in S |-> Cardinality(Below(x))]
<1>1. n \in Nat
  BY FS_CardinalityType
<1>2. \A x \in S : IsFiniteSet(Below(x)) /\ Cardinality(Below(x)) \in Nat
  BY FS_Subset, FS_CardinalityType
<1>3. ASSUME NEW x \in S PROVE rank[x] \in 0..(n - 1)
  <2>1. Below(x) \in SUBSET S /\ Below(x) # S
    OBVIOUS
  <2> HIDE DEF Below
  <2>2. Cardinality(Below(x)) < n
    <3>1. Cardinality(Below(x)) <= n /\ Cardinality(Below(x)) # n
      BY <2>1, FS_Subset
    <3> HIDE DEF n
    <3> QED
      BY <1>1, <1>2, <3>1
  <2>3. rank[x] = Cardinality(Below(x))
    OBVIOUS
  <2> HIDE DEF rank, n
  <2> QED
    BY <1>1, <1>2, <2>2, <2>3
<1>4. ASSUME NEW x \in S, NEW z \in S, x < z PROVE rank[x] < rank[z]
  <2>1. Below(x) \in SUBSET Below(z) /\ Below(x) # Below(z)
    <3>1. x \in Int /\ z \in Int /\ \A y \in S : y \in Int
      OBVIOUS
    <3>2. \A y \in S : y < x => y < z
      BY <1>4, <3>1
    <3>3. x \in Below(z) /\ x \notin Below(x)
      BY <1>4, <3>1
    <3> QED
      BY <3>2, <3>3
  <2>2. rank[x] = Cardinality(Below(x)) /\ rank[z] = Cardinality(Below(z))
    OBVIOUS
  <2> HIDE DEF Below, rank
  <2>3. IsFiniteSet(Below(z)) /\ Cardinality(Below(z)) \in Nat /\ Cardinality(Below(x)) \in Nat
    BY <1>2
  <2>4. Cardinality(Below(x)) < Cardinality(Below(z))
    <3>1. Cardinality(Below(x)) <= Cardinality(Below(z)) /\ Cardinality(Below(x)) # Cardinality(Below(z))
      BY <2>1, <2>3, FS_Subset
    <3> QED
      BY <2>3, <3>1
  <2> QED
    BY <2>2, <2>4
<1>5. rank \in Injection(S, 0..(n - 1))
  <2>1. rank \in [S -> 0..(n - 1)]
    <3>1. rank = [x \in S |-> rank[x]]
      OBVIOUS
    <3> HIDE DEF rank, n
    <3> QED
      BY <1>3, <3>1
  <2>2. \A x, z \in S : rank[x] = rank[z] => x = z
    <3> SUFFICES ASSUME NEW x \in S, NEW z \in S, x # z PROVE rank[x] # rank[z]
      OBVIOUS
    <3>1. rank[x] \in Int /\ rank[z] \in Int /\ x \in Int /\ z \in Int
      <4> HIDE DEF rank, n
      <4> QED
        BY <1>1, <1>3
    <3> HIDE DEF rank
    <3>2. x < z \/ z < x
      BY <3>1
    <3> QED
      BY <1>4, <3>1, <3>2
  <2> HIDE DEF rank, n
  <2> QED
    BY <2>1, <2>2 DEF Injection, IsInjective
<1>6. Cardinality(0..(n - 1)) = n /\ IsFiniteSet(0..(n - 1))
  <2> HIDE DEF n
  <2>1. IsFiniteSet(0..(n - 1)) /\ Cardinality(0..(n - 1)) = IF 0 > n - 1 THEN 0 ELSE (n - 1) - 0 + 1
    BY <1>1, FS_Interval
  <2> QED
    BY <1>1, <2>1
<1>7. rank \in Surjection(S, 0..(n - 1))
  <2> DEFINE N == 0..(n - 1)
  <2>1. rank \in Injection(S, N) /\ Cardinality(S) = Cardinality(N) /\ IsFiniteSet(N)
    BY <1>5, <1>6
  <2> HIDE DEF rank, N
  <2>2. rank \in Surjection(S, N)
    BY <2>1, FS_Injection
  <2> QED
    BY <2>2 DEF N
<1>8. \A k \in 0..(n - 1) : \E x \in S : rank[x] = k
  BY <1>7 DEF Surjection
<1>9. DOMAIN s = 1..n /\ \A i \in 1..n : s[i] = CHOOSE x \in S : rank[x] = i - 1
  <2>1. \A i \in 1..n : s[i] = CHOOSE x \in S : Cardinality(Below(x)) = i - 1
    BY DEF Ascending
  <2>2. \A i \in 1..n : (CHOOSE x \in S : Cardinality(Below(x)) = i - 1)
                          = CHOOSE x \in S : rank[x] = i - 1
    OBVIOUS
  <2> QED
    BY <2>1, <2>2 DEF Ascending
<1> HIDE DEF rank
<1>10. \A i \in 1..n : s[i] \in S /\ rank[s[i]] = i - 1
  <2> SUFFICES ASSUME NEW i \in 1..n PROVE s[i] \in S /\ rank[s[i]] = i - 1
    OBVIOUS
  <2>1. i - 1 \in 0..(n - 1)
    <3> HIDE DEF n
    <3> QED
      BY <1>1
  <2>2. \E x \in S : rank[x] = i - 1
    BY <1>8, <2>1
  <2> HIDE DEF s
  <2> QED
    BY <1>9, <2>2
<1>11. s \in [1..n -> S]
  <2>1. s = [i \in 1..n |-> s[i]]
    BY DEF Ascending
  <2> HIDE DEF s
  <2> QED
    BY <1>10, <2>1
<1> HIDE DEF s, n
<1>12. ASSUME NEW i \in 1..n, NEW j \in 1..n, i < j PROVE s[i] < s[j]
  <2>1. s[i] \in Int /\ s[j] \in Int /\ rank[s[i]] = i - 1 /\ rank[s[j]] = j - 1
    BY <1>10
  <2>2. i \in Int /\ j \in Int
    BY <1>1
  <2>3. s[i] # s[j]
    BY <1>12, <2>1, <2>2
  <2>4. ~(s[j] < s[i])
    <3>1. s[j] < s[i] => rank[s[j]] < rank[s[i]]
      BY <1>4, <1>10
    <3> QED
      BY <1>12, <2>1, <2>2, <3>1
  <2> QED
    BY <2>1, <2>3, <2>4
<1>13. ASSUME NEW x \in S PROVE \E i \in 1..n : s[i] = x
  <2> DEFINE i == rank[x] + 1
             z == s[i]
  <2>1. rank[x] \in 0..(n - 1)
    BY <1>3
  <2>2. i \in 1..n /\ i - 1 = rank[x] /\ rank[x] \in Int
    BY <1>1, <2>1
  <2> HIDE DEF i
  <2>3. z \in S /\ rank[z] = i - 1
    BY <1>10, <2>2
  <2>4. z = x
    <3> HIDE DEF z
    <3>1. z \in Int /\ x \in Int
      BY <2>3
    <3>2. ~(x < z)
      <4>1. x < z => rank[x] < rank[z]
        BY <1>4, <2>3
      <4> QED
        BY <2>2, <2>3, <4>1
    <3>3. ~(z < x)
      <4>1. z < x => rank[z] < rank[x]
        BY <1>4, <2>3
      <4> QED
        BY <2>2, <2>3, <4>1
    <3> QED
      BY <3>1, <3>2, <3>3
  <2> QED
    BY <2>2, <2>4
<1> QED
  BY <1>1, <1>11, <1>12, <1>13 DEF s, n

-----------------------------------------------------------------------------
(* Streaks.  The days of the sorted midnights.                             *)
DaysOf(A, zone) == [i \in DOMAIN Dates(A, zone) |-> Day(Dates(A, zone)[i], zone)]

LEMMA DaysOfDates ==
  ASSUME NEW zone, Zone(zone), NEW A \in SUBSET Int, IsFiniteSet(A), A # {}
  PROVE  LET dates == Dates(A, zone)
             days == DaysOf(A, zone)
         IN  \E n \in Nat \ {0} :
               /\ DOMAIN dates = 1..n /\ days \in [1..n -> A]
               /\ \A i \in 1..n : dates[i] = Midnight(days[i], zone)
               /\ \A i, j \in 1..n : i < j => days[i] < days[j]
               /\ \A d \in A : \E i \in 1..n : days[i] = d
<1> DEFINE at == [day \in A |-> Midnight(day, zone)]
           S == {Midnight(day, zone) : day \in A}
           n == Cardinality(S)
           dates == Dates(A, zone)
           days == DaysOf(A, zone)
<1>1. \A d \in A : d \in Int /\ Midnight(d, zone) \in Int /\ Day(Midnight(d, zone), zone) = d
  BY Midnights
<1>2. S \in SUBSET Int /\ IsFiniteSet(S) /\ S # {}
  <2>1. S = {at[day] : day \in A}
    OBVIOUS
  <2>2. IsFiniteSet({at[day] : day \in A})
    <3> HIDE DEF at
    <3> QED
      BY FunctionImageFinite
  <2> QED
    BY <1>1, <2>1, <2>2
<1>3. dates = Ascending(S)
  BY DEF Dates
<1>4. /\ n \in Nat /\ dates \in [1..n -> S]
      /\ \A i, j \in 1..n : i < j => dates[i] < dates[j]
      /\ \A x \in S : \E i \in 1..n : dates[i] = x
  <2> HIDE DEF S, dates
  <2> QED
    BY <1>2, <1>3, AscendingFacts
<1>5. n # 0
  <2> HIDE DEF n
  <2>1. PICK x \in S : TRUE
    BY <1>2
  <2>2. \E i \in 1..n : dates[i] = x
    BY <1>4, <2>1
  <2> QED
    BY <1>4, <2>2
<1> HIDE DEF dates, n
<1>6. DOMAIN days = 1..n /\ \A i \in 1..n : days[i] = Day(dates[i], zone)
  BY <1>4 DEF DaysOf, dates
<1> HIDE DEF days
<1>7. ASSUME NEW i \in 1..n PROVE days[i] \in A /\ dates[i] = Midnight(days[i], zone)
  <2>1. PICK d \in A : dates[i] = Midnight(d, zone)
    BY <1>4
  <2>2. days[i] = d
    BY <1>1, <1>6, <2>1
  <2> QED
    BY <2>1, <2>2
<1>8. days \in [1..n -> A]
  <2>1. days = [i \in 1..n |-> days[i]]
    BY <1>6 DEF days, DaysOf
  <2> QED
    BY <1>7, <2>1
<1>9. ASSUME NEW i \in 1..n, NEW j \in 1..n, i < j PROVE days[i] < days[j]
  <2>1. days[i] \in A /\ days[j] \in A /\ days[i] \in Int /\ days[j] \in Int
    BY <1>7
  <2>2. /\ Day(dates[j], zone) >= days[i] <=> dates[j] >= Midnight(days[i], zone)
        /\ Day(dates[i], zone) >= days[j] <=> dates[i] >= Midnight(days[j], zone)
        /\ dates[i] \in Int /\ dates[j] \in Int
    BY <1>7, <2>1, Midnights
  <2>3. dates[i] = Midnight(days[i], zone) /\ dates[j] = Midnight(days[j], zone)
    BY <1>7
  <2>4. dates[i] < dates[j]
    BY <1>4, <1>9
  <2>5. ~(days[i] >= days[j])
    BY <1>6, <2>2, <2>3, <2>4
  <2> QED
    BY <2>1, <2>5
<1>10. ASSUME NEW d \in A PROVE \E i \in 1..n : days[i] = d
  <2>1. PICK i \in 1..n : dates[i] = Midnight(d, zone)
    BY <1>4
  <2>2. days[i] = d
    BY <1>1, <1>6, <2>1
  <2> QED
    BY <2>2
<1> QED
  BY <1>4, <1>5, <1>7, <1>8, <1>9, <1>10 DEF dates, days

(* The recursion by which cur and runStart go from date to date has a      *)
(* solution.                                                               *)
LEMMA RunStartStep ==
  ASSUME NEW zone, NEW n \in Nat, NEW dates, DOMAIN dates = 1..n, NEW i \in 1..n
  PROVE  RunStart(dates, zone)[i]
           = IF i > 1 /\ Follows(dates[i - 1], dates[i], zone)
             THEN RunStart(dates, zone)[i - 1] ELSE i
<1> DEFINE F(j) == j > 1 /\ Follows(dates[j - 1], dates[j], zone)
           Is(start) == start = [j \in 1..n |-> IF F(j) THEN start[j - 1] ELSE j]
           J(j) == {k \in 1..j : ~F(k)}
           st == [j \in 1..n |-> CHOOSE k \in J(j) : \A l \in J(j) : k >= l]
<1>1. RunStart(dates, zone) = CHOOSE start : Is(start)
  BY DEF RunStart
<1>2. ASSUME NEW j \in 1..n PROVE st[j] = IF F(j) THEN st[j - 1] ELSE j
  <2>1. CASE F(j)
    <3>1. j - 1 \in 1..n /\ J(j) = J(j - 1)
      <4>1. j - 1 \in 1..n /\ 1..j = 1..(j - 1) \cup {j}
        BY <2>1
      <4> QED
        BY <2>1, <4>1
    <3> HIDE DEF J, F
    <3> QED
      BY <2>1, <3>1
  <2>2. CASE ~F(j)
    <3>1. j \in J(j) /\ \A l \in J(j) : l \in Int /\ j >= l
      BY <2>2
    <3>2. \A k \in J(j) : k >= j => k = j
      BY <3>1
    <3> HIDE DEF J, F
    <3>3. (CHOOSE k \in J(j) : \A l \in J(j) : k >= l) = j
      BY <3>1, <3>2
    <3> QED
      BY <2>2, <3>3
  <2> QED
    BY <2>1, <2>2
<1>3. Is(st)
  <2>1. st = [j \in 1..n |-> st[j]]
    OBVIOUS
  <2> HIDE DEF st, F
  <2> QED
    BY <1>2, <2>1
<1>4. Is(RunStart(dates, zone))
  <2> HIDE DEF Is, st
  <2> QED
    BY <1>1, <1>3
<1> HIDE DEF F
<1>5. RunStart(dates, zone)[i] = IF F(i) THEN RunStart(dates, zone)[i - 1] ELSE i
  BY <1>4
<1> QED
  BY <1>5 DEF F

(* The days of a set, in order.                                            *)
InOrder(days, n, A) ==
  /\ days \in [1..n -> A]
  /\ \A i, j \in 1..n : i < j => days[i] < days[j]
  /\ \A d \in A : \E i \in 1..n : days[i] = d

(* The run that ends at the i-th day begins at its start, and there is no  *)
(* day of the set before it.                                               *)
RunsTo(days, A, s, i) ==
  /\ s \in 1..i /\ days[i] - days[s] = i - s
  /\ days[s]..days[i] \subseteq A /\ days[s] - 1 \notin A

(* AddDate(0, 0, 1) leads from a midnight to the next one and to no other. *)
LEMMA NextMidnight ==
  ASSUME NEW zone, Zone(zone), NEW c \in Int, NEW d \in Int
  PROVE  Midnight(d, zone) = AddDate(Midnight(c, zone), 1, zone) <=> d = c + 1
<1>1. c + 1 \in Int /\ 1 \in Int
  OBVIOUS
<1>2. AddDate(Midnight(c, zone), 1, zone) = Midnight(c + 1, zone)
  BY <1>1, Midnights
<1>3. Day(Midnight(d, zone), zone) = d
  BY Midnights
<1>4. Day(Midnight(c + 1, zone), zone) = c + 1
  BY <1>1, Midnights
<1> QED
  BY <1>2, <1>3, <1>4

LEMMA RunStarts ==
  ASSUME NEW zone, Zone(zone), NEW A \in SUBSET Int, NEW n \in Nat, NEW dates, NEW days,
         DOMAIN dates = 1..n, InOrder(days, n, A), \A i \in 1..n : dates[i] = Midnight(days[i], zone)
  PROVE  \A i \in 1..n : RunsTo(days, A, RunStart(dates, zone)[i], i)
<1>3. \A i \in 1..n : RunStart(dates, zone)[i]
                         = IF i > 1 /\ Follows(dates[i - 1], dates[i], zone)
                           THEN RunStart(dates, zone)[i - 1] ELSE i
  <2> SUFFICES ASSUME NEW i \in 1..n
               PROVE  RunStart(dates, zone)[i]
                         = IF i > 1 /\ Follows(dates[i - 1], dates[i], zone)
                           THEN RunStart(dates, zone)[i - 1] ELSE i
    OBVIOUS
  <2> QED
    BY RunStartStep, ZenonT(30)
<1> DEFINE start == RunStart(dates, zone)
           Bad == {i \in 1..n : ~RunsTo(days, A, start[i], i)}
<1>0. \A i \in 1..n : days[i] \in A /\ days[i] \in Int
  BY DEF InOrder
<1>1. ASSUME NEW i \in 1..n, \A j \in 1..n : j < i => RunsTo(days, A, start[j], j)
      PROVE  RunsTo(days, A, start[i], i)
  <2> DEFINE F == i > 1 /\ Follows(dates[i - 1], dates[i], zone)
  <2>1. start[i] = IF F THEN start[i - 1] ELSE i
    BY <1>3
  <2>2. ASSUME i > 1 PROVE Follows(dates[i - 1], dates[i], zone) <=> days[i] = days[i - 1] + 1
    <3>1. i - 1 \in 1..n
      BY <2>2
    <3>2. days[i - 1] \in Int /\ days[i] \in Int /\ days[i - 1] + 1 \in Int
      BY <1>0, <3>1
    <3>3. dates[i - 1] = Midnight(days[i - 1], zone) /\ dates[i] = Midnight(days[i], zone)
      BY <3>1
    <3> QED
      BY <3>2, <3>3, NextMidnight DEF Follows
  <2>3. CASE F
    <3>1. i - 1 \in 1..n /\ i - 1 < i /\ i > 1
      BY <2>3
    <3> DEFINE s == start[i - 1]
    <3>2. RunsTo(days, A, s, i - 1) /\ start[i] = s /\ days[i] = days[i - 1] + 1
      BY <1>1, <2>1, <2>2, <2>3, <3>1
    <3> HIDE DEF s, start
    <3>3. s \in 1..(i - 1) /\ days[i - 1] - days[s] = (i - 1) - s
          /\ days[s]..days[i - 1] \subseteq A /\ days[s] - 1 \notin A
      BY <3>2 DEF RunsTo
    <3>4. s \in 1..n /\ s \in 1..i
      BY <3>1, <3>3
    <3>5. days[s] \in Int /\ days[i - 1] \in Int /\ days[i] \in Int /\ days[i] \in A
      BY <1>0, <3>1, <3>4
    <3>6. days[i] - days[s] = i - s
      BY <3>2, <3>3, <3>4, <3>5
    <3>7. ASSUME NEW d \in days[s]..days[i] PROVE d \in A
      <4>1. d \in days[s]..days[i - 1] \/ d = days[i]
        BY <3>2, <3>5
      <4> QED
        BY <3>3, <3>5, <4>1
    <3> QED
      BY <3>2, <3>3, <3>4, <3>6, <3>7 DEF RunsTo
  <2>4. CASE ~F
    <3>1. start[i] = i
      BY <2>1, <2>4
    <3>2. ASSUME days[i] - 1 \in A PROVE FALSE
      <4>1. PICK j \in 1..n : days[j] = days[i] - 1
        BY <3>2 DEF InOrder
      <4>2. days[j] \in Int /\ days[i] \in Int
        BY <1>0
      <4>3. ~(i < j) /\ i # j
        <5>1. i < j => days[i] < days[j]
          BY DEF InOrder
        <5> QED
          BY <4>1, <4>2, <5>1
      <4>4. j < i /\ i > 1 /\ i - 1 \in 1..n
        BY <4>3
      <4>5. days[i - 1] \in Int /\ days[i - 1] < days[i] /\ (j < i - 1 => days[j] < days[i - 1])
        <5>1. i - 1 < i
          OBVIOUS
        <5> QED
          BY <1>0, <4>4, <5>1 DEF InOrder
      <4>6. j = i - 1
        BY <4>1, <4>2, <4>4, <4>5
      <4>7. days[i] = days[i - 1] + 1
        BY <4>1, <4>2, <4>5, <4>6
      <4> QED
        BY <2>2, <2>4, <4>4, <4>7
    <3>3. days[i]..days[i] \subseteq A
      <4>1. \A d \in days[i]..days[i] : d = days[i]
        BY <1>0
      <4> QED
        BY <1>0, <4>1
    <3>4. i \in 1..i /\ days[i] - days[i] = i - i
      <4>1. days[i] \in Int
        BY <1>0
      <4> QED
        BY <4>1
    <3> HIDE DEF start
    <3> QED
      BY <3>1, <3>2, <3>3, <3>4 DEF RunsTo
  <2> QED
    BY <2>3, <2>4
<1>2. ASSUME Bad # {} PROVE FALSE
  <2>1. Bad \in SUBSET (0..n)
    OBVIOUS
  <2>2. PICK i \in Bad : \A y \in Bad : i <= y
    <3> HIDE DEF Bad
    <3> QED
      BY <1>2, <2>1, FirstExists
  <2>3. \A j \in 1..n : j < i => RunsTo(days, A, start[j], j)
    <3> SUFFICES ASSUME NEW j \in 1..n, j < i PROVE j \notin Bad
      OBVIOUS
    <3>1. i \in Int /\ j \in Int
      OBVIOUS
    <3> HIDE DEF Bad
    <3> QED
      BY <2>2, <3>1
  <2>4. i \in 1..n /\ ~RunsTo(days, A, start[i], i)
    OBVIOUS
  <2> HIDE DEF Bad, start
  <2> QED
    BY <1>1, <2>3, <2>4
<1> QED
  BY <1>2

(* longestStreak and its dates, from the days of a set: the longest row of *)
(* days, the first one if there are several.                               *)
LEMMA LongestOfRuns ==
  ASSUME NEW A \in SUBSET Int, NEW n \in Nat, NEW days, InOrder(days, n, A),
         NEW start, \A i \in 1..n : RunsTo(days, A, start[i], i), NEW e \in 1..n,
         \A j \in 1..n : j - start[j] + 1 <= e - start[e] + 1,
         \A j \in 1..(e - 1) : j - start[j] + 1 < e - start[e] + 1
  PROVE  LET first == days[start[e]]
             last == days[e]
         IN  /\ first \in Int /\ last \in Int /\ first <= last /\ first..last \subseteq A
             /\ e - start[e] + 1 = last - first + 1
             /\ \A x, y \in A : x <= y /\ x..y \subseteq A =>
                  \/ y - x + 1 < last - first + 1
                  \/ y - x + 1 = last - first + 1 /\ first <= x
<1>0. \A i \in 1..n : /\ start[i] \in 1..n /\ days[i] \in Int /\ days[start[i]] \in Int
                      /\ start[i] <= i /\ days[i] - days[start[i]] = i - start[i]
  <2> SUFFICES ASSUME NEW i \in 1..n
               PROVE  /\ start[i] \in 1..n /\ days[i] \in Int /\ days[start[i]] \in Int
                      /\ start[i] <= i /\ days[i] - days[start[i]] = i - start[i]
    OBVIOUS
  <2>1. start[i] \in 1..i /\ days[i] - days[start[i]] = i - start[i]
    BY DEF RunsTo
  <2>2. start[i] \in 1..n /\ start[i] <= i
    BY <2>1
  <2>3. \A j \in 1..n : days[j] \in Int
    BY DEF InOrder
  <2> QED
    BY <2>1, <2>2, <2>3
<1>1. /\ days[start[e]] \in Int /\ days[e] \in Int /\ days[start[e]] <= days[e]
      /\ e - start[e] + 1 = days[e] - days[start[e]] + 1
  <2>1. start[e] \in 1..n /\ days[e] \in Int /\ days[start[e]] \in Int
        /\ start[e] <= e /\ days[e] - days[start[e]] = e - start[e]
    BY <1>0
  <2> QED
    BY <2>1
<1>2. days[start[e]]..days[e] \subseteq A
  BY DEF RunsTo
<1>3. ASSUME NEW x \in A, NEW y \in A, x <= y, x..y \subseteq A
      PROVE  \/ y - x + 1 < days[e] - days[start[e]] + 1
             \/ y - x + 1 = days[e] - days[start[e]] + 1 /\ days[start[e]] <= x
  <2>1. PICK j \in 1..n : days[j] = y
    BY DEF InOrder
  <2>2. start[j] \in 1..n /\ days[j] \in Int /\ days[start[j]] \in Int
        /\ start[j] <= j /\ days[j] - days[start[j]] = j - start[j] /\ x \in Int /\ y \in Int
    BY <1>0
  <2>3. days[start[j]] <= x
    <3>1. days[start[j]] - 1 \notin A
      BY DEF RunsTo
    <3>2. ~(x <= days[start[j]] - 1)
      <4>1. x <= days[start[j]] - 1 => days[start[j]] - 1 \in x..y
        BY <2>1, <2>2
      <4> QED
        BY <1>3, <3>1, <4>1
    <3> QED
      BY <2>2, <3>2
  <2>4. start[e] \in 1..n /\ days[e] \in Int /\ days[start[e]] \in Int
        /\ start[e] <= e /\ days[e] - days[start[e]] = e - start[e]
    BY <1>0
  <2>5. j - start[j] + 1 <= e - start[e] + 1
    OBVIOUS
  <2>6. y - x + 1 <= days[e] - days[start[e]] + 1
    BY <2>1, <2>2, <2>3, <2>4, <2>5
  <2>7. ASSUME y - x + 1 = days[e] - days[start[e]] + 1 PROVE days[start[e]] <= x
    <3>1. ~(j < e)
      <4>1. j < e => j \in 1..(e - 1)
        OBVIOUS
      <4>2. j \in 1..(e - 1) => j - start[j] + 1 < e - start[e] + 1
        OBVIOUS
      <4>3. j - start[j] + 1 >= e - start[e] + 1
        BY <2>1, <2>2, <2>3, <2>4, <2>7
      <4> QED
        BY <2>2, <2>4, <4>1, <4>2, <4>3
    <3>2. days[e] <= days[j]
      <4>1. e < j => days[e] < days[j]
        BY DEF InOrder
      <4>2. e = j \/ e < j
        BY <3>1
      <4> QED
        BY <2>2, <2>4, <4>1, <4>2
    <3> QED
      BY <2>1, <2>2, <2>4, <2>7, <3>2
  <2> QED
    BY <2>2, <2>4, <2>6, <2>7
<1> QED
  BY <1>1, <1>2, <1>3

(* The run that LongestRun takes exists.                                   *)
LEMMA LongestExists ==
  ASSUME NEW n \in Nat \ {0}, NEW start, \A i \in 1..n : start[i] \in 1..i
  PROVE  \E i \in 1..n : /\ \A j \in 1..n : j - start[j] + 1 <= i - start[i] + 1
                         /\ \A j \in 1..(i - 1) : j - start[j] + 1 < i - start[i] + 1
<1> DEFINE f == [i \in 1..n |-> i - start[i] + 1]
           S == {i \in 1..n : \A j \in 1..n : f[j] <= f[i]}
<1>1. \A i \in 1..n : f[i] = i - start[i] + 1 /\ f[i] \in Nat
  <2> SUFFICES ASSUME NEW i \in 1..n PROVE f[i] = i - start[i] + 1 /\ f[i] \in Nat
    OBVIOUS
  <2>1. start[i] \in 1..i
    OBVIOUS
  <2> QED
    BY <2>1
<1>2. IsFiniteSet(1..n) /\ 1..n # {}
  <2>1. 1 \in 1..n
    OBVIOUS
  <2> QED
    BY <2>1, FS_Interval
<1> HIDE DEF f
<1>3. \E i \in 1..n : \A j \in 1..n : f[j] <= f[i]
  BY <1>1, <1>2, LargestValue
<1>4. S # {} /\ S \in SUBSET (0..n)
  BY <1>3
<1>5. PICK i \in S : \A y \in S : i <= y
  <2> HIDE DEF S
  <2> QED
    BY <1>4, FirstExists
<1>6. i \in 1..n /\ \A j \in 1..n : f[j] <= f[i]
  OBVIOUS
<1>7. ASSUME NEW j \in 1..(i - 1) PROVE f[j] < f[i]
  <2>1. j \in 1..n /\ ~(i <= j)
    BY <1>6
  <2>2. j \notin S
    <3> HIDE DEF S
    <3> QED
      BY <1>5, <2>1
  <2>3. PICK k \in 1..n : ~(f[k] <= f[j])
    BY <2>1, <2>2
  <2>4. f[k] \in Nat /\ f[j] \in Nat /\ f[i] \in Nat /\ f[k] <= f[i]
    BY <1>1, <1>6, <2>1
  <2> QED
    BY <2>3, <2>4
<1>8. \A j \in 1..(i - 1) : j \in 1..n
  BY <1>6
<1> HIDE DEF S
<1> QED
  BY <1>1, <1>6, <1>7, <1>8

(* What LongestRun gives of a set of days, in any zone of quiet midnights. *)
LongestOf(run, A) ==
  /\ run.start \in Int /\ run.end \in Int /\ run.start <= run.end
  /\ run.start..run.end \subseteq A /\ run.length = run.end - run.start + 1
  /\ \A x, y \in A : x <= y /\ x..y \subseteq A =>
       \/ y - x + 1 < run.length
       \/ y - x + 1 = run.length /\ run.start <= x

LEMMA LongestRunIs ==
  ASSUME NEW zone, Zone(zone), NEW A \in SUBSET Int, IsFiniteSet(A), A # {}
  PROVE  LongestOf(LongestRun(A, zone), A)
<1> DEFINE dates == Dates(A, zone)
           days == DaysOf(A, zone)
           start == RunStart(dates, zone)
           Ends(i) == /\ \A j \in DOMAIN dates : j - start[j] + 1 <= i - start[i] + 1
                      /\ \A j \in 1..(i - 1) : j - start[j] + 1 < i - start[i] + 1
           e == CHOOSE i \in DOMAIN dates : Ends(i)
           run == LongestRun(A, zone)
<1>1. run = [length |-> e - start[e] + 1, start |-> Day(dates[start[e]], zone), end |-> Day(dates[e], zone)]
  BY DEF LongestRun
<1>2. PICK n \in Nat \ {0} :
        /\ DOMAIN dates = 1..n /\ InOrder(days, n, A)
        /\ \A i \in 1..n : dates[i] = Midnight(days[i], zone)
  BY DaysOfDates DEF InOrder
<1>3. \A i \in 1..n : days[i] = Day(dates[i], zone)
  BY <1>2 DEF DaysOf
<1> HIDE DEF days, dates
<1>4. \A i \in 1..n : RunsTo(days, A, start[i], i)
  BY <1>2, RunStarts
<1> HIDE DEF start
<1>5. \A i \in 1..n : start[i] \in 1..i
  BY <1>4 DEF RunsTo
<1>6. \E i \in 1..n : Ends(i)
  BY <1>2, <1>5, LongestExists
<1>7. e \in 1..n /\ Ends(e)
  <2> HIDE DEF Ends
  <2> QED
    BY <1>2, <1>6
<1> HIDE DEF e
<1> DEFINE first == days[start[e]]
           last == days[e]
<1>8. /\ first \in Int /\ last \in Int /\ first <= last /\ first..last \subseteq A
      /\ e - start[e] + 1 = last - first + 1
      /\ \A x, y \in A : x <= y /\ x..y \subseteq A =>
           \/ y - x + 1 < last - first + 1
           \/ y - x + 1 = last - first + 1 /\ first <= x
  BY <1>2, <1>4, <1>7, LongestOfRuns
<1>9. start[e] \in 1..n
  <2>1. start[e] \in 1..e
    BY <1>5, <1>7
  <2> QED
    BY <1>7, <2>1
<1>10. run.length = e - start[e] + 1 /\ run.start = first /\ run.end = last
  BY <1>1, <1>3, <1>7, <1>9
<1> HIDE DEF run, first, last
<1> QED
  BY <1>8, <1>10 DEF LongestOf, run

-----------------------------------------------------------------------------
(* Stepping back from a midnight by days gives the midnights before it.    *)
LEMMA StepsBack ==
  ASSUME NEW zone, Zone(zone), NEW d \in Int, NEW N \in Nat,
         NEW at, at = CHOOSE g : g = [n \in 0..N |->
           IF n = 0 THEN Midnight(d, zone) ELSE AddDate(g[n - 1], -1, zone)]
  PROVE  \A n \in 0..N : at[n] = Midnight(d - n, zone)
<1> DEFINE Is(g) == g = [n \in 0..N |->
                          IF n = 0 THEN Midnight(d, zone) ELSE AddDate(g[n - 1], -1, zone)]
           h == [n \in 0..N |-> Midnight(d - n, zone)]
           Bad == {n \in 0..N : at[n] # Midnight(d - n, zone)}
<1>0. ASSUME NEW n \in 0..N, n # 0
      PROVE  n - 1 \in 0..N /\ AddDate(Midnight(d - (n - 1), zone), -1, zone) = Midnight(d - n, zone)
  <2>1. d - (n - 1) \in Int /\ -1 \in Int /\ (d - (n - 1)) + (-1) = d - n /\ n - 1 \in 0..N
    BY <1>0
  <2>2. AddDate(Midnight(d - (n - 1), zone), -1, zone) = Midnight((d - (n - 1)) + (-1), zone)
    BY <2>1, Midnights
  <2> QED
    BY <2>1, <2>2
<1>1. Is(h)
  <2>1. ASSUME NEW n \in 0..N
        PROVE  h[n] = IF n = 0 THEN Midnight(d, zone) ELSE AddDate(h[n - 1], -1, zone)
    <3>1. CASE n = 0
      <4>1. d - n = d
        BY <3>1
      <4> QED
        BY <3>1, <4>1
    <3>2. CASE n # 0
      BY <1>0, <3>2
    <3> QED
      BY <3>1, <3>2
  <2>2. h = [n \in 0..N |-> h[n]]
    OBVIOUS
  <2> HIDE DEF h
  <2> QED
    BY <2>1, <2>2
<1>2. Is(at)
  <2> HIDE DEF Is
  <2>1. at = CHOOSE g : Is(g)
    BY DEF Is
  <2> QED
    BY <1>1, <2>1
<1>3. ASSUME Bad # {} PROVE FALSE
  <2>1. Bad \in SUBSET (0..N)
    OBVIOUS
  <2>2. PICK n \in Bad : \A y \in Bad : n <= y
    <3> HIDE DEF Bad
    <3> QED
      BY <1>3, <2>1, FirstExists
  <2>3. n \in 0..N /\ at[n] # Midnight(d - n, zone)
    OBVIOUS
  <2>4. n # 0
    <3>1. 0 \in 0..N /\ d - 0 = d
      OBVIOUS
    <3>2. at[0] = Midnight(d, zone)
      BY <1>2, <3>1
    <3> QED
      BY <2>3, <3>1, <3>2
  <2>5. n - 1 \in 0..N /\ ~(n <= n - 1)
    BY <2>3, <2>4
  <2>6. n - 1 \notin Bad
    <3> HIDE DEF Bad
    <3> QED
      BY <2>2, <2>5
  <2>7. at[n - 1] = Midnight(d - (n - 1), zone)
    BY <2>5, <2>6
  <2>8. at[n] = AddDate(at[n - 1], -1, zone)
    BY <1>2, <2>3, <2>4
  <2> QED
    BY <1>0, <2>3, <2>4, <2>7, <2>8
<1> QED
  BY <1>3

(* Counting back from day d ends at the first day that is not in the set.  *)
LEMMA RunBackIs ==
  ASSUME NEW zone, Zone(zone), NEW A \in SUBSET Int, IsFiniteSet(A), NEW d \in Int
  PROVE  LET r == RunBack(A, Midnight(d, zone), zone)
         IN  /\ r \in Nat /\ (d - r + 1)..d \subseteq A /\ d - r \notin A
<1> DEFINE N == Cardinality(A)
           t == Midnight(d, zone)
           at == CHOOSE g : g = [n \in 0..N |-> IF n = 0 THEN t ELSE AddDate(g[n - 1], -1, zone)]
           S == {n \in 0..N : Day(at[n], zone) \notin A} \cup {N}
           r == RunBack(A, t, zone)
<1>1. N \in Nat
  BY FS_CardinalityType
<1>2. r = Min(S)
  BY DEF RunBack
<1>3. \A n \in 0..N : at[n] = Midnight(d - n, zone)
  <2> HIDE DEF N
  <2> QED
    BY <1>1, StepsBack
<1> HIDE DEF at
<1>4. \A n \in 0..N : Day(at[n], zone) = d - n
  <2> SUFFICES ASSUME NEW n \in 0..N PROVE Day(at[n], zone) = d - n
    OBVIOUS
  <2>1. d - n \in Int
    BY <1>1
  <2> QED
    BY <1>3, <2>1, Midnights
<1>5. S = {n \in 0..N : d - n \notin A} \cup {N}
  BY <1>4
<1>6. S \in SUBSET (0..N) /\ S # {}
  BY <1>1
<1>7. r \in S /\ \A y \in S : r <= y
  <2> HIDE DEF S, N
  <2>1. \E x \in S : \A y \in S : x <= y
    BY <1>1, <1>6, FirstExists
  <2> QED
    BY <1>2, <2>1 DEF Min
<1> HIDE DEF r, S
<1>8. r \in 0..N /\ r \in Nat
  BY <1>1, <1>6, <1>7
<1>9. ASSUME NEW n \in 0..(r - 1) PROVE d - n \in A
  <2>1. n \in 0..N /\ ~(r <= n)
    BY <1>1, <1>8
  <2>2. n \notin S
    BY <1>7, <2>1
  <2> QED
    BY <1>5, <2>1, <2>2
<1>10. (d - r + 1)..d \subseteq A
  <2> SUFFICES ASSUME NEW x \in (d - r + 1)..d PROVE x \in A
    OBVIOUS
  <2>1. d - x \in 0..(r - 1) /\ d - (d - x) = x
    BY <1>8
  <2> QED
    BY <1>9, <2>1
<1>11. d - r \notin A
  <2>1. CASE r \in {n \in 0..N : d - n \notin A}
    BY <2>1
  <2>2. CASE r = N
    <3> SUFFICES ASSUME d - r \in A PROVE FALSE
      OBVIOUS
    <3> DEFINE low == d - r
    <3>1. low \in Int /\ low..d \in SUBSET A
      <4> SUFFICES ASSUME NEW x \in low..d PROVE low \in Int /\ x \in A
        BY <1>8
      <4>1. x = d - r \/ x \in (d - r + 1)..d
        BY <1>8
      <4> QED
        BY <1>8, <1>10, <4>1
    <3>2. Cardinality(low..d) <= Cardinality(A)
      BY <3>1, FS_Subset
    <3>3. Cardinality(low..d) = IF low > d THEN 0 ELSE d - low + 1
      <4> HIDE DEF low
      <4> QED
        BY <3>1, FS_Interval
    <3>4. Cardinality(low..d) = r + 1
      BY <1>8, <3>3
    <3> QED
      BY <1>8, <2>2, <3>2, <3>4
  <2> QED
    BY <1>5, <1>7, <2>1, <2>2
<1> QED
  BY <1>8, <1>10, <1>11 DEF r

LEMMA SmallerOf ==
  ASSUME NEW x \in Int, NEW y \in Int
  PROVE  Min({x, y}) = IF x <= y THEN x ELSE y
<1>1. ASSUME NEW a \in Int, NEW b \in Int, b <= a PROVE Min({a, b}) = b
  <2>1. b \in {a, b} /\ (\A z \in {a, b} : b <= z)
        /\ \A w \in {a, b} : (\A z \in {a, b} : w <= z) => w = b
    BY <1>1
  <2> QED
    BY <2>1 DEF Min
<1>2. CASE x <= y
  <2>1. {x, y} = {y, x} /\ Min({y, x}) = x
    BY <1>1, <1>2
  <2> QED
    BY <1>2, <2>1
<1>3. CASE ~(x <= y)
  <2>1. y <= x
    BY <1>3
  <2> QED
    BY <1>1, <1>3, <2>1
<1> QED
  BY <1>2, <1>3

(* Of two days, the earlier one is the day of the earlier of a time and a  *)
(* midnight.                                                               *)
LEMMA EarlierDay ==
  ASSUME NEW zone, Zone(zone), NEW t \in Int, NEW d \in Int
  PROVE  LET ref == Min({t, Midnight(d, zone)})
             day == Min({Day(t, zone), d})
         IN  ref \in Int /\ day \in Int /\ Day(ref, zone) = day
<1> DEFINE m == Midnight(d, zone)
           e == Day(t, zone)
<1>1. m \in Int /\ e \in Int /\ Day(m, zone) = d /\ (e >= d <=> t >= m)
  BY Midnights
<1>2. Min({t, m}) = (IF t <= m THEN t ELSE m) /\ Min({e, d}) = (IF e <= d THEN e ELSE d)
  BY <1>1, SmallerOf
<1> HIDE DEF m, e
<1>4. Min({t, m}) \in Int /\ Min({e, d}) \in Int
  BY <1>1, <1>2
<1>5. Day(Min({t, m}), zone) = Min({e, d})
  <2>1. CASE e >= d
    <3>1. Min({t, m}) = m /\ Min({e, d}) = d
      BY <1>1, <1>2, <2>1
    <3> QED
      BY <1>1, <3>1
  <2>2. CASE ~(e >= d)
    <3>1. Min({t, m}) = t /\ Min({e, d}) = e
      BY <1>1, <1>2, <2>2
    <3> QED
      BY <3>1 DEF e
  <2> QED
    BY <2>1, <2>2
<1> QED
  BY <1>4, <1>5 DEF m, e

(* currentStreak counts back from the last day that may count, or from the *)
(* day before.                                                             *)
LEMMA CurrentRunIs ==
  ASSUME NEW zone, Zone(zone), NEW A \in SUBSET Int, IsFiniteSet(A), NEW y \in Int, NEW t \in Int
  PROVE  LET last == Min({Day(t, zone), FirstDay(y + 1) - 1})
             end == IF last \in A THEN last ELSE last - 1
             r == CurrentRun(A, y, t, zone)
         IN  /\ end \in Int /\ r \in Nat
             /\ (end - r + 1)..end \subseteq A /\ end - r \notin A
<1> DEFINE d == FirstDay(y + 1) - 1
           last == Min({Day(t, zone), d})
           set == {Day(Midnight(day, zone), zone) : day \in A}
           ref == Min({t, Midnight(d, zone)})
           check == Midnight(Day(ref, zone), zone)
           run == RunBack(set, check, zone)
           r == CurrentRun(A, y, t, zone)
<1>1. set = A
  <2>1. \A day \in A : Day(Midnight(day, zone), zone) = day
    BY Midnights
  <2> QED
    BY <2>1
<1>2. d \in Int
  <2>1. y + 1 \in Int
    OBVIOUS
  <2>2. FirstDay(y + 1) \in Int
    BY <2>1, YearAtLeast
  <2> QED
    BY <2>2
<1>3. r = IF run > 0 THEN run ELSE RunBack(set, AddDate(check, -1, zone), zone)
  BY DEF CurrentRun
<1> HIDE DEF d
<1>4. last \in Int /\ Day(ref, zone) = last
  BY <1>2, EarlierDay
<1> HIDE DEF last, ref
<1>5. check = Midnight(last, zone) /\ AddDate(check, -1, zone) = Midnight(last - 1, zone)
      /\ last - 1 \in Int
  <2>1. -1 \in Int /\ last + (-1) = last - 1 /\ last - 1 \in Int
    BY <1>4
  <2>2. AddDate(Midnight(last, zone), -1, zone) = Midnight(last + (-1), zone)
    BY <1>4, <2>1, Midnights
  <2> QED
    BY <1>4, <2>1, <2>2
<1> DEFINE b == RunBack(A, Midnight(last, zone), zone)
           c == RunBack(A, Midnight(last - 1, zone), zone)
<1>6. b \in Nat /\ (last - b + 1)..last \subseteq A /\ last - b \notin A
  BY <1>4, RunBackIs
<1>7. c \in Nat /\ ((last - 1) - c + 1)..(last - 1) \subseteq A /\ (last - 1) - c \notin A
  BY <1>5, RunBackIs
<1>8. r = IF b > 0 THEN b ELSE c
  BY <1>1, <1>3, <1>5
<1> HIDE DEF b, c, r
<1>9. b > 0 <=> last \in A
  <2>1. b > 0 => last \in (last - b + 1)..last
    BY <1>4, <1>6
  <2>2. b = 0 => last - b = last
    BY <1>4
  <2> QED
    BY <1>6, <2>1, <2>2
<1>10. LET end == IF last \in A THEN last ELSE last - 1
       IN  end \in Int /\ r \in Nat /\ (end - r + 1)..end \subseteq A /\ end - r \notin A
  BY <1>4, <1>5, <1>6, <1>7, <1>8, <1>9
<1> QED
  BY <1>10 DEF r, last, d

-----------------------------------------------------------------------------
(* What holds of the state of Streaks.                                     *)
StreaksType ==
  /\ tz \in Zones /\ shown \in Int /\ asked \in DOMAIN Times
  /\ IsFiniteSet(DOMAIN daily)
  /\ \A day \in DOMAIN daily : day \in Int /\ Year(day) = shown /\ daily[day] \in Nat

LEMMA InitStreaksType == StreaksInit => StreaksType
<1> SUFFICES ASSUME StreaksInit PROVE StreaksType
  OBVIOUS
<1>1. tz \in Zones /\ shown \in Int /\ asked = 1 /\ daily = <<>>
  BY StreaksAssumption DEF StreaksInit
<1>2. DOMAIN daily = {}
  BY <1>1
<1>3. 1 \in DOMAIN Times
  BY StreaksAssumption
<1> QED
  BY <1>1, <1>2, <1>3, FS_EmptySet DEF StreaksType

LEMMA NextStreaksType == StreaksType /\ [StreaksNext]_streakVars => StreaksType'
<1> SUFFICES ASSUME StreaksType, [StreaksNext]_streakVars PROVE StreaksType'
  OBVIOUS
<1>1. CASE Walk
  <2>1. PICK d \in Days, meters \in Walks :
          LET day == FirstDay(shown) + d
              was == IF day \in DOMAIN daily THEN daily[day] ELSE 0
          IN  /\ was + meters <= MaxMeters
              /\ daily' = [x \in DOMAIN daily \cup {day} |->
                           IF x = day THEN was + meters ELSE daily[x]]
    BY <1>1 DEF Walk
  <2> DEFINE day == FirstDay(shown) + d
             had == IF day \in DOMAIN daily THEN daily[day] ELSE 0
  <2>2. d \in 0..(YearDays - 1) /\ meters \in Nat /\ YearDays \in Nat \ {0}
    BY StreaksAssumption, YearHasDays
  <2>3. shown \in Int /\ FirstDay(shown) \in Int /\ shown + 1 \in Int
    BY YearAtLeast DEF StreaksType
  <2>4. day \in Int /\ FirstDay(shown) <= day
    BY <2>2, <2>3
  <2>5. FirstDay(shown + 1) = FirstDay(shown) + YearDays
    BY <2>2, <2>3 DEF FirstDay
  <2>6. ~(FirstDay(shown + 1) <= day)
    BY <2>2, <2>3, <2>5
  <2> HIDE DEF day
  <2>7. /\ Year(day) \in Int /\ (Year(day) >= shown <=> day >= FirstDay(shown))
        /\ Year(day) >= shown + 1 <=> day >= FirstDay(shown + 1)
        /\ FirstDay(shown + 1) \in Int
    BY <2>3, <2>4, YearAtLeast
  <2>8. Year(day) = shown
    BY <2>3, <2>4, <2>6, <2>7
  <2>9. had + meters \in Nat
    <3>1. had \in Nat
      BY DEF StreaksType
    <3> QED
      BY <2>2, <3>1
  <2>10. DOMAIN daily' = DOMAIN daily \cup {day}
    BY <2>1 DEF day
  <2>11. \A x \in DOMAIN daily' : daily'[x] = IF x = day THEN had + meters ELSE daily[x]
    BY <2>1 DEF day
  <2>12. IsFiniteSet(DOMAIN daily')
    BY <2>10, FS_AddElement DEF StreaksType
  <2> HIDE DEF had
  <2>13. \A x \in DOMAIN daily' : x \in Int /\ Year(x) = shown /\ daily'[x] \in Nat
    BY <2>4, <2>8, <2>9, <2>10, <2>11 DEF StreaksType
  <2>14. UNCHANGED <<tz, shown, asked>>
    BY <1>1 DEF Walk
  <2> QED
    BY <2>12, <2>13, <2>14 DEF StreaksType
<1>2. CASE TimePasses
  <2>1. asked < Len(Times) /\ asked' = asked + 1 /\ UNCHANGED <<tz, shown, daily>>
    BY <1>2 DEF TimePasses
  <2>2. asked' \in DOMAIN Times
    <3>1. DOMAIN Times = 1..Len(Times) /\ Len(Times) \in Nat /\ asked \in DOMAIN Times
      BY StreaksAssumption DEF StreaksType
    <3> QED
      BY <2>1, <3>1
  <2> QED
    BY <2>1, <2>2 DEF StreaksType
<1>3. CASE UNCHANGED streakVars
  BY <1>3 DEF streakVars, StreaksType
<1> QED
  BY <1>1, <1>2, <1>3 DEF StreaksNext

LEMMA ActiveFacts ==
  ASSUME StreaksType
  PROVE  /\ Active \in SUBSET Int /\ IsFiniteSet(Active) /\ Active \subseteq DOMAIN daily
         /\ ActiveDays(daily, shown) = Active
         /\ now \in Int /\ tz \in Seq([from : Int, offset : Int]) /\ tz # <<>>
<1>1. Active \in SUBSET (DOMAIN daily)
  BY DEF Active
<1>2. IsFiniteSet(Active) /\ Active \in SUBSET Int
  BY <1>1, FS_Subset DEF StreaksType
<1>3. ActiveDays(daily, shown) = Active
  BY DEF StreaksType, ActiveDays, Active
<1>4. now \in Int
  BY StreaksAssumption DEF StreaksType, now
<1> QED
  BY <1>1, <1>2, <1>3, <1>4, StreaksAssumption DEF StreaksType

LEMMA LongestIs == StreaksType /\ QuietMidnights(tz) => LongestIsLongest
<1> SUFFICES ASSUME StreaksType, QuietMidnights(tz), Active # {} PROVE LongestIsLongest
  BY DEF LongestIsLongest
<1> DEFINE h == Heatmap
           run == LongestRun(Active, tz)
<1>1. Zone(tz)
  BY ActiveFacts DEF Zone
<1>2. h.start = run.start /\ h.end = run.end /\ h.longest = run.length
  BY ActiveFacts DEF Heatmap, HeatmapFromDaily
<1>3. LongestOf(run, Active)
  BY <1>1, ActiveFacts, LongestRunIs
<1> HIDE DEF h, run
<1>4. /\ h.start <= h.end /\ h.start..h.end \subseteq Active /\ h.longest = h.end - h.start + 1
      /\ \A x, y \in Active : x <= y /\ x..y \subseteq Active =>
           \/ y - x + 1 < h.longest
           \/ y - x + 1 = h.longest /\ h.start <= x
  BY <1>2, <1>3 DEF LongestOf
<1> QED
  BY <1>4 DEF LongestIsLongest, h

LEMMA CurrentIs == StreaksType /\ QuietMidnights(tz) => CurrentIsCurrent
<1> SUFFICES ASSUME StreaksType, QuietMidnights(tz) PROVE CurrentIsCurrent
  OBVIOUS
<1> DEFINE last == Min({Day(now, tz), FirstDay(shown + 1) - 1})
           end == IF last \in Active THEN last ELSE last - 1
           r == CurrentRun(Active, shown, now, tz)
           c == Heatmap.current
<1>1. Zone(tz) /\ shown \in Int
  BY ActiveFacts DEF Zone, StreaksType
<1>2. end \in Int /\ r \in Nat /\ (end - r + 1)..end \subseteq Active /\ end - r \notin Active
  BY <1>1, ActiveFacts, CurrentRunIs
<1>3. CASE Active = {}
  <2>1. c = 0
    BY <1>3, ActiveFacts DEF Heatmap, HeatmapFromDaily, NoHeatmap
  <2> HIDE DEF c, end
  <2>2. c \in Nat /\ (end \notin Active => c = 0) /\ end \notin Active
    BY <1>3, <2>1
  <2>3. (end \in Active => (end - c + 1)..end \subseteq Active /\ end - c \notin Active)
    BY <2>2
  <2> QED
    BY <1>2, <2>2, <2>3 DEF CurrentIsCurrent, c, end
<1>4. CASE Active # {}
  <2>1. c = r
    BY <1>4, ActiveFacts DEF Heatmap, HeatmapFromDaily
  <2> HIDE DEF c, end, r
  <2>2. c \in Nat /\ (end - c + 1)..end \subseteq Active /\ end - c \notin Active
    BY <1>2, <2>1
  <2>3. end \notin Active => c = 0
    <3>1. c > 0 => end \in (end - c + 1)..end
      BY <1>2, <2>2
    <3> QED
      BY <2>2, <3>1
  <2> QED
    BY <1>2, <2>2, <2>3 DEF CurrentIsCurrent, c, end
<1> QED
  BY <1>3, <1>4

(* In a zone that neither skips nor repeats a midnight, the longest streak *)
(* of the overview is the first longest row of days with movement          *)
(* (streaks).                                                              *)
THEOREM LongestStreak == StreaksSpec => [](QuietMidnights(tz) => LongestIsLongest)
<1>1. StreaksType => (QuietMidnights(tz) => LongestIsLongest)
  BY LongestIs
<1> QED
  BY InitStreaksType, NextStreaksType, <1>1, PTL DEF StreaksSpec

(* There the current streak counts back from the last day that may count   *)
(* (streaks), for every time at which it is asked for.                     *)
THEOREM CurrentStreak == StreaksSpec => [](QuietMidnights(tz) => CurrentIsCurrent)
<1>1. StreaksType => (QuietMidnights(tz) => CurrentIsCurrent)
  BY CurrentIs
<1> QED
  BY InitStreaksType, NextStreaksType, <1>1, PTL DEF StreaksSpec

-----------------------------------------------------------------------------
(* Levels: the sorted meters and their percentiles.                        *)
LEMMA SmallestValue ==
  ASSUME NEW S, IsFiniteSet(S), S # {}, NEW f, \A x \in S : f[x] \in Nat
  PROVE  \E x \in S : \A y \in S : f[x] <= f[y]
<1>1. PICK z \in S : \A y \in S : f[y] <= f[z]
  BY LargestValue
<1> DEFINE h == [x \in S |-> f[z] - f[x]]
<1>2. \A x \in S : h[x] = f[z] - f[x] /\ h[x] \in Nat /\ f[x] \in Nat /\ f[z] \in Nat
  <2> SUFFICES ASSUME NEW x \in S
               PROVE  h[x] = f[z] - f[x] /\ h[x] \in Nat /\ f[x] \in Nat /\ f[z] \in Nat
    OBVIOUS
  <2>1. f[x] \in Nat /\ f[z] \in Nat /\ f[x] <= f[z]
    BY <1>1
  <2> QED
    BY <2>1
<1> HIDE DEF h
<1>3. PICK x \in S : \A y \in S : h[y] <= h[x]
  BY <1>2, LargestValue
<1>4. ASSUME NEW y \in S PROVE f[x] <= f[y]
  <2>1. h[y] <= h[x] /\ h[x] = f[z] - f[x] /\ h[y] = f[z] - f[y]
        /\ f[x] \in Nat /\ f[y] \in Nat /\ f[z] \in Nat
    BY <1>2, <1>3
  <2> QED
    BY <2>1
<1> QED
  BY <1>4

(* The i-th of the sorted meters: fewer than i days have less, at least i  *)
(* have no more.                                                           *)
LEMMA SortedMetersAre ==
  ASSUME NEW f, NEW A, IsFiniteSet(A), \A x \in A : f[x] \in Nat
  PROVE  LET n == Cardinality(A)
             s == SortedMeters(f, A)
         IN  /\ n \in Nat /\ s = [i \in 1..n |-> s[i]]
             /\ \A i \in 1..n : /\ s[i] \in {f[x] : x \in A}
                                /\ Cardinality({x \in A : f[x] < s[i]}) < i
                                /\ i <= Cardinality({x \in A : f[x] <= s[i]})
<1> DEFINE n == Cardinality(A)
           s == SortedMeters(f, A)
           Less(v) == {x \in A : f[x] < v}
           NoMore(v) == {x \in A : f[x] <= v}
           Is(v, i) == Cardinality(Less(v)) < i /\ i <= Cardinality(NoMore(v))
           V == {f[x] : x \in A}
<1>1. n \in Nat
  BY FS_CardinalityType
<1>2. \A v : /\ IsFiniteSet(Less(v)) /\ Cardinality(Less(v)) \in Nat
             /\ IsFiniteSet(NoMore(v)) /\ Cardinality(NoMore(v)) \in Nat
  BY FS_Subset, FS_CardinalityType
<1>3. s = [i \in 1..n |-> CHOOSE v \in V : Is(v, i)]
  BY DEF SortedMeters
<1>4. ASSUME NEW i \in 1..n PROVE \E v \in V : Is(v, i)
  <2> DEFINE E == {x \in A : i <= Cardinality(NoMore(f[x]))}
  <2>1. A # {}
    <3>1. A = {} => n = 0
      BY FS_EmptySet
    <3> HIDE DEF n
    <3> QED
      BY <1>1, <3>1
  <2>2. PICK z \in A : \A y \in A : f[y] <= f[z]
    BY <2>1, LargestValue
  <2>3. z \in E
    <3>1. NoMore(f[z]) = A
      BY <2>2
    <3> HIDE DEF NoMore
    <3>2. i <= Cardinality(NoMore(f[z]))
      BY <3>1
    <3> QED
      BY <3>2
  <2>4. IsFiniteSet(E) /\ E \in SUBSET A /\ \A x \in E : f[x] \in Nat
    BY FS_Subset
  <2> HIDE DEF E
  <2>5. PICK x \in E : \A y \in E : f[x] <= f[y]
    BY <2>3, <2>4, SmallestValue
  <2>6. x \in A /\ i <= Cardinality(NoMore(f[x]))
    BY DEF E
  <2>7. Cardinality(Less(f[x])) < i
    <3> SUFFICES ASSUME ~(Cardinality(Less(f[x])) < i) PROVE FALSE
      OBVIOUS
    <3> DEFINE B == Less(f[x])
    <3>1. IsFiniteSet(B) /\ Cardinality(B) \in Nat /\ B \in SUBSET A
      BY <1>2
    <3>2. B # {}
      <4>1. B = {} => Cardinality(B) = 0
        BY FS_EmptySet
      <4> HIDE DEF B
      <4>2. ~(Cardinality(B) < i)
        BY DEF B
      <4> QED
        BY <1>1, <3>1, <4>1, <4>2
    <3>3. \A y \in B : f[y] \in Nat /\ f[y] < f[x] /\ y \in A
      OBVIOUS
    <3> HIDE DEF B
    <3>4. PICK w \in B : \A y \in B : f[y] <= f[w]
      BY <3>1, <3>2, <3>3, LargestValue
    <3>5. B \in SUBSET NoMore(f[w])
      BY <3>1, <3>4
    <3>6. Cardinality(B) <= Cardinality(NoMore(f[w]))
      <4>1. IsFiniteSet(NoMore(f[w]))
        BY <1>2
      <4> HIDE DEF NoMore
      <4> QED
        BY <3>5, <4>1, FS_Subset
    <3>7. Cardinality(NoMore(f[w])) \in Nat
      BY <1>2
    <3>8. i <= Cardinality(NoMore(f[w]))
      <4>1. ~(Cardinality(B) < i)
        BY DEF B
      <4> HIDE DEF NoMore
      <4> QED
        BY <1>1, <3>1, <3>6, <3>7, <4>1
    <3>9. w \in E
      BY <3>3, <3>8 DEF E
    <3>10. f[x] <= f[w] /\ f[w] < f[x] /\ f[w] \in Nat /\ f[x] \in Nat
      BY <2>4, <2>5, <3>3, <3>9
    <3> QED
      BY <3>10
  <2> QED
    BY <2>6, <2>7
<1> HIDE DEF Is, V
<1>5. \A i \in 1..n : s[i] \in V /\ Is(s[i], i)
  <2> SUFFICES ASSUME NEW i \in 1..n PROVE s[i] \in V /\ Is(s[i], i)
    OBVIOUS
  <2>1. s[i] = CHOOSE v \in V : Is(v, i)
    BY <1>3
  <2> HIDE DEF s
  <2> QED
    BY <1>4, <2>1
<1>6. s = [i \in 1..n |-> s[i]]
  BY <1>3
<1> HIDE DEF s, n
<1>7. \A i \in 1..n : /\ s[i] \in {f[x] : x \in A}
                      /\ Cardinality({x \in A : f[x] < s[i]}) < i
                      /\ i <= Cardinality({x \in A : f[x] <= s[i]})
  BY <1>5 DEF Is, V
<1> QED
  BY <1>1, <1>6, <1>7 DEF s, n

LEMMA SortedMetersAscend ==
  ASSUME NEW f, NEW A, IsFiniteSet(A), \A x \in A : f[x] \in Nat
  PROVE  LET n == Cardinality(A)
             s == SortedMeters(f, A)
         IN  /\ n \in Nat /\ s \in [1..n -> Nat]
             /\ \A i, j \in 1..n : i <= j => s[i] <= s[j]
             /\ \A x \in A : f[x] <= s[n]
<1> DEFINE n == Cardinality(A)
           s == SortedMeters(f, A)
           Less(v) == {x \in A : f[x] < v}
           NoMore(v) == {x \in A : f[x] <= v}
<1>1. n \in Nat /\ s = [i \in 1..n |-> s[i]]
  BY SortedMetersAre
<1>2. \A i \in 1..n : s[i] \in Nat /\ Cardinality(Less(s[i])) < i /\ i <= Cardinality(NoMore(s[i]))
  <2>1. \A i \in 1..n : s[i] \in {f[x] : x \in A} /\ Cardinality(Less(s[i])) < i
                        /\ i <= Cardinality(NoMore(s[i]))
    BY SortedMetersAre
  <2> HIDE DEF s, n, Less, NoMore
  <2> QED
    BY <2>1
<1>3. \A v : /\ IsFiniteSet(Less(v)) /\ Cardinality(Less(v)) \in Nat
             /\ IsFiniteSet(NoMore(v)) /\ Cardinality(NoMore(v)) \in Nat
  BY FS_Subset, FS_CardinalityType
<1> HIDE DEF s, n
<1>4. s \in [1..n -> Nat]
  BY <1>1, <1>2
<1>5. ASSUME NEW i \in 1..n, NEW j \in 1..n, i <= j PROVE s[i] <= s[j]
  <2>0. s[i] \in Nat /\ s[j] \in Nat
    BY <1>2
  <2> SUFFICES ASSUME s[j] < s[i] PROVE FALSE
    BY <2>0
  <2>1. NoMore(s[j]) \in SUBSET Less(s[i])
    BY <2>0
  <2>2. Cardinality(NoMore(s[j])) <= Cardinality(Less(s[i]))
    <3>1. IsFiniteSet(Less(s[i]))
      BY <1>3
    <3> HIDE DEF NoMore, Less
    <3> QED
      BY <2>1, <3>1, FS_Subset
  <2>3. /\ Cardinality(NoMore(s[j])) \in Nat /\ Cardinality(Less(s[i])) \in Nat
        /\ j <= Cardinality(NoMore(s[j])) /\ Cardinality(Less(s[i])) < i
    BY <1>2, <1>3
  <2> HIDE DEF NoMore, Less
  <2> QED
    BY <1>1, <1>5, <2>2, <2>3
<1>6. ASSUME NEW x \in A PROVE f[x] <= s[n]
  <2>1. n # 0
    BY FS_EmptySet DEF n
  <2>2. n \in 1..n
    BY <1>1, <2>1
  <2>3. n <= Cardinality(NoMore(s[n]))
    BY <1>2, <2>2
  <2>4. NoMore(s[n]) \in SUBSET A /\ Cardinality(NoMore(s[n])) \in Nat
    BY <1>3
  <2> HIDE DEF NoMore
  <2>5. Cardinality(NoMore(s[n])) <= n
    BY <2>4, FS_Subset DEF n
  <2>6. Cardinality(NoMore(s[n])) = Cardinality(A)
    BY <1>1, <2>3, <2>4, <2>5 DEF n
  <2>7. NoMore(s[n]) = A
    BY <2>4, <2>6, FS_Subset
  <2> QED
    BY <2>7 DEF NoMore
<1> QED
  BY <1>1, <1>4, <1>5, <1>6 DEF s, n

(* Rounding keeps the order.                                               *)
LEMMA RoundDivMonotone ==
  ASSUME NEW a \in Nat, NEW c \in Nat, NEW b \in Nat \ {0}, a <= c
  PROVE  RoundDiv(a, b) <= RoundDiv(c, b) /\ RoundDiv(a, b) \in Nat /\ RoundDiv(c, b) \in Nat
<1> DEFINE x == 2 * a + b
           y == 2 * c + b
           d == 2 * b
           q == x \div d
<1>1. x \in Int /\ y \in Int /\ x <= y /\ d \in Nat \ {0}
  OBVIOUS
<1>2. RoundDiv(a, b) \in Nat /\ RoundDiv(c, b) \in Nat
  BY RoundDivNat
<1>3. RoundDiv(a, b) = q /\ RoundDiv(c, b) = y \div d
  BY DEF RoundDiv
<1> HIDE DEF x, y, d
<1>4. q \in Int /\ q * d <= x /\ q * d \in Int
  BY <1>1, Quotient
<1> HIDE DEF q
<1>5. y >= q * d
  BY <1>1, <1>4
<1>6. y \div d >= q
  BY <1>1, <1>4, <1>5, QuotientAtLeast
<1>7. y \div d \in Int
  BY <1>1, Quotient
<1> QED
  BY <1>2, <1>3, <1>4, <1>6, <1>7

(* The rank of a percentile is one of the indices.                         *)
Rank(n, pct) == Min({RoundDiv(pct * (n - 1), 100) + 1, n})

LEMMA RanksAscend ==
  ASSUME NEW n \in Nat \ {0}, NEW p \in Nat, NEW q \in Nat, p <= q
  PROVE  Rank(n, p) \in 1..n /\ Rank(n, q) \in 1..n /\ Rank(n, p) <= Rank(n, q)
<1> DEFINE a == p * (n - 1)
           c == q * (n - 1)
           h == 100
<1>1. a \in Nat /\ c \in Nat /\ a <= c
  <2>1. n - 1 \in Nat
    OBVIOUS
  <2> DEFINE m == n - 1
  <2> HIDE DEF m
  <2>2. p * m \in Nat /\ q * m \in Nat /\ p * m <= q * m
    BY <2>1 DEF m
  <2> QED
    BY <2>2 DEF m
<1>2. h \in Nat \ {0}
  OBVIOUS
<1> HIDE DEF a, c, h
<1> DEFINE x == RoundDiv(a, h)
           y == RoundDiv(c, h)
<1>3. x <= y /\ x \in Nat /\ y \in Nat
  BY <1>1, <1>2, RoundDivMonotone
<1>4. Rank(n, p) = Min({x + 1, n}) /\ Rank(n, q) = Min({y + 1, n})
  BY DEF Rank, a, c, h
<1> HIDE DEF x, y
<1>5. x + 1 \in Int /\ y + 1 \in Int /\ n \in Int
  BY <1>3
<1>6. Rank(n, p) = (IF x + 1 <= n THEN x + 1 ELSE n) /\ Rank(n, q) = (IF y + 1 <= n THEN y + 1 ELSE n)
  BY <1>4, <1>5, SmallerOf
<1> QED
  BY <1>3, <1>6

LEMMA LevelsAre == StreaksType /\ Active # {} => LevelsOrdered
<1> SUFFICES ASSUME StreaksType, Active # {} PROVE LevelsOrdered
  OBVIOUS
<1> DEFINE n == Cardinality(Active)
           s == SortedMeters(daily, Active)
           h == Heatmap
<1>1. IsFiniteSet(Active) /\ Active \subseteq DOMAIN daily /\ ActiveDays(daily, shown) = Active
  BY ActiveFacts
<1>2. \A x \in Active : daily[x] \in Nat
  BY <1>1 DEF StreaksType
<1>3. /\ n \in Nat /\ s \in [1..n -> Nat]
      /\ \A i, j \in 1..n : i <= j => s[i] <= s[j]
      /\ \A x \in Active : daily[x] <= s[n]
  BY <1>1, <1>2, SortedMetersAscend
<1>4. n # 0
  BY <1>1, FS_EmptySet
<1>5. h.p25 = Percentile(s, 25) /\ h.p50 = Percentile(s, 50) /\ h.p75 = Percentile(s, 75)
      /\ h.p90 = Percentile(s, 90) /\ h.max = Last(s)
  BY <1>1 DEF Heatmap, HeatmapFromDaily
<1> HIDE DEF n, s, h
<1>6. Len(s) = n
  BY <1>3
<1>7. h.p25 = s[Rank(n, 25)] /\ h.p50 = s[Rank(n, 50)] /\ h.p75 = s[Rank(n, 75)]
      /\ h.p90 = s[Rank(n, 90)] /\ h.max = s[n]
  BY <1>5, <1>6 DEF Percentile, Rank, Last
<1>8. /\ Rank(n, 25) \in 1..n /\ Rank(n, 50) \in 1..n /\ Rank(n, 25) <= Rank(n, 50)
      /\ Rank(n, 75) \in 1..n /\ Rank(n, 50) <= Rank(n, 75)
      /\ Rank(n, 90) \in 1..n /\ Rank(n, 75) <= Rank(n, 90)
  <2>1. n \in Nat \ {0}
    BY <1>3, <1>4
  <2>2. \A p, q \in Nat : p <= q =>
          Rank(n, p) \in 1..n /\ Rank(n, q) \in 1..n /\ Rank(n, p) <= Rank(n, q)
    BY <2>1, RanksAscend
  <2> DEFINE R(p) == Rank(n, p)
  <2>3. \A p, q \in Nat : p <= q => R(p) \in 1..n /\ R(q) \in 1..n /\ R(p) <= R(q)
    BY <2>2
  <2>4. 25 \in Nat /\ 50 \in Nat /\ 75 \in Nat /\ 90 \in Nat /\ 25 <= 50 /\ 50 <= 75 /\ 75 <= 90
    OBVIOUS
  <2> HIDE DEF R
  <2>5. R(25) \in 1..n /\ R(50) \in 1..n /\ R(25) <= R(50)
    BY <2>3, <2>4
  <2>6. R(75) \in 1..n /\ R(90) \in 1..n /\ R(50) <= R(75) /\ R(75) <= R(90)
    BY <2>3, <2>4
  <2> QED
    BY <2>5, <2>6 DEF R
<1>9. n \in 1..n /\ Rank(n, 90) <= n
  BY <1>3, <1>4, <1>8
<1>10. /\ h.p25 <= h.p50 /\ h.p50 <= h.p75 /\ h.p75 <= h.p90 /\ h.p90 <= h.max
       /\ \A day \in Active : daily[day] <= h.max
  BY <1>3, <1>7, <1>8, <1>9
<1> QED
  BY <1>10 DEF LevelsOrdered, h

-----------------------------------------------------------------------------
(* Months.                                                                 *)
LEMMA SumOfSome ==
  ASSUME NEW f, NEW S, IsFiniteSet(S), \A x \in S : f[x] \in Nat, NEW A \in SUBSET S
  PROVE  SumOver(f, A) \in Nat /\ SumOver(f, S) \in Nat /\ SumOver(f, A) <= SumOver(f, S)
<1> DEFINE B == S \ A
<1>1. IsFiniteSet(A) /\ IsFiniteSet(B) /\ A \cap B = {} /\ A \cup B = S
  BY FS_Subset
<1>2. \A x \in A \cup B : f[x] \in Nat
  BY <1>1
<1> HIDE DEF B
<1>3. SumOver(f, A \cup B) = SumOver(f, A) + SumOver(f, B)
  BY <1>1, <1>2, SumSplit
<1>4. SumOver(f, A) \in Nat /\ SumOver(f, B) \in Nat
  BY <1>1, <1>2, SumType
<1> DEFINE a == SumOver(f, A)
           b == SumOver(f, B)
           s == SumOver(f, S)
<1>5. s = a + b /\ a \in Nat /\ b \in Nat
  BY <1>1, <1>3, <1>4
<1> HIDE DEF a, b, s
<1>6. a \in Nat /\ s \in Nat /\ a <= s
  BY <1>5
<1> QED
  BY <1>6 DEF a, s

LEMMA BiggestIs == StreaksType /\ Active # {} => BiggestDominates
<1> SUFFICES ASSUME StreaksType, Active # {},
                    NEW u \in {"km", "mi"}, NEW totals \in TotalsFromDaily(daily, shown, u)
             PROVE  /\ totals.biggest.distance <= totals.distance
                    /\ \A m \in 1..12 :
                         RoundDiv(SumOver(daily, {day \in Active : Month(day) = m}), PerUnit[u])
                           <= totals.biggest.distance
  BY DEF BiggestDominates
<1> DEFINE days == {day \in DOMAIN daily : daily[day] > 0 /\ Year(day) = shown}
           Of(m) == {day \in Active : Month(day) = m}
           Sum(m) == SumOver(daily, Of(m))
           all == SumOver(daily, Active)
           byMonth == MonthMeters(daily, Active)
           U == PerUnit[u]
<1>1. days = Active
  BY ActiveFacts DEF ActiveDays
<1>2. IsFiniteSet(Active) /\ \A x \in Active : daily[x] \in Nat
  BY ActiveFacts DEF StreaksType
<1>3. U \in Nat \ {0}
  BY InsightsAssumption
<1>4. PICK b \in BiggestMonths(byMonth) :
        totals = [distance |-> Convert(all, u), unit |-> u, days |-> Cardinality(Active),
                  biggest |-> [month |-> b, distance |-> Convert(byMonth[b], u)]]
  BY <1>1 DEF TotalsFromDaily
<1>5. totals.distance = RoundDiv(all, U) /\ totals.biggest.distance = RoundDiv(byMonth[b], U)
  BY <1>4 DEF Convert
<1>6. /\ DOMAIN byMonth = {Month(day) : day \in Active}
      /\ \A m \in DOMAIN byMonth : byMonth[m] = Sum(m)
  BY DEF MonthMeters
<1>7. b \in DOMAIN byMonth /\ \A m \in DOMAIN byMonth : byMonth[m] <= byMonth[b]
  BY <1>4 DEF BiggestMonths
<1>8. all \in Nat /\ \A m : Sum(m) \in Nat /\ Sum(m) <= all
  <2>1. all \in Nat
    BY <1>2, SumType
  <2>2. ASSUME NEW m PROVE Sum(m) \in Nat /\ Sum(m) <= all
    <3>1. Of(m) \in SUBSET Active
      OBVIOUS
    <3> HIDE DEF Of
    <3> QED
      BY <1>2, <3>1, SumOfSome
  <2> QED
    BY <2>1, <2>2
<1>9. ASSUME NEW m, m \notin DOMAIN byMonth PROVE Sum(m) = 0
  <2>1. Of(m) = {}
    BY <1>6, <1>9
  <2> HIDE DEF Of
  <2> QED
    BY <2>1, SumEmpty
<1> HIDE DEF Of, Sum, all, byMonth, U, days
<1> DEFINE most == Sum(b)
<1>10. byMonth[b] = most /\ most \in Nat /\ most <= all
  BY <1>6, <1>7, <1>8
<1>11. ASSUME NEW m \in 1..12 PROVE Sum(m) <= most
  <2>1. m \in DOMAIN byMonth => Sum(m) <= most
    BY <1>6, <1>7, <1>10
  <2> HIDE DEF most
  <2>2. m \notin DOMAIN byMonth => Sum(m) <= most
    BY <1>9, <1>10
  <2> QED
    BY <2>1, <2>2
<1> HIDE DEF most
<1>12. RoundDiv(most, U) <= RoundDiv(all, U)
  BY <1>3, <1>8, <1>10, RoundDivMonotone
<1>13. ASSUME NEW m \in 1..12 PROVE RoundDiv(Sum(m), U) <= RoundDiv(most, U)
  BY <1>3, <1>8, <1>10, <1>11, RoundDivMonotone
<1>14. totals.biggest.distance = RoundDiv(most, U) /\ totals.distance = RoundDiv(all, U)
  BY <1>5, <1>10
<1> QED
  BY <1>12, <1>13, <1>14 DEF Sum, Of, U

(* Every day is in one of the twelve months.                               *)
LEMMA MonthIs == ASSUME NEW day \in Int PROVE Month(day) \in 1..12
<1> DEFINE x == day % YearDays
           last == 12
           S == {m \in 1..last : DaysBefore(m) <= x}
<1>1. YearDays \in Nat \ {0}
  BY YearHasDays
<1>2. x \in 0..(YearDays - 1)
  BY <1>1
<1>3. \A m : DaysBefore(m) = SumOver(MonthDays, 1..(m - 1))
  BY DEF DaysBefore, SumOver, MapThenSumSet, MapThenFoldSet
<1> HIDE DEF x
<1>4. last \in Nat /\ MonthDays \in [1..last -> Nat \ {0}]
  BY CalendarAssumption
<1>5. 1 \in S /\ S \in SUBSET (1..last)
  <2>1. 1..(1 - 1) = {}
    OBVIOUS
  <2>2. DaysBefore(1) = 0
    BY <1>3, <2>1, SumEmpty
  <2> QED
    BY <1>2, <2>2
<1>6. PICK m \in S : \A y \in S : m >= y
  <2> HIDE DEF S, last
  <2> QED
    BY <1>4, <1>5, LargestExists
<1>7. m \in 1..last /\ DaysBefore(m) <= x
  OBVIOUS
<1>8. DaysBefore(m + 1) = DaysBefore(m) + MonthDays[m] /\ DaysBefore(m) \in Nat
  <2> DEFINE earlier == 1..(m - 1)
  <2> HIDE DEF last, S
  <2>1. m \in Int /\ m \notin earlier /\ IsFiniteSet(earlier) /\ 1..((m + 1) - 1) = earlier \cup {m}
        /\ earlier \cup {m} \subseteq 1..last
    <3>1. m \in Int /\ m - 1 \in Int /\ 1 \in Int
      BY <1>4, <1>7
    <3>2. IsFiniteSet(earlier)
      BY <3>1, FS_Interval
    <3> QED
      BY <1>4, <1>7, <3>1, <3>2
  <2>2. \A i \in earlier \cup {m} : MonthDays[i] \in Nat
    BY <1>4, <2>1
  <2> HIDE DEF earlier
  <2>3. SumOver(MonthDays, earlier \cup {m}) = MonthDays[m] + SumOver(MonthDays, earlier)
    BY <2>1, <2>2, SumAdd
  <2>4. SumOver(MonthDays, earlier) \in Nat /\ MonthDays[m] \in Nat
    BY <2>1, <2>2, SumType
  <2>5. DaysBefore(m) = SumOver(MonthDays, earlier)
    BY <1>3 DEF earlier
  <2>6. DaysBefore(m + 1) = SumOver(MonthDays, earlier \cup {m})
    BY <1>3, <2>1
  <2> QED
    BY <2>3, <2>4, <2>5, <2>6
<1>9. x < DaysBefore(m + 1)
  <2>1. CASE m = last
    <3>1. m + 1 = 13
      BY <2>1
    <3> QED
      BY <1>1, <1>2, <3>1 DEF YearDays
  <2>2. CASE m # last
    <3>1. m + 1 \in 1..last /\ ~(m >= m + 1)
      BY <1>7, <2>2
    <3>2. m + 1 \notin S
      <4> HIDE DEF S
      <4> QED
        BY <1>6, <3>1
    <3>3. ~(DaysBefore(m + 1) <= x)
      BY <3>1, <3>2
    <3>4. DaysBefore(m + 1) \in Int
      <4>1. MonthDays[m] \in Nat
        BY <1>4, <1>7
      <4> QED
        BY <1>8, <4>1
    <3> QED
      BY <1>2, <3>3, <3>4
  <2> QED
    BY <2>1, <2>2
<1>10. m \in 1..12 /\ x \in DaysBefore(m)..(DaysBefore(m) + MonthDays[m] - 1)
  <2>1. MonthDays[m] \in Nat /\ m \in 1..12
    BY <1>4, <1>7
  <2> DEFINE a == DaysBefore(m)
             b == MonthDays[m]
             c == DaysBefore(m + 1)
  <2>2. a \in Nat /\ b \in Nat /\ c = a + b /\ a <= x /\ x < c
    BY <1>7, <1>8, <1>9, <2>1
  <2> HIDE DEF a, b, c
  <2>3. x \in a..(a + b - 1)
    BY <1>1, <1>2, <2>2
  <2> QED
    BY <2>1, <2>3 DEF a, b
<1> QED
  BY <1>10 DEF Month, x

(* Rounding errs by half a unit.                                           *)
LEMMA RoundDivNear ==
  ASSUME NEW a \in Nat, NEW b \in Nat \ {0}
  PROVE  LET p == RoundDiv(a, b) * (2 * b)
         IN  p \in Nat /\ p - 2 * a <= b /\ 2 * a - p <= b
<1> DEFINE d == 2 * b
           x == 2 * a + b
           q == RoundDiv(a, b)
           p == q * d
<1>1. d \in Nat \ {0} /\ x \in Int
  OBVIOUS
<1>2. q \in Nat /\ q = x \div d
  BY RoundDivNat DEF RoundDiv
<1> HIDE DEF d, x, q
<1>3. p \in Nat /\ p <= x /\ x < p + d
  BY <1>1, <1>2, Quotient
<1> HIDE DEF p
<1>4. p - 2 * a <= b /\ 2 * a - p <= b
  BY <1>3 DEF d, x
<1> QED
  BY <1>3, <1>4 DEF p, q, d

LEMMA Distributes ==
  ASSUME NEW a \in Int, NEW b \in Int, NEW k \in Int
  PROVE  (a + b) * k = a * k + b * k /\ (a - b) * k = a * k - b * k /\ a * k \in Int /\ b * k \in Int
BY SMT

(* The sum of rounded values errs by half a unit for each of them.         *)
LEMMA SumOfRounded ==
  ASSUME NEW f, NEW S, IsFiniteSet(S), \A x \in S : f[x] \in Nat, NEW K \in Nat \ {0},
         NEW r, \A x \in S : r[x] = RoundDiv(f[x], K)
  PROVE  LET s == SumOver(r, S) * (2 * K)
             v == 2 * SumOver(f, S)
             c == Cardinality(S) * K
         IN  s - v <= c /\ v - s <= c
<1> DEFINE s(A) == SumOver(r, A) * (2 * K)
           v(A) == 2 * SumOver(f, A)
           c(A) == Cardinality(A) * K
           Near(A) == s(A) - v(A) <= c(A) /\ v(A) - s(A) <= c(A)
           T == {A \in SUBSET S : Near(A)}
<1>0. \A x \in S : r[x] \in Nat
  BY RoundDivNat
<1>1. {} \in T
  <2>1. SumOver(r, {}) = 0 /\ SumOver(f, {}) = 0 /\ Cardinality({}) = 0
    BY SumEmpty, FS_EmptySet
  <2>2. Near({})
    BY <2>1
  <2> HIDE DEF Near
  <2> QED
    BY <2>2
<1>2. ASSUME NEW A \in SUBSET S, NEW x \in S \ A, A \in T PROVE A \cup {x} \in T
  <2> DEFINE B == A \cup {x}
             k == 2 * K
             rA == SumOver(r, A)
             fA == SumOver(f, A)
             cA == Cardinality(A)
             rB == SumOver(r, B)
             fB == SumOver(f, B)
             cB == Cardinality(B)
             rx == r[x]
             fx == f[x]
             px == rx * k
  <2>1. IsFiniteSet(A) /\ B \in SUBSET S /\ x \notin A /\ \A y \in A \cup {x} : f[y] \in Nat /\ r[y] \in Nat
    BY <1>0, FS_Subset
  <2>2. rA \in Nat /\ fA \in Nat /\ cA \in Nat /\ rx \in Nat /\ fx \in Nat
    BY <1>0, <2>1, SumType, FS_CardinalityType
  <2>3. rB = rx + rA
    BY <2>1, SumAdd
  <2>4. fB = fx + fA
    BY <2>1, SumAdd
  <2>5. cB = cA + 1
    BY <2>1, FS_AddElement
  <2>6. px - 2 * fx <= K /\ 2 * fx - px <= K /\ px \in Int
    <3>1. rx = RoundDiv(fx, K)
      OBVIOUS
    <3> HIDE DEF rx, fx
    <3> QED
      BY <2>2, <3>1, RoundDivNear
  <2>7. rA * k - 2 * fA <= cA * K /\ 2 * fA - rA * k <= cA * K
    BY <1>2
  <2> HIDE DEF B, rA, fA, cA, rB, fB, cB, rx, fx
  <2>8. k \in Int /\ K \in Int
    OBVIOUS
  <2> HIDE DEF k
  <2>9. rB * k = px + rA * k /\ rA * k \in Int /\ cB * K = cA * K + K /\ cA * K \in Int
    <3>1. rB * k = rx * k + rA * k /\ rA * k \in Int
      BY <2>2, <2>3, <2>8, Distributes
    <3>2. (cA + 1) * K = cA * K + 1 * K /\ cA * K \in Int /\ 1 * K = K
      BY <2>2, <2>8, Distributes
    <3> QED
      BY <2>5, <3>1, <3>2
  <2> DEFINE pA == rA * k
             qA == cA * K
             pB == rB * k
             qB == cB * K
  <2>10. pB = px + pA /\ pA \in Int /\ qB = qA + K /\ qA \in Int /\ px \in Int
         /\ pA - 2 * fA <= qA /\ 2 * fA - pA <= qA
    BY <2>6, <2>7, <2>9
  <2> HIDE DEF pA, qA, pB, qB, px
  <2>11. pB - 2 * fB <= qB /\ 2 * fB - pB <= qB
    BY <2>2, <2>4, <2>6, <2>8, <2>10
  <2>12. Near(B)
    BY <2>11 DEF pB, qB, rB, fB, cB, k
  <2> HIDE DEF Near
  <2> QED
    BY <2>1, <2>12 DEF B
<1> HIDE DEF T
<1>3. S \in T
  BY <1>1, <1>2, ByElements
<1> QED
  BY <1>3 DEF T

LEMMA LargerOf ==
  ASSUME NEW x \in Int, NEW y \in Int
  PROVE  Max({x, y}) = x \/ Max({x, y}) = y
<1>1. ASSUME NEW a \in Int, NEW b \in Int, b <= a PROVE Max({a, b}) = a
  <2>1. a \in {a, b} /\ (\A z \in {a, b} : a >= z)
        /\ \A w \in {a, b} : (\A z \in {a, b} : w >= z) => w = a
    BY <1>1
  <2> QED
    BY <2>1 DEF Max
<1>2. CASE y <= x
  BY <1>1, <1>2
<1>3. CASE ~(y <= x)
  <2>1. x <= y /\ {x, y} = {y, x}
    BY <1>3
  <2>2. Max({y, x}) = y
    BY <1>1, <2>1
  <2> QED
    BY <2>1, <2>2
<1> QED
  BY <1>2, <1>3

LEMMA HalfAUnitEach ==
  ASSUME NEW e \in Int, NEW c \in Nat, NEW K \in Nat \ {0}, e * (2 * K) <= (c + 1) * K
  PROVE  2 * e <= c + 1
<1> SUFFICES ASSUME c + 1 < 2 * e PROVE FALSE
  OBVIOUS
<1> DEFINE p == c + 1
           q == 2 * e
<1>1. p \in Int /\ q \in Int /\ p < q
  OBVIOUS
<1>2. e * (2 * K) = q * K
  BY SMT
<1> HIDE DEF p, q
<1>3. p * K < q * K /\ p * K \in Int /\ q * K \in Int
  BY <1>1, SMT
<1>4. q * K <= p * K
  BY <1>2 DEF p
<1> QED
  BY <1>3, <1>4

(* A date is counted for some month, whatever the zone does at midnight.   *)
LEMMA BookedIsMonth ==
  ASSUME StreaksType, NEW day \in Int
  PROVE  BookedMonth(day, tz) \in 1..12
<1>1. DaySecs \in Nat \ {0}
  BY CalendarAssumption
<1>2. tz \in Seq([from : Int, offset : Int]) /\ tz # <<>>
  BY StreaksAssumption DEF StreaksType
<1>3. ASSUME NEW t \in Int PROVE OffsetAt(t, tz) \in Int
  <2> DEFINE R == [from : Int, offset : Int]
             S == {1} \cup {i \in DOMAIN tz : i > 1 /\ tz[i].from <= t}
  <2>1. tz \in Seq(R) /\ tz # <<>>
    BY <1>2
  <2> HIDE DEF R
  <2>2. /\ Len(tz) \in Nat /\ DOMAIN tz = 1..Len(tz) /\ 1 \in DOMAIN tz
        /\ \A i \in DOMAIN tz : tz[i] \in R
    BY <2>1
  <2>3. S \in SUBSET (1..Len(tz)) /\ S # {}
    BY <2>2
  <2>4. Period(t, tz) = CHOOSE x \in S : \A y \in S : x >= y
    BY DEF Period, Max
  <2> HIDE DEF S
  <2>5. Period(t, tz) \in S
    <3>1. \E x \in S : \A y \in S : x >= y
      BY <2>2, <2>3, LargestExists
    <3> QED
      BY <2>4, <3>1
  <2>6. tz[Period(t, tz)] \in R
    BY <2>2, <2>3, <2>5
  <2> QED
    BY <2>6 DEF R, OffsetAt
<1> DEFINE local == day * DaySecs
<1>4. local \in Int
  BY <1>1
<1>5. Midnight(day, tz) \in Int
  <2>1. Midnight(day, tz) = Date(local, tz)
    BY DEF Midnight
  <2> HIDE DEF local
  <2>2. OffsetAt(local, tz) \in Int /\ local - OffsetAt(local, tz) \in Int
    BY <1>3, <1>4
  <2>3. OffsetAt(local - OffsetAt(local, tz), tz) \in Int
    BY <1>3, <2>2
  <2>4. local - OffsetAt(local - OffsetAt(local, tz), tz) \in Int
    BY <1>4, <2>3
  <2> QED
    BY <2>1, <2>2, <2>4 DEF Date
<1>6. Day(Midnight(day, tz), tz) \in Int
  <2> DEFINE l == Local(Midnight(day, tz), tz)
  <2>1. l \in Int
    BY <1>3, <1>5 DEF Local
  <2>2. Day(Midnight(day, tz), tz) = l \div DaySecs
    BY DEF Day
  <2> HIDE DEF l
  <2> QED
    BY <1>1, <2>1, <2>2, Quotient
<1> QED
  BY <1>6, MonthIs DEF BookedMonth

LEMMA MonthsAre == StreaksType => MonthsNearYear
<1> SUFFICES ASSUME StreaksType PROVE MonthsNearYear
  OBVIOUS
<1> DEFINE D == DOMAIN daily
           K == PerUnit["km"]
           km == [day \in D |-> Convert(daily[day], "km")]
           monthly == [m \in 1..12 |-> SumOver(km, {day \in D : BookedMonth(day, tz) = m})]
           months == SumOver(monthly, 1..12)
           all == SumOver(daily, D)
           year1 == RoundDiv(all, K)
           n == Cardinality(D)
           e == months - year1
<1>1. IsFiniteSet(D) /\ n \in Nat /\ \A x \in D : x \in Int /\ daily[x] \in Nat
  BY FS_CardinalityType DEF StreaksType
<1>2. K \in Nat \ {0}
  BY InsightsAssumption
<1>3. \A x \in D : km[x] = RoundDiv(daily[x], K) /\ km[x] \in Nat
  <2> HIDE DEF K
  <2>1. \A x \in D : RoundDiv(daily[x], K) \in Nat
    BY <1>1, <1>2, RoundDivNat
  <2> QED
    BY <2>1 DEF Convert, K
<1> HIDE DEF km
<1>4. months = SumOver(km, D)
  <2> DEFINE key == [day \in D |-> BookedMonth(day, tz)]
             N == 1..12
  <2>1. key \in [D -> N]
    BY <1>1, BookedIsMonth
  <2>2. IsFiniteSet(N)
    <3> DEFINE twelve == 12
    <3>1. twelve \in Int
      OBVIOUS
    <3> HIDE DEF twelve
    <3>2. IsFiniteSet(1..twelve)
      BY <3>1, FS_Interval
    <3> QED
      BY <3>2 DEF twelve
  <2>3. \A m \in N : monthly[m] = SumOver(km, {day \in D : key[day] = m})
    <3> SUFFICES ASSUME NEW m \in N PROVE monthly[m] = SumOver(km, {day \in D : key[day] = m})
      OBVIOUS
    <3>1. {day \in D : key[day] = m} = {day \in D : BookedMonth(day, tz) = m}
      OBVIOUS
    <3> QED
      BY <3>1
  <2> HIDE DEF key, N, monthly, D
  <2>4. SumOver(monthly, N) = SumOver(km, D)
    BY <1>1, <1>3, <2>1, <2>2, <2>3, SumGroups
  <2> QED
    BY <2>4 DEF N
<1>5. YearStats(daily, tz).km = year1 /\ YearStats(daily, tz).monthly = monthly
  BY DEF YearStats, Convert, km
<1> HIDE DEF D, K, monthly
<1>6. months \in Nat /\ all \in Nat
  BY <1>1, <1>3, <1>4, SumType
<1> DEFINE s == months * (2 * K)
           v == 2 * all
           c == n * K
           p == year1 * (2 * K)
<1>7. s - v <= c /\ v - s <= c
  BY <1>1, <1>2, <1>3, <1>4, SumOfRounded
<1>8. p \in Int /\ p - v <= K /\ v - p <= K /\ year1 \in Nat
  <2>1. year1 \in Nat
    <3> HIDE DEF all
    <3> QED
      BY <1>2, <1>6, RoundDivNat
  <2> HIDE DEF all
  <2> QED
    BY <1>2, <1>6, <2>1, RoundDivNear
<1> HIDE DEF months, all, n, year1
<1>9. s \in Int /\ c \in Int /\ v \in Int /\ (n + 1) * K = c + K /\ K \in Int
      /\ (months - year1) * (2 * K) = s - p /\ (year1 - months) * (2 * K) = p - s
  <2>1. 2 * K \in Int /\ K \in Int /\ months \in Int /\ year1 \in Int /\ n \in Int /\ 1 * K = K
    BY <1>1, <1>2, <1>6, <1>8
  <2>2. (n + 1) * K = n * K + 1 * K /\ n * K \in Int
    BY <2>1, Distributes
  <2>3. (months - year1) * (2 * K) = s - p /\ s \in Int
    BY <2>1, Distributes
  <2>4. (year1 - months) * (2 * K) = p - s
    BY <2>1, Distributes
  <2> QED
    BY <1>6, <2>1, <2>2, <2>3, <2>4
<1> HIDE DEF s, v, c, p
<1>10. (months - year1) * (2 * K) <= (n + 1) * K /\ (year1 - months) * (2 * K) <= (n + 1) * K
  BY <1>7, <1>8, <1>9
<1>11. months - year1 \in Int /\ year1 - months \in Int
  BY <1>6, <1>8
<1>12. 2 * (months - year1) <= n + 1
  <2> DEFINE d == months - year1
  <2>1. d \in Int /\ d * (2 * K) <= (n + 1) * K
    BY <1>10, <1>11
  <2> HIDE DEF d
  <2>2. 2 * d <= n + 1
    BY <1>1, <1>2, <2>1, HalfAUnitEach
  <2> QED
    BY <2>2 DEF d
<1>13. 2 * (year1 - months) <= n + 1
  <2> DEFINE d == year1 - months
  <2>1. d \in Int /\ d * (2 * K) <= (n + 1) * K
    BY <1>10, <1>11
  <2> HIDE DEF d
  <2>2. 2 * d <= n + 1
    BY <1>1, <1>2, <2>1, HalfAUnitEach
  <2> QED
    BY <2>2 DEF d
<1>14. 2 * Max({e, -e}) <= n + 1
  <2>1. e \in Int /\ -e \in Int /\ 2 * e <= n + 1 /\ 2 * (-e) <= n + 1
    <3>1. -e = year1 - months
      BY <1>6, <1>8
    <3> QED
      BY <1>11, <1>12, <1>13, <3>1
  <2> HIDE DEF e
  <2>2. Max({e, -e}) = e \/ Max({e, -e}) = -e
    BY <2>1, LargerOf
  <2> QED
    BY <2>1, <2>2
<1>15. SumOver(YearStats(daily, tz).monthly, 1..12) - YearStats(daily, tz).km = e
  BY <1>5 DEF months
<1> HIDE DEF e
<1> QED
  BY <1>14, <1>15 DEF MonthsNearYear, n, D

(* Where midnights are not skipped the months are those of the calendar,   *)
(* and each is a sum of rounded days.                                      *)
LEMMA MonthsAreOfCalendar == StreaksType /\ QuietMidnights(tz) => MonthsOfCalendar
<1> SUFFICES ASSUME StreaksType, QuietMidnights(tz), NEW m \in 1..12
             PROVE  LET days == {day \in DOMAIN daily : Month(day) = m}
                        difference == YearStats(daily, tz).monthly[m] * PerUnit["km"] - SumOver(daily, days)
                    IN  2 * Max({difference, -difference}) <= Cardinality(days) * PerUnit["km"]
  BY DEF MonthsOfCalendar
<1> DEFINE D == DOMAIN daily
           K == PerUnit["km"]
           km == [day \in D |-> Convert(daily[day], "km")]
           days == {day \in D : Month(day) = m}
           booked == SumOver(km, days)
           meters == SumOver(daily, days)
           n == Cardinality(days)
           e == booked * K - meters
<1>1. K \in Nat \ {0} /\ IsFiniteSet(D) /\ \A x \in D : x \in Int /\ daily[x] \in Nat
  BY InsightsAssumption DEF StreaksType
<1>2. IsFiniteSet(days) /\ n \in Nat /\ \A x \in days : x \in Int /\ daily[x] \in Nat
  BY <1>1, FS_Subset, FS_CardinalityType
<1>3. \A x \in days : km[x] = RoundDiv(daily[x], K) /\ km[x] \in Nat
  <2> HIDE DEF K
  <2>1. \A x \in D : RoundDiv(daily[x], K) \in Nat
    BY <1>1, RoundDivNat
  <2> QED
    BY <2>1 DEF Convert, K
<1>4. YearStats(daily, tz).monthly[m] = booked
  <2>1. Zone(tz)
    BY StreaksAssumption DEF StreaksType, Zone
  <2>2. \A day \in D : BookedMonth(day, tz) = Month(day)
    BY <1>1, <2>1, Midnights DEF BookedMonth
  <2>3. {day \in D : BookedMonth(day, tz) = m} = days
    BY <2>2
  <2>4. YearStats(daily, tz).monthly[m] = SumOver(km, {day \in D : BookedMonth(day, tz) = m})
    BY DEF YearStats
  <2> QED
    BY <2>3, <2>4
<1> HIDE DEF D, K, km, days
<1>5. booked \in Nat /\ meters \in Nat
  BY <1>2, <1>3, SumType
<1> DEFINE s == booked * (2 * K)
           v == 2 * meters
           c == n * K
<1>6. s - v <= c /\ v - s <= c
  BY <1>1, <1>2, <1>3, SumOfRounded
<1> HIDE DEF booked, meters, n
<1>7. booked * K \in Int /\ s = 2 * (booked * K) /\ c \in Int
  <2>1. booked \in Int /\ K \in Int /\ n \in Int
    BY <1>1, <1>2, <1>5
  <2> QED
    BY <2>1, SMT
<1> DEFINE b == booked * K
<1>8. b \in Int /\ s = 2 * b /\ c \in Int /\ meters \in Int
  BY <1>5, <1>7
<1> HIDE DEF s, c
<1>9. e \in Int /\ -e \in Int /\ 2 * e <= c /\ 2 * (-e) <= c
  <2>1. e = b - meters /\ 2 * b - 2 * meters <= c /\ 2 * meters - 2 * b <= c
    BY <1>6, <1>8
  <2> HIDE DEF b, e
  <2> QED
    BY <1>8, <2>1
<1>10. 2 * Max({e, -e}) <= c
  <2> HIDE DEF e
  <2>1. Max({e, -e}) = e \/ Max({e, -e}) = -e
    BY <1>9, LargerOf
  <2> QED
    BY <1>9, <2>1
<1> QED
  BY <1>4, <1>10 DEF e, c, n, K, days, D, meters

(* The levels, the maximum, the months, the totals and the yearly          *)
(* statistics made of the same days agree (heatmapFromDaily,               *)
(* totalsFromDaily, ComputeStats), for any meters per day.                 *)
THEOREM FiguresOfTheYear == StreaksSpec => []FiguresAgree
<1>1. StreaksType => FiguresAgree
  BY LevelsAre, BiggestIs, MonthsAre, MonthsAreOfCalendar DEF FiguresAgree
<1> QED
  BY InitStreaksType, NextStreaksType, <1>1, PTL DEF StreaksSpec
=============================================================================
