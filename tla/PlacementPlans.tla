--------------------------- MODULE PlacementPlans ---------------------------
(***************************************************************************)
(* What the operators of Placement compute: sums over finite sets of       *)
(* flows, the demand, the load and the utilisation of targets, the ranking *)
(* of candidates and the plan of a batch.                                  *)
(*                                                                         *)
(* A sum takes off one element at a time and a plan is a recursion over    *)
(* the flows of a batch, last flow first.  What they compute for every     *)
(* batch is proved from a smallest counterexample: among the subsets of a  *)
(* finite set with some property, one has no smaller one.                  *)
(***************************************************************************)
EXTENDS Placement, FiniteSetTheorems, TLAPS

\* Each leaf is tried with SMT, then with Zenon, then with SMT and more time.
USE SMTT(30), ZenonT(90), SMTT(60), SMTT(90)

-----------------------------------------------------------------------------
(* Sums. *)

\* One step of a sum takes off an element that CHOOSE picks.
Picked(s) == CHOOSE x \in s : TRUE

\* The recursion that defines the sums of f over the subsets of S.
SumsOver(f, S, g) ==
  g = [s \in SUBSET S |-> IF s = {} THEN 0 ELSE f[Picked(s)] + g[s \ {Picked(s)}]]

-----------------------------------------------------------------------------
(* Induction. *)

\* A non-empty set of numbers has a least element.
LEMMA LeastNumber ==
  ASSUME NEW T, T \subseteq Nat, T # {}
  PROVE  \E n \in T : \A m \in T : n <= m
<1>1. PICK n \in T : \A m \in T : ~(<<m, n>> \in OpToRel(<, Nat))
  BY ZenonT(90), WFMin, NatLessThanWellFounded
<1>2. \A m \in T : ~(m < n)
  BY <1>1, ZenonT(90) DEF OpToRel
<1> QED
  BY <1>2

\* Among subsets of a finite set there is one that has no other below it:
\* induction over finite sets goes by a smallest set that a statement fails for.
LEMMA SmallestSet ==
  ASSUME NEW S, IsFiniteSet(S), NEW B, B \subseteq SUBSET S, B # {}
  PROVE  \E s \in B : \A x \in s : s \ {x} \notin B
<1>1. \A s \in B : IsFiniteSet(s) /\ Cardinality(s) \in Nat
  BY FS_Subset, FS_CardinalityType
<1> DEFINE T == {Cardinality(s) : s \in B}
<1>2. T \subseteq Nat /\ T # {}
  BY <1>1
<1>3. PICK n \in T : \A m \in T : n <= m
  <2> HIDE DEF T
  <2> QED
    BY ZenonT(90), <1>2, LeastNumber
<1>4. PICK s \in B : n = Cardinality(s)
  BY <1>3
<1>5. ASSUME NEW x \in s, s \ {x} \in B
      PROVE  FALSE
  <2>1. Cardinality(s \ {x}) = Cardinality(s) - 1
    BY <1>1, <1>5, FS_RemoveElement
  <2>2. Cardinality(s) <= Cardinality(s \ {x})
    BY <1>3, <1>4, <1>5
  <2> QED
    BY <1>1, <2>1, <2>2
<1> QED
  BY <1>4, <1>5

\* A finite set of numbers has a greatest one.
LEMMA GreatestNumber ==
  ASSUME NEW S, IsFiniteSet(S), S \subseteq Nat, S # {}
  PROVE  \E x \in S : \A y \in S : x >= y
<1> DEFINE B == {s \in SUBSET S : s # {} /\ ~\E x \in s : \A y \in s : x >= y}
<1>1. B = {}
  <2>1. SUFFICES ASSUME B # {} PROVE FALSE
    OBVIOUS
  <2>2. PICK s \in B : \A x \in s : s \ {x} \notin B
    <3>1. B \subseteq SUBSET S
      OBVIOUS
    <3> HIDE DEF B
    <3> QED
      BY ZenonT(90), <2>1, <3>1, SmallestSet
  <2>3. PICK x : x \in s
    BY <2>2
  <2>4. s \in SUBSET S /\ x \in Nat /\ ~\E z \in s : \A y \in s : z >= y
    BY <2>2, <2>3
  <2>5. s \ {x} \notin B /\ s \ {x} \in SUBSET S
    BY ZenonT(90), <2>2, <2>3
  <2>6. CASE s \ {x} = {}
    <3>1. \A y \in s : x >= y
      BY <2>4, <2>6
    <3> QED
      BY <2>3, <2>4, <3>1
  <2>7. CASE s \ {x} # {}
    <3>1. PICK z \in s \ {x} : \A y \in s \ {x} : z >= y
      BY <2>5, <2>7
    <3>2. z \in Nat /\ z \in s
      BY <2>4, <3>1
    <3>3. CASE z >= x
      <4>1. \A y \in s : z >= y
        BY <3>1, <3>3
      <4> QED
        BY <2>4, <3>2, <4>1
    <3>4. CASE ~(z >= x)
      <4>1. \A y \in s : x >= y
        <5> SUFFICES ASSUME NEW y \in s PROVE x >= y
          OBVIOUS
        <5>1. y \in Nat
          BY <2>4
        <5>2. CASE y = x
          BY <5>2, <2>4
        <5>3. CASE y # x
          <6>1. z >= y
            BY <3>1, <5>3
          <6> QED
            BY <6>1, <3>2, <3>4, <2>4, <5>1
        <5> QED
          BY <5>2, <5>3
      <4> QED
        BY <2>3, <2>4, <4>1
    <3> QED
      BY <3>3, <3>4
  <2> QED
    BY <2>6, <2>7
<1>2. S \in SUBSET S /\ S \notin B
  BY <1>1
<1> QED
  BY <1>2

-----------------------------------------------------------------------------
(* The recursion has a solution. *)

\* The sum unfolded to its recursion.
LEMMA SumUnfold ==
  ASSUME NEW f, NEW S
  PROVE  SumFunctionOnSet(f, S) = (CHOOSE g : SumsOver(f, S, g))[S]
BY DEF SumFunctionOnSet, FoldFunctionOnSet, MapThenFoldSet, SumsOver, Picked

\* A non-empty set has an element to pick.
LEMMA PickedIn ==
  ASSUME NEW s, s # {}
  PROVE  Picked(s) \in s
BY ZenonT(90) DEF Picked

\* The subsets of S with at most n elements.
Small(S, n) == {s \in SUBSET S : Cardinality(s) <= n}

\* The smallest subset is empty, and all subsets are small enough for some n.
LEMMA SmallBounds ==
  ASSUME NEW S, IsFiniteSet(S)
  PROVE  /\ \A s \in Small(S, 0) : s = {}
         /\ Cardinality(S) \in Nat /\ Small(S, Cardinality(S)) = SUBSET S
<1>1. ASSUME NEW s \in Small(S, 0) PROVE s = {}
  <2>1. s \in SUBSET S /\ Cardinality(s) <= 0
    BY DEF Small
  <2>2. IsFiniteSet(s) /\ Cardinality(s) \in Nat
    BY <2>1, FS_Subset, FS_CardinalityType
  <2>3. Cardinality(s) = 0
    BY <2>1, <2>2
  <2> QED
    BY <2>2, <2>3, FS_EmptySet
<1>2. Cardinality(S) \in Nat /\ Small(S, Cardinality(S)) = SUBSET S
  BY FS_Subset, FS_CardinalityType DEF Small
<1> QED
  BY <1>1, <1>2

\* The recursion up to sets of n elements.
SmallSums(f, S, n, g) ==
  g = [s \in Small(S, n) |-> IF s = {} THEN 0 ELSE f[Picked(s)] + g[s \ {Picked(s)}]]

\* Sums over sets of n elements give those over sets of one more.
LEMMA SumsGrow ==
  ASSUME NEW f, NEW S, IsFiniteSet(S), NEW n \in Nat, NEW g, SmallSums(f, S, n, g)
  PROVE  \E h : SmallSums(f, S, n + 1, h)
<1> DEFINE h == [s \in Small(S, n + 1) |->
                   IF s = {} THEN 0
                   ELSE IF Cardinality(s) <= n THEN g[s]
                   ELSE f[Picked(s)] + g[s \ {Picked(s)}]]
<1>1. \A s \in SUBSET S : IsFiniteSet(s) /\ Cardinality(s) \in Nat
  BY FS_Subset, FS_CardinalityType
<1>2. ASSUME NEW s \in Small(S, n + 1)
      PROVE  h[s] = IF s = {} THEN 0 ELSE f[Picked(s)] + h[s \ {Picked(s)}]
  <2>1. CASE s = {}
    BY <2>1
  <2>2. CASE s # {}
    <3> DEFINE r == s \ {Picked(s)}
    <3>1. s \in SUBSET S /\ r \in SUBSET S /\ Picked(s) \in s
      BY <2>2, PickedIn DEF Small
    <3>2. Cardinality(s) <= n + 1
      BY DEF Small
    <3>3. Cardinality(r) = Cardinality(s) - 1
      BY <1>1, <3>1, FS_RemoveElement
    <3>4. r \in Small(S, n) /\ r \in Small(S, n + 1)
      BY <1>1, <3>1, <3>2, <3>3 DEF Small
    <3> HIDE DEF r
    <3>5. h[r] = IF r = {} THEN 0 ELSE g[r]
      BY <3>4 DEF Small
    <3>6. h[r] = g[r]
      BY <3>5, <3>4 DEF SmallSums
    <3>7. CASE Cardinality(s) <= n
      <4>1. s \in Small(S, n)
        BY <3>1, <3>7 DEF Small
      <4>2. g[s] = f[Picked(s)] + g[r]
        BY ZenonT(90), <4>1, <2>2 DEF SmallSums, r
      <4>3. h[s] = g[s]
        BY <2>2, <3>7
      <4> QED
        BY <4>2, <4>3, <3>6, <2>2 DEF r
    <3>8. CASE ~(Cardinality(s) <= n)
      <4>1. h[s] = f[Picked(s)] + g[r]
        BY <2>2, <3>8 DEF r
      <4> QED
        BY <4>1, <3>6, <2>2 DEF r
    <3> QED
      BY <3>7, <3>8
  <2> QED
    BY <2>1, <2>2
<1>3. h = [s \in Small(S, n + 1) |-> h[s]]
  OBVIOUS
<1> HIDE DEF h
<1>4. SmallSums(f, S, n + 1, h)
  BY ZenonT(90), <1>2, <1>3 DEF SmallSums
<1> QED
  BY <1>4

\* The sums of f over the subsets of a finite set exist.
LEMMA SumsExist ==
  ASSUME NEW f, NEW S, IsFiniteSet(S)
  PROVE  \E g : SumsOver(f, S, g)
<1> DEFINE T == {n \in Nat : ~\E g : SmallSums(f, S, n, g)}
<1>1. \E g : SmallSums(f, S, 0, g)
  <2> DEFINE g == [s \in Small(S, 0) |-> 0]
  <2>1. \A s \in Small(S, 0) : s = {}
    BY SmallBounds
  <2>2. SmallSums(f, S, 0, g)
    BY <2>1 DEF SmallSums
  <2> QED
    BY <2>2
<1>2. T = {}
  <2>1. SUFFICES ASSUME T # {} PROVE FALSE
    OBVIOUS
  <2>2. PICK n \in T : \A m \in T : n <= m
    <3>1. T \subseteq Nat
      OBVIOUS
    <3> HIDE DEF T
    <3> QED
      BY ZenonT(90), <2>1, <3>1, LeastNumber
  <2>3. n \in Nat /\ n # 0 /\ n - 1 \in Nat
    BY <1>1, <2>2
  <2>4. \E g : SmallSums(f, S, n - 1, g)
    BY <2>2, <2>3
  <2>5. \E g : SmallSums(f, S, (n - 1) + 1, g)
    BY <2>3, <2>4, SumsGrow
  <2> QED
    BY <2>2, <2>3, <2>5
<1>3. Cardinality(S) \in Nat /\ Small(S, Cardinality(S)) = SUBSET S
  BY SmallBounds
<1>4. PICK g : SmallSums(f, S, Cardinality(S), g)
  BY <1>2, <1>3
<1> QED
  BY ZenonT(90), <1>3, <1>4 DEF SmallSums, SumsOver

-----------------------------------------------------------------------------
(* Laws of sums. *)

\* Sums over a set and over one of its subsets agree on what they have in common.
LEMMA SumsAgree ==
  ASSUME NEW f, NEW S, IsFiniteSet(S), NEW T \in SUBSET S, NEW g, NEW h,
         SumsOver(f, S, g), SumsOver(f, T, h)
  PROVE  g[T] = h[T]
<1> DEFINE B == {s \in SUBSET T : g[s] # h[s]}
<1>1. SUFFICES ASSUME B # {} PROVE FALSE
  BY T \in SUBSET T
<1>2. B \subseteq SUBSET T /\ IsFiniteSet(T)
  BY FS_Subset
<1>3. PICK s \in B : \A x \in s : s \ {x} \notin B
  <2> HIDE DEF B
  <2> QED
    BY ZenonT(90), <1>1, <1>2, SmallestSet
<1>4. s \in SUBSET T /\ s \in SUBSET S /\ g[s] # h[s]
  BY <1>3
<1>5. s # {}
  BY <1>4 DEF SumsOver
<1> DEFINE r == s \ {Picked(s)}
<1>6. r \in SUBSET T /\ r \notin B
  BY <1>3, <1>4, <1>5, PickedIn
<1>7. g[r] = h[r]
  BY <1>6
<1>8. g[s] = f[Picked(s)] + g[r]
  BY ZenonT(90), <1>4, <1>5 DEF SumsOver
<1>9. h[s] = f[Picked(s)] + h[r]
  BY ZenonT(90), <1>4, <1>5 DEF SumsOver
<1> QED
  BY <1>4, <1>7, <1>8, <1>9

\* What the sum over a set is: nothing, or one element and the sum of the others.
LEMMA SumStep ==
  ASSUME NEW f, NEW S, IsFiniteSet(S)
  PROVE  SumFunctionOnSet(f, S) =
           IF S = {} THEN 0
           ELSE f[Picked(S)] + SumFunctionOnSet(f, S \ {Picked(S)})
<1> DEFINE r == S \ {Picked(S)}
           g == CHOOSE g : SumsOver(f, S, g)
           h == CHOOSE h : SumsOver(f, r, h)
<1>1. SumsOver(f, S, g)
  BY SumsExist
<1>2. r \in SUBSET S /\ IsFiniteSet(r)
  BY FS_Subset
<1> HIDE DEF r
<1>3. SumsOver(f, r, h)
  BY <1>2, SumsExist
<1>4. SumFunctionOnSet(f, S) = g[S] /\ SumFunctionOnSet(f, r) = h[r]
  BY SumUnfold
<1> HIDE DEF g, h
<1>5. g[r] = h[r]
  BY <1>1, <1>2, <1>3, SumsAgree
<1>6. g[S] = IF S = {} THEN 0 ELSE f[Picked(S)] + g[r]
  BY ZenonT(90), <1>1 DEF SumsOver, r
<1> QED
  BY <1>4, <1>5, <1>6 DEF r

\* Sums of the same values are the same.
LEMMA SumSame ==
  ASSUME NEW f, NEW h, NEW S, \A x \in S : f[x] = h[x]
  PROVE  SumFunctionOnSet(f, S) = SumFunctionOnSet(h, S)
<1>1. ASSUME NEW g PROVE SumsOver(f, S, g) <=> SumsOver(h, S, g)
  <2>1. \A s \in SUBSET S : s # {} => f[Picked(s)] = h[Picked(s)]
    BY PickedIn
  <2> QED
    BY <2>1 DEF SumsOver
<1> QED
  BY <1>1, SumUnfold

\* Sums of natural numbers are natural numbers.
LEMMA SumType ==
  ASSUME NEW f, NEW S, IsFiniteSet(S), \A x \in S : f[x] \in Nat
  PROVE  SumFunctionOnSet(f, S) \in Nat
<1> DEFINE B == {s \in SUBSET S : SumFunctionOnSet(f, s) \notin Nat}
<1>1. SUFFICES ASSUME B # {} PROVE FALSE
  OBVIOUS
<1>2. PICK s \in B : \A x \in s : s \ {x} \notin B
  <2>1. B \subseteq SUBSET S
    OBVIOUS
  <2> HIDE DEF B
  <2> QED
    BY ZenonT(90), <1>1, <2>1, SmallestSet
<1>3. s \in SUBSET S /\ IsFiniteSet(s) /\ SumFunctionOnSet(f, s) \notin Nat
  BY <1>2, FS_Subset
<1>4. SumFunctionOnSet(f, s) =
        IF s = {} THEN 0 ELSE f[Picked(s)] + SumFunctionOnSet(f, s \ {Picked(s)})
  BY <1>3, SumStep
<1>5. s # {}
  BY <1>3, <1>4
<1>6. Picked(s) \in s
  BY <1>5, PickedIn
<1>7. SumFunctionOnSet(f, s \ {Picked(s)}) \in Nat
  BY <1>2, <1>3, <1>6
<1> QED
  BY <1>3, <1>4, <1>5, <1>6, <1>7

\* Any element may be taken first: the loops' order does not matter.
LEMMA SumRemove ==
  ASSUME NEW f, NEW S, IsFiniteSet(S), \A x \in S : f[x] \in Nat, NEW e \in S
  PROVE  SumFunctionOnSet(f, S) = f[e] + SumFunctionOnSet(f, S \ {e})
<1> DEFINE Sum(s) == SumFunctionOnSet(f, s)
           B == {s \in SUBSET S : \E x \in s : Sum(s) # f[x] + Sum(s \ {x})}
<1>1. SUFFICES ASSUME B # {} PROVE FALSE
  BY ZenonT(90), S \in SUBSET S
<1>2. PICK s \in B : \A x \in s : s \ {x} \notin B
  <2>1. B \subseteq SUBSET S
    OBVIOUS
  <2> HIDE DEF B
  <2> QED
    BY ZenonT(90), <1>1, <2>1, SmallestSet
<1>3. \A r \in SUBSET S : IsFiniteSet(r) /\ Sum(r) \in Nat
  BY FS_Subset, SumType
<1>4. \A r \in SUBSET S : r # {} => Sum(r) = f[Picked(r)] + Sum(r \ {Picked(r)})
  BY <1>3, SumStep
<1> HIDE DEF Sum
<1>5. PICK x \in s : Sum(s) # f[x] + Sum(s \ {x})
  BY <1>2
<1>6. s \in SUBSET S /\ s # {}
  BY <1>2, <1>5
<1> DEFINE y == Picked(s)
<1>7. y \in s /\ Sum(s) = f[y] + Sum(s \ {y})
  BY <1>4, <1>6, PickedIn
<1> HIDE DEF y
<1>8. x # y
  BY <1>5, <1>7
<1> DEFINE u == s \ {x}
           v == s \ {y}
           w == u \ {y}
<1>9. /\ u \notin B /\ u \in SUBSET S /\ y \in u
      /\ v \notin B /\ v \in SUBSET S /\ x \in v
      /\ w \in SUBSET S
  BY ZenonT(90), <1>2, <1>6, <1>7, <1>8
<1>10. Sum(v) = f[x] + Sum(v \ {x})
  BY ZenonT(90), <1>9
<1>11. Sum(u) = f[y] + Sum(w)
  BY ZenonT(90), <1>9
<1>12. Sum(v \ {x}) = Sum(w)
  <2>1. v \ {x} = w
    OBVIOUS
  <2> QED
    BY <2>1, ZenonT(90)
<1>13. f[x] \in Nat /\ f[y] \in Nat /\ Sum(w) \in Nat
  BY <1>3, <1>6, <1>7, <1>9
<1>14. Sum(s) = f[y] + Sum(v) /\ Sum(s) # f[x] + Sum(u)
  BY <1>5, <1>7
<1> HIDE DEF u, v, w, B
<1> QED
  BY <1>10, <1>11, <1>12, <1>13, <1>14

\* The sum over a set is that over a part of it and that over the rest.
LEMMA SumSplit ==
  ASSUME NEW f, NEW S, IsFiniteSet(S), \A x \in S : f[x] \in Nat, NEW T \in SUBSET S
  PROVE  SumFunctionOnSet(f, S) = SumFunctionOnSet(f, T) + SumFunctionOnSet(f, S \ T)
<1> DEFINE Sum(s) == SumFunctionOnSet(f, s)
           B == {s \in SUBSET T : Sum(S) # Sum(s) + Sum(S \ s)}
<1>1. SUFFICES ASSUME B # {} PROVE FALSE
  BY ZenonT(90), T \in SUBSET T
<1>2. PICK s \in B : \A x \in s : s \ {x} \notin B
  <2>1. B \subseteq SUBSET T /\ IsFiniteSet(T)
    BY FS_Subset
  <2> HIDE DEF B
  <2> QED
    BY ZenonT(90), <1>1, <2>1, SmallestSet
<1>3. \A r \in SUBSET S : IsFiniteSet(r) /\ Sum(r) \in Nat
  BY FS_Subset, SumType
<1>4. \A r \in SUBSET S : \A x \in r : Sum(r) = f[x] + Sum(r \ {x})
  BY ZenonT(90), <1>3, SumRemove
<1>5. Sum({}) = 0
  BY ZenonT(90), <1>3, SumStep
<1> HIDE DEF Sum
<1>6. s \in SUBSET T /\ Sum(S) # Sum(s) + Sum(S \ s)
  BY <1>2
<1>7. s # {}
  <2>1. SUFFICES ASSUME s = {} PROVE FALSE
    OBVIOUS
  <2>2. S \ s = S /\ Sum(s) = 0
    BY <1>5, <2>1, ZenonT(90)
  <2>3. Sum(S) \in Nat
    BY <1>3
  <2> QED
    BY <1>6, <2>2, <2>3
<1>8. PICK x : x \in s
  BY <1>7
<1> DEFINE r == s \ {x}
           u == S \ r
           v == S \ s
<1>9. r \in SUBSET T /\ r \notin B /\ x \in S /\ u \in SUBSET S /\ x \in u
  BY <1>2, <1>6, <1>8
<1>10. Sum(S) = Sum(r) + Sum(u)
  BY <1>9
<1>11. Sum(s) = f[x] + Sum(r)
  BY <1>4, <1>6, <1>8
<1>12. Sum(u) = f[x] + Sum(u \ {x})
  BY <1>4, <1>9
<1>13. Sum(u \ {x}) = Sum(v)
  <2>1. u \ {x} = v
    BY <1>8
  <2> QED
    BY <2>1, ZenonT(90)
<1>14. f[x] \in Nat /\ Sum(r) \in Nat /\ Sum(v) \in Nat
  BY <1>3, <1>9
<1>15. Sum(S) # Sum(s) + Sum(v)
  BY <1>6
<1> HIDE DEF r, u, v, B
<1> QED
  BY <1>10, <1>11, <1>12, <1>13, <1>14, <1>15

\* A part sums up to no more than the whole.
LEMMA SumMonotone ==
  ASSUME NEW f, NEW S, IsFiniteSet(S), \A x \in S : f[x] \in Nat, NEW T \in SUBSET S
  PROVE  SumFunctionOnSet(f, T) <= SumFunctionOnSet(f, S)
<1>1. SumFunctionOnSet(f, S) = SumFunctionOnSet(f, T) + SumFunctionOnSet(f, S \ T)
  BY SumSplit
<1>2. SumFunctionOnSet(f, T) \in Nat /\ SumFunctionOnSet(f, S \ T) \in Nat
  BY FS_Subset, SumType
<1> QED
  BY <1>1, <1>2

-----------------------------------------------------------------------------
(* Demand. *)

\* The demand of each flow in dimension d.
DemandIn(d) == [f \in DOMAIN flows |-> flows[f].demand[d]]

\* Flows and targets are well formed: what the arithmetic of a placement rests on.
WellFormed ==
  /\ policy \in Policy
  /\ DOMAIN flows \subseteq Flow /\ \A f \in DOMAIN flows : flows[f] \in FlowDescriptor
  /\ DOMAIN targets \subseteq Target /\ \A t \in DOMAIN targets : targets[t] \in TargetState
  /\ DOMAIN assignments \subseteq DOMAIN flows
  /\ scheduled \in [DOMAIN targets -> Amount]

\* The demand of a flow is an amount.
LEMMA DemandTyped ==
  ASSUME WellFormed, NEW f \in DOMAIN flows, NEW d \in Dim
  PROVE  flows[f].demand[d] \in Nat /\ flows[f].demand[d] <= MaxAmount
<1>1. flows[f].demand \in Amount
  BY DEF WellFormed, FlowDescriptor
<1> QED
  BY <1>1, PlacementAssumption DEF Amount

\* Tables of flows are finite.
LEMMA FlowsFinite ==
  ASSUME WellFormed, NEW fs \in SUBSET DOMAIN flows
  PROVE  IsFiniteSet(fs)
<1>1. fs \in SUBSET Flow
  BY DEF WellFormed
<1> QED
  BY <1>1, PlacementAssumption, FS_Subset

\* The demand of a set of flows, as a sum.
LEMMA DemandIsSum ==
  ASSUME NEW fs \in SUBSET DOMAIN flows, NEW d \in Dim
  PROVE  DemandOf(fs)[d] = SumFunctionOnSet(DemandIn(d), fs)
<1> DEFINE h == [f \in fs |-> flows[f].demand[d]]
<1>1. DemandOf(fs)[d] = SumFunctionOnSet(h, fs)
  BY DEF DemandOf, SumFunction
<1>2. \A f \in fs : h[f] = DemandIn(d)[f]
  BY DEF DemandIn
<1> HIDE DEF h
<1> QED
  BY <1>1, <1>2, SumSame

\* The demand of a set of flows is a natural number.
LEMMA DemandNat ==
  ASSUME WellFormed, NEW fs \in SUBSET DOMAIN flows, NEW d \in Dim
  PROVE  DemandOf(fs)[d] \in Nat
<1>1. \A f \in fs : DemandIn(d)[f] \in Nat
  BY DemandTyped DEF DemandIn
<1> QED
  BY <1>1, FlowsFinite, DemandIsSum, SumType

\* The demand of a set of flows is that of a part of it and that of the rest.
LEMMA DemandSplit ==
  ASSUME WellFormed, NEW fs \in SUBSET DOMAIN flows, NEW gs \in SUBSET fs, NEW d \in Dim
  PROVE  DemandOf(fs)[d] = DemandOf(gs)[d] + DemandOf(fs \ gs)[d]
<1>1. \A f \in fs : DemandIn(d)[f] \in Nat
  BY DemandTyped DEF DemandIn
<1>2. SumFunctionOnSet(DemandIn(d), fs)
      = SumFunctionOnSet(DemandIn(d), gs) + SumFunctionOnSet(DemandIn(d), fs \ gs)
  BY <1>1, FlowsFinite, SumSplit
<1> QED
  BY <1>2, DemandIsSum

\* A part of a set of flows demands no more than the set.
LEMMA DemandMonotone ==
  ASSUME WellFormed, NEW fs \in SUBSET DOMAIN flows, NEW gs \in SUBSET fs, NEW d \in Dim
  PROVE  DemandOf(gs)[d] <= DemandOf(fs)[d]
<1>1. DemandOf(fs)[d] = DemandOf(gs)[d] + DemandOf(fs \ gs)[d]
  BY DemandSplit
<1>2. DemandOf(gs)[d] \in Nat /\ DemandOf(fs \ gs)[d] \in Nat
  BY DemandNat
<1> QED
  BY <1>1, <1>2

\* One flow can be taken out of a set of flows and its demand counted apart.
LEMMA DemandOfOne ==
  ASSUME WellFormed, NEW fs \in SUBSET DOMAIN flows, NEW f \in fs, NEW d \in Dim
  PROVE  DemandOf(fs)[d] = flows[f].demand[d] + DemandOf(fs \ {f})[d]
<1>1. \A g \in fs : DemandIn(d)[g] \in Nat
  BY DemandTyped DEF DemandIn
<1>2. SumFunctionOnSet(DemandIn(d), fs)
      = DemandIn(d)[f] + SumFunctionOnSet(DemandIn(d), fs \ {f})
  BY <1>1, FlowsFinite, SumRemove
<1>3. DemandIn(d)[f] = flows[f].demand[d]
  BY DEF DemandIn
<1> QED
  BY <1>2, <1>3, DemandIsSum

\* Flows without demand in a dimension add nothing to it.
LEMMA DemandOfNothing ==
  ASSUME WellFormed, NEW fs \in SUBSET DOMAIN flows, NEW d \in Dim,
         \A f \in fs : flows[f].demand[d] = 0
  PROVE  DemandOf(fs)[d] = 0
<1> DEFINE B == {s \in SUBSET fs : DemandOf(s)[d] # 0}
<1>1. SUFFICES ASSUME B # {} PROVE FALSE
  BY fs \in SUBSET fs
<1>2. PICK s \in B : \A x \in s : s \ {x} \notin B
  <2>1. B \subseteq SUBSET fs /\ IsFiniteSet(fs)
    BY FlowsFinite
  <2> HIDE DEF B
  <2> QED
    BY ZenonT(90), <1>1, <2>1, SmallestSet
<1>3. s \in SUBSET fs /\ s \in SUBSET DOMAIN flows /\ DemandOf(s)[d] # 0
  BY <1>2
<1>4. s # {}
  <2>1. DemandOf({})[d] = SumFunctionOnSet(DemandIn(d), {})
    BY DemandIsSum
  <2>2. DemandOf({})[d] = 0
    BY ZenonT(90), <2>1, SumStep, FS_EmptySet
  <2> QED
    BY <1>3, <2>2
<1>5. PICK x : x \in s
  BY <1>4
<1>6. DemandOf(s)[d] = flows[x].demand[d] + DemandOf(s \ {x})[d]
  BY <1>3, <1>5, DemandOfOne
<1>7. DemandOf(s \ {x})[d] = 0
  BY <1>2, <1>3, <1>5
<1>8. flows[x].demand[d] = 0
  BY <1>3, <1>5
<1> QED
  BY <1>3, <1>6, <1>7, <1>8

\* What recompute_scheduled_locked leaves is the clamped demand of the flows that
\* are assigned to the target.
LEMMA RecomputedIs ==
  ASSUME NEW as, DOMAIN as \subseteq DOMAIN flows, NEW ts, NEW t \in DOMAIN ts
  PROVE  Recomputed(flows, ts, as)[t] = Clamp(DemandOf(OnTarget(as, t)))
<1>1. OnTarget(as, t) \cap DOMAIN flows = OnTarget(as, t)
  BY ZenonT(90) DEF OnTarget
<1>2. Recomputed(flows, ts, as)[t]
      = Clamp([d \in Dim |-> SumFunction(
                 [f \in OnTarget(as, t) \cap DOMAIN flows |-> flows[f].demand[d]])])
  BY DEF Recomputed
<1> QED
  BY <1>1, <1>2, ZenonT(90) DEF DemandOf

\* A clamped vector of natural numbers is an amount.
LEMMA ClampTyped ==
  ASSUME NEW a \in [Dim -> Nat]
  PROVE  Clamp(a) \in Amount
BY PlacementAssumption DEF Clamp, Fits, Saturated, Amount

-----------------------------------------------------------------------------
(* The load a target is evaluated with. *)

\* The demand of a set of flows is a vector of natural numbers.
LEMMA DemandVector ==
  ASSUME WellFormed, NEW fs \in SUBSET DOMAIN flows
  PROVE  DemandOf(fs) \in [Dim -> Nat]
<1>1. \A d \in Dim : DemandOf(fs)[d] \in Nat
  BY DemandNat
<1>2. DemandOf(fs) = [d \in Dim |-> SumFunction([f \in fs |-> flows[f].demand[d]])]
  BY DEF DemandOf
<1> HIDE DEF DemandOf
<1> QED
  BY <1>1, <1>2

\* Amounts are vectors of natural numbers.
LEMMA AmountVector ==
  ASSUME NEW a \in Amount
  PROVE  a \in [Dim -> Nat]
BY PlacementAssumption DEF Amount

\* What the operations on vectors return.
LEMMA PlusTyped ==
  ASSUME NEW a \in [Dim -> Nat], NEW b \in [Dim -> Nat]
  PROVE  Plus(a, b) \in [Dim -> Nat]
BY DEF Plus

\* A vector whose components are sums is the sum.
LEMMA PlusIs ==
  ASSUME NEW a \in [Dim -> Nat], NEW b \in [Dim -> Nat], NEW c \in [Dim -> Nat],
         \A d \in Dim : c[d] = b[d] + a[d]
  PROVE  c = Plus(a, b)
<1>1. \A d \in Dim : c[d] = a[d] + b[d]
  OBVIOUS
<1> QED
  BY <1>1 DEF Plus

\* A difference of vectors is the vector to which the same is added.
LEMMA SubIs ==
  ASSUME NEW a \in [Dim -> Nat], NEW b \in [Dim -> Nat], NEW c \in [Dim -> Nat],
         NEW p \in [Dim -> Nat], \A d \in Dim : p[d] + c[d] = a[d] + b[d]
  PROVE  SaturatingSub(Plus(a, b), c) = p
<1> DEFINE diff == SaturatingSub(Plus(a, b), c)
<1>1. diff = [d \in Dim |-> diff[d]]
  BY DEF SaturatingSub
<1>2. ASSUME NEW d \in Dim PROVE diff[d] = p[d]
  <2>1. diff[d] = IF a[d] + b[d] > c[d] THEN a[d] + b[d] - c[d] ELSE 0
    BY DEF SaturatingSub, Plus
  <2>2. p[d] + c[d] = a[d] + b[d]
    OBVIOUS
  <2> HIDE DEF diff
  <2> QED
    BY <2>1, <2>2
<1> HIDE DEF diff
<1>3. diff = p
  BY <1>1, <1>2
<1> QED
  BY <1>3 DEF diff

\* The larger of two loads rises by no more than one of them does.
LEMMA LargerRises ==
  ASSUME NEW obs \in [Dim -> Nat], NEW low \in [Dim -> Nat], NEW high \in [Dim -> Nat],
         NEW dem \in [Dim -> Nat], Fits(Plus(Larger(obs, low), dem)),
         NEW d \in Dim, Fits(Plus(low, dem)) => high[d] <= low[d] + dem[d]
  PROVE  Larger(obs, high)[d] <= Plus(Larger(obs, low), dem)[d]
<1>1. MaxAmount \in Nat
  BY PlacementAssumption
<1>2. Fits(Plus(low, dem))
  BY <1>1 DEF Fits, Plus, Larger
<1>3. high[d] <= low[d] + dem[d]
  BY <1>2
<1> QED
  BY <1>3 DEF Larger, Plus

\* So does the sum of two loads.
LEMMA SumRises ==
  ASSUME NEW obs \in [Dim -> Nat], NEW low \in [Dim -> Nat], NEW high \in [Dim -> Nat],
         NEW dem \in [Dim -> Nat], Fits(Plus(Plus(obs, low), dem)),
         NEW d \in Dim, Fits(Plus(low, dem)) => high[d] <= low[d] + dem[d]
  PROVE  Plus(obs, high)[d] <= Plus(Plus(obs, low), dem)[d]
<1>1. MaxAmount \in Nat
  BY PlacementAssumption
<1>2. Fits(Plus(low, dem))
  BY <1>1 DEF Fits, Plus
<1>3. high[d] <= low[d] + dem[d]
  BY <1>2
<1> QED
  BY <1>3 DEF Plus

\* A sum is no lower than what is added to, and a load that rises by no more than a
\* sum that fits stays within it.
LEMMA PlusCovers ==
  ASSUME NEW low \in [Dim -> Nat], NEW high \in [Dim -> Nat], NEW dem \in [Dim -> Nat],
         NEW d \in Dim
  PROVE  /\ low[d] <= Plus(low, dem)[d]
         /\ high[d] <= low[d] + dem[d] => high[d] <= Plus(low, dem)[d]
BY DEF Plus

\* saturating_sub leaves an amount: it never goes below zero.
LEMMA SubTyped ==
  ASSUME NEW a \in Amount, NEW b \in [Dim -> Nat]
  PROVE  SaturatingSub(a, b) \in Amount
<1>1. \A d \in Dim : a[d] \in 0..MaxAmount
  BY DEF Amount
<1>2. \A d \in Dim : (IF a[d] > b[d] THEN a[d] - b[d] ELSE 0) \in 0..MaxAmount
  BY <1>1, PlacementAssumption
<1> QED
  BY <1>2 DEF SaturatingSub, Amount

\* What a batch adds to a target and takes off it are flows that are registered,
\* when all that it changes are.
LEMMA PlannedKnown ==
  ASSUME WellFormed, NEW plan, Changed(plan) \subseteq DOMAIN flows, NEW t
  PROVE  /\ PlannedAdd(plan, t) \in SUBSET DOMAIN flows
         /\ PlannedRelease(plan, t) \in SUBSET DOMAIN flows
BY DEF PlannedAdd, PlannedRelease

\* The cached demand with the changes of a batch is an amount.
LEMMA LocalTyped ==
  ASSUME WellFormed, NEW plan, Changed(plan) \subseteq DOMAIN flows,
         NEW t \in DOMAIN targets
  PROVE  LocalScheduled(plan, t) \in Amount
<1> DEFINE add == DemandOf(PlannedAdd(plan, t))
           release == DemandOf(PlannedRelease(plan, t))
<1>1. add \in [Dim -> Nat] /\ release \in [Dim -> Nat]
  BY PlannedKnown, DemandVector
<1>2. scheduled[t] \in Amount
  BY DEF WellFormed
<1>3. LocalScheduled(plan, t) =
        SaturatingSub(Clamp(Plus(scheduled[t], Clamp(add))), Clamp(release))
  BY DEF LocalScheduled
<1> HIDE DEF add, release
<1>4. Clamp(add) \in [Dim -> Nat] /\ Clamp(release) \in [Dim -> Nat]
  BY <1>1, ClampTyped, AmountVector
<1>5. Plus(scheduled[t], Clamp(add)) \in [Dim -> Nat]
  BY <1>2, <1>4, AmountVector, PlusTyped
<1>6. Clamp(Plus(scheduled[t], Clamp(add))) \in Amount
  BY <1>5, ClampTyped
<1> QED
  BY <1>3, <1>4, <1>6, SubTyped

\* The descriptor, load and reserve that an evaluation reads.
LEMMA TargetTyped ==
  ASSUME WellFormed, NEW t \in DOMAIN targets
  PROVE  /\ targets[t].descriptor.capacity \in Amount
         /\ targets[t].descriptor.reserved \in Amount
         /\ targets[t].descriptor.cost \in Nat
         /\ targets[t].descriptor.incarnation \in Nat \ {0}
         /\ targets[t].load.used \in Amount
<1>1. targets[t] \in TargetState
  BY DEF WellFormed
<1>2. targets[t].descriptor \in Declaration /\ targets[t].load \in Load
  BY <1>1 DEF TargetState
<1>3. targets[t].load.used \in Amount
  BY <1>2 DEF Load
<1> DEFINE d == targets[t].descriptor
<1> HIDE DEF d
<1>4. d \in Declaration
  BY <1>2 DEF d
<1>5. /\ d.capacity \in Amount /\ d.reserved \in Amount
      /\ d.cost \in Nat /\ d.incarnation \in Nat \ {0}
  BY <1>4 DEF Declaration
<1> QED
  BY <1>3, <1>5 DEF d

\* The parts of the policy an evaluation reads.
LEMMA PolicyTyped ==
  ASSUME WellFormed
  PROVE  policy.reserve \in Amount /\ policy.load_model \in LoadModel
<1>1. policy \in Policy
  BY DEF WellFormed
<1> QED
  BY <1>1 DEF Policy

\* effective_load_locked returns a vector of natural numbers.
LEMMA LoadTyped ==
  ASSUME WellFormed, NEW t \in DOMAIN targets, NEW sched \in Amount, NEW fresh
  PROVE  LoadUsed(t, sched, fresh) \in [Dim -> Nat]
<1> DEFINE obs == Observed(t, fresh)
<1>1. obs \in [Dim -> Nat] /\ Zero \in [Dim -> Nat] /\ sched \in [Dim -> Nat]
  BY TargetTyped, AmountVector DEF Observed, Zero
<1>2. LoadUsed(t, sched, fresh) \in {Zero, obs, sched, Larger(obs, sched), Plus(obs, sched)}
  BY PolicyTyped DEF LoadUsed, LoadModel
<1> HIDE DEF obs
<1>3. Larger(obs, sched) \in [Dim -> Nat]
  BY <1>1 DEF Larger
<1>4. Plus(obs, sched) \in [Dim -> Nat]
  BY <1>1, PlusTyped
<1> QED
  BY <1>1, <1>2, <1>3, <1>4

-----------------------------------------------------------------------------
(* Ranking. *)

\* A utilisation is clamped to twice the capacity.
LEMMA PpmTyped ==
  ASSUME NEW u \in Nat, NEW c \in Nat, c # 0
  PROVE  PpmOf(u, c) \in Nat /\ PpmOf(u, c) <= PpmSaturated /\ PpmSaturated \in Nat
<1>1. (u * 1000000) \div c \in Nat
  <2>1. u * 1000000 \in Nat
    BY SMTT(30), SMTT(60)
  <2>2. \A n \in Nat : n \div c \in Nat
    OBVIOUS
  <2> QED
    BY <2>1, <2>2, SMTT(30), SMTT(60)
<1>2. PpmSaturated \in Nat
  BY SMTT(30), SMTT(60) DEF PpmSaturated
<1> QED
  BY <1>1, <1>2, SMTT(30), SMTT(60) DEF PpmOf

\* The utilisation of a target is that of the dimension that is used most.
LEMMA UtilisationIsMost ==
  ASSUME NEW u \in [Dim -> Nat], NEW c \in [Dim -> Nat], \A d \in Dim : c[d] # 0
  PROVE  /\ UtilisationPpm(u, c) \in Nat
         /\ \E d \in Dim : UtilisationPpm(u, c) = PpmOf(u[d], c[d])
         /\ \A d \in Dim : UtilisationPpm(u, c) >= PpmOf(u[d], c[d])
<1> DEFINE R == Range([d \in Dim |-> PpmOf(u[d], c[d])])
           T == {PpmSaturated - p : p \in R}
<1>1. /\ R # {} /\ PpmSaturated \in Nat
      /\ \A p \in R : p \in Nat /\ p <= PpmSaturated
  BY PpmTyped, PlacementAssumption DEF Range
<1>2. UtilisationPpm(u, c) = CHOOSE p \in R : \A q \in R : p >= q
  BY DEF UtilisationPpm
<1>3. R = {PpmOf(u[d], c[d]) : d \in Dim}
  BY DEF Range
<1> HIDE DEF R
<1>4. T \subseteq Nat /\ T # {}
  BY <1>1
<1>5. PICK n \in T : \A m \in T : n <= m
  <2> HIDE DEF T
  <2> QED
    BY ZenonT(90), <1>4, LeastNumber
<1>6. \E p \in R : \A q \in R : p >= q
  <2>1. PICK p \in R : n = PpmSaturated - p
    BY <1>5
  <2>2. ASSUME NEW q \in R PROVE p >= q
    <3>1. n <= PpmSaturated - q
      BY <1>5
    <3> QED
      BY <1>1, <2>1, <3>1
  <2> QED
    BY <2>2
<1>7. UtilisationPpm(u, c) \in R /\ \A q \in R : UtilisationPpm(u, c) >= q
  BY <1>2, <1>6, ZenonT(90)
<1> QED
  BY <1>1, <1>3, <1>7, ZenonT(90)

\* The utilisation of a target is a number.
LEMMA UtilisationTyped ==
  ASSUME NEW u \in [Dim -> Nat], NEW c \in [Dim -> Nat], \A d \in Dim : c[d] # 0
  PROVE  UtilisationPpm(u, c) \in Nat
BY UtilisationIsMost

\* Division rounds down, so it keeps the order of what is divided.
LEMMA QuotientMonotone ==
  ASSUME NEW a \in Nat, NEW b \in Nat, a <= b, NEW c \in Nat, c # 0
  PROVE  a \div c <= b \div c
<1> DEFINE x == a \div c
           y == b \div c
<1>1. x \in Nat /\ c * x <= a
  BY SMTT(30), SMTT(60)
<1>2. y \in Nat /\ b < c * (y + 1)
  BY SMTT(30), SMTT(60)
<1> HIDE DEF x, y
<1>3. x <= y
  <2>1. SUFFICES ASSUME x >= y + 1 PROVE FALSE
    BY <1>1, <1>2, SMTT(30), SMTT(60)
  <2>2. c * x >= c * (y + 1)
    BY <1>1, <1>2, <2>1, SMTT(30), SMTT(60)
  <2>3. c * x \in Nat /\ c * (y + 1) \in Nat
    BY <1>1, <1>2, SMTT(30), SMTT(60)
  <2> QED
    BY <1>1, <1>2, <2>2, <2>3, SMTT(30), SMTT(60)
<1> QED
  BY <1>3 DEF x, y

\* A resource that is used more has no smaller utilisation.
LEMMA PpmMonotone ==
  ASSUME NEW a \in Nat, NEW b \in Nat, a <= b, NEW c \in Nat, c # 0
  PROVE  PpmOf(a, c) <= PpmOf(b, c)
<1> DEFINE x == (a * 1000000) \div c
           y == (b * 1000000) \div c
<1>1. a * 1000000 \in Nat /\ b * 1000000 \in Nat /\ a * 1000000 <= b * 1000000
  BY SMTT(30), SMTT(60)
<1>2. x <= y
  BY <1>1, QuotientMonotone, SMTT(30), SMTT(60)
<1>3. PpmSaturated \in Nat
  BY SMTT(30), SMTT(60) DEF PpmSaturated
<1>4. x \in Nat /\ y \in Nat
  <2>1. \A n \in Nat : n \div c \in Nat
    OBVIOUS
  <2> QED
    BY <1>1, <2>1, SMTT(30), SMTT(60)
<1>5. /\ PpmOf(a, c) = IF x > PpmSaturated THEN PpmSaturated ELSE x
      /\ PpmOf(b, c) = IF y > PpmSaturated THEN PpmSaturated ELSE y
  BY SMTT(30), SMTT(60) DEF PpmOf
<1> HIDE DEF x, y
<1> QED
  BY <1>2, <1>3, <1>4, <1>5, SMTT(30), SMTT(60)

\* A target that is used more in every dimension has no smaller utilisation.
LEMMA UtilisationMonotone ==
  ASSUME NEW u \in [Dim -> Nat], NEW v \in [Dim -> Nat], \A d \in Dim : u[d] <= v[d],
         NEW c \in [Dim -> Nat], \A d \in Dim : c[d] # 0
  PROVE  UtilisationPpm(u, c) <= UtilisationPpm(v, c)
<1>1. PICK d \in Dim : UtilisationPpm(u, c) = PpmOf(u[d], c[d])
  BY UtilisationIsMost
<1>2. PpmOf(u[d], c[d]) <= PpmOf(v[d], c[d])
  BY PpmMonotone
<1>3. UtilisationPpm(v, c) >= PpmOf(v[d], c[d]) /\ UtilisationPpm(v, c) \in Nat
  BY UtilisationIsMost
<1>4. PpmOf(u[d], c[d]) \in Nat /\ PpmOf(v[d], c[d]) \in Nat
  BY ZenonT(90), PpmTyped
<1> QED
  BY <1>1, <1>2, <1>3, <1>4

\* Rank keys of natural numbers that differ in the last place are totally ordered:
\* among the candidates there is one that compare_rank puts before all others.
LEMMA FirstExists ==
  ASSUME NEW T, T # {}, T \subseteq Nat, NEW key,
         \A t \in T : /\ key[t][1] \in Nat /\ key[t][2] \in Nat /\ key[t][3] \in Nat
                      /\ key[t][4] \in Nat /\ key[t][5] = t
  PROVE  \E t \in T : \A u \in T \ {t} : Precedes(key[t], key[u])
<1> DEFINE Least(S, i) == {t \in S : \A u \in S : key[t][i] <= key[u][i]}
<1>1. ASSUME NEW S \in SUBSET T, S # {}, NEW i \in {1, 2, 3, 4, 5}
      PROVE  Least(S, i) # {}
  <2> DEFINE N == {key[t][i] : t \in S}
  <2>1. \A t \in S : key[t][i] \in Nat
    <3>1. \A t \in S : t \in T /\ t \in Nat
      BY ZenonT(90), <1>1
    <3>2. CASE i = 5
      BY <3>1, <3>2
    <3>3. CASE i # 5
      BY <3>1, <3>3
    <3> QED
      BY <3>2, <3>3
  <2>2. N \subseteq Nat /\ N # {}
    BY ZenonT(90), <1>1, <2>1
  <2>3. PICK n \in N : \A m \in N : n <= m
    <3> HIDE DEF N
    <3> QED
      BY ZenonT(90), <2>2, LeastNumber
  <2>4. PICK t \in S : n = key[t][i]
    BY <2>3
  <2>5. \A u \in S : key[t][i] <= key[u][i]
    BY <2>3, <2>4
  <2> QED
    BY <2>4, <2>5
<1> DEFINE T1 == Least(T, 1)
           T2 == Least(T1, 2)
           T3 == Least(T2, 3)
           T4 == Least(T3, 4)
           T5 == Least(T4, 5)
<1>2. T1 # {} /\ T1 \in SUBSET T
  BY ZenonT(90), <1>1
<1>3. T2 # {} /\ T2 \in SUBSET T1
  <2> HIDE DEF T1
  <2> QED
    BY ZenonT(90), <1>1, <1>2
<1>4. T3 # {} /\ T3 \in SUBSET T2
  <2> HIDE DEF T1, T2
  <2> QED
    BY ZenonT(90), <1>1, <1>2, <1>3
<1>5. T4 # {} /\ T4 \in SUBSET T3
  <2> HIDE DEF T1, T2, T3
  <2> QED
    BY ZenonT(90), <1>1, <1>2, <1>3, <1>4
<1>6. T5 # {} /\ T5 \in SUBSET T4
  <2> HIDE DEF T1, T2, T3, T4
  <2> QED
    BY ZenonT(90), <1>1, <1>2, <1>3, <1>4, <1>5
<1>7. PICK t : t \in T5
  BY ZenonT(90), <1>6
<1>8. t \in T1 /\ t \in T2 /\ t \in T3 /\ t \in T4 /\ t \in T
  <2> HIDE DEF T1, T2, T3, T4, T5
  <2> QED
    BY <1>2, <1>3, <1>4, <1>5, <1>6, <1>7
<1>9. ASSUME NEW u \in T \ {t}
      PROVE  Precedes(key[t], key[u])
  <2> DEFINE a == key[t]
             b == key[u]
  <2>1. /\ a[1] \in Nat /\ a[2] \in Nat /\ a[3] \in Nat /\ a[4] \in Nat /\ a[5] = t
        /\ b[1] \in Nat /\ b[2] \in Nat /\ b[3] \in Nat /\ b[4] \in Nat /\ b[5] = u
        /\ t \in Nat /\ u \in Nat
    BY ZenonT(90), <1>8
  <2>2. a[1] <= b[1]
    BY ZenonT(90), <1>8
  <2>3. a[1] = b[1] => u \in T1
    BY ZenonT(90), <1>8, <2>1
  <2>4. u \in T1 => a[2] <= b[2]
    <3> HIDE DEF T1
    <3> QED
      BY ZenonT(90), <1>8
  <2>5. u \in T1 /\ a[2] = b[2] => u \in T2
    <3> HIDE DEF T1
    <3> QED
      BY <1>8, <2>1
  <2>6. u \in T2 => a[3] <= b[3]
    <3> HIDE DEF T2
    <3> QED
      BY <1>8
  <2>7. u \in T2 /\ a[3] = b[3] => u \in T3
    <3> HIDE DEF T2
    <3> QED
      BY <1>8, <2>1
  <2>8. u \in T3 => a[4] <= b[4]
    <3> HIDE DEF T3
    <3> QED
      BY ZenonT(90), <1>8
  <2>9. u \in T3 /\ a[4] = b[4] => u \in T4
    <3> HIDE DEF T3
    <3> QED
      BY <1>8, <2>1
  <2>10. u \in T4 => a[5] <= b[5]
    <3> HIDE DEF T4
    <3> QED
      BY <1>7
  <2> HIDE DEF T1, T2, T3, T4, T5, a, b
  <2>11. \/ a[1] < b[1]
         \/ a[1] = b[1] /\ a[2] < b[2]
         \/ a[1] = b[1] /\ a[2] = b[2] /\ a[3] < b[3]
         \/ a[1] = b[1] /\ a[2] = b[2] /\ a[3] = b[3] /\ a[4] < b[4]
         \/ a[1] = b[1] /\ a[2] = b[2] /\ a[3] = b[3] /\ a[4] = b[4] /\ a[5] < b[5]
    BY <2>1, <2>2, <2>3, <2>4, <2>5, <2>6, <2>7, <2>8, <2>9, <2>10, <1>9
  <2>12. Precedes(a, b)
    BY <2>11 DEF Precedes
  <2> QED
    BY <2>12 DEF a, b
<1> QED
  BY <1>8, <1>9

-----------------------------------------------------------------------------
(* Decisions. *)

\* Every part of the rank key of an eligible target is a number, and the last one
\* is the target.
LEMMA RankKeyTyped ==
  ASSUME WellFormed, NEW plan, Changed(plan) \subseteq DOMAIN flows, NEW fresh,
         NEW f \in DOMAIN flows, NEW t \in DOMAIN targets, Eligible(f, t, plan, fresh),
         NEW key, key = RankKey(f, t, plan, fresh)
  PROVE  /\ key[1] \in Nat /\ key[2] \in Nat /\ key[3] \in Nat
         /\ key[4] \in Nat /\ key[5] = t
<1> DEFINE used == LoadUsed(t, LocalScheduled(plan, t), fresh)
           capacity == targets[t].descriptor.capacity
<1>1. used \in [Dim -> Nat]
  BY LocalTyped, LoadTyped
<1>2. flows[f].demand \in [Dim -> Nat]
  BY AmountVector DEF WellFormed, FlowDescriptor
<1>3. Plus(used, flows[f].demand) \in [Dim -> Nat]
  <2> HIDE DEF used
  <2> QED
    BY <1>1, <1>2, PlusTyped
<1>4. capacity \in [Dim -> Nat]
  BY TargetTyped, AmountVector
<1>5. \A d \in Dim : capacity[d] # 0
  BY ZenonT(90) DEF Eligible, HasRoom
<1>6. PpmWith(f, t, plan, fresh) = UtilisationPpm(Plus(used, flows[f].demand), capacity)
  BY DEF PpmWith
<1>7. PpmWith(f, t, plan, fresh) \in Nat
  <2> HIDE DEF used, capacity
  <2> QED
    BY ZenonT(90), <1>3, <1>4, <1>5, <1>6, UtilisationTyped
<1>8. targets[t].descriptor.cost \in Nat
  BY TargetTyped
<1> QED
  BY <1>7, <1>8 DEF RankKey

\* The best of some eligible targets is one of them.
LEMMA BestOfIn ==
  ASSUME WellFormed, NEW plan, Changed(plan) \subseteq DOMAIN flows, NEW fresh,
         NEW f \in DOMAIN flows, NEW ranked \in SUBSET DOMAIN targets, ranked # {},
         \A t \in ranked : Eligible(f, t, plan, fresh)
  PROVE  BestOf(ranked, f, plan, fresh) \in ranked
<1> DEFINE key == [t \in ranked |-> RankKey(f, t, plan, fresh)]
<1>1. \A t \in ranked : key[t] = RankKey(f, t, plan, fresh)
  OBVIOUS
<1> HIDE DEF key
<1>2. \A t \in ranked : /\ key[t][1] \in Nat /\ key[t][2] \in Nat /\ key[t][3] \in Nat
                        /\ key[t][4] \in Nat /\ key[t][5] = t
  BY <1>1, RankKeyTyped
<1>3. ranked \subseteq Nat
  BY ZenonT(90), PlacementAssumption DEF WellFormed
<1>4. PICK t \in ranked : \A u \in ranked \ {t} : Precedes(key[t], key[u])
  BY ZenonT(90), <1>2, <1>3, FirstExists
<1>5. \A u \in ranked \ {t} :
        Precedes(RankKey(f, t, plan, fresh), RankKey(f, u, plan, fresh))
  BY <1>1, <1>4
<1> QED
  BY <1>5, ZenonT(90) DEF BestOf

\* A flow is refused, or it is a registered flow placed on a target that was eligible
\* next to what the batch had planned before it.
LEMMA DecisionIs ==
  ASSUME WellFormed, NEW plan, Changed(plan) \subseteq DOMAIN flows, NEW fresh, NEW f,
         NEW t, t = Decision(f, plan, fresh), t # NoTarget
  PROVE  f \in DOMAIN flows /\ t \in DOMAIN targets /\ Eligible(f, t, plan, fresh)
<1> DEFINE ranked == Candidates(f, plan, fresh)
<1>1. f \in DOMAIN flows /\ ranked # {} /\ t = BestOf(ranked, f, plan, fresh)
  BY DEF Decision, Best
<1>2. /\ ranked \in SUBSET DOMAIN targets
      /\ \A u \in ranked : Eligible(f, u, plan, fresh)
  BY DEF Candidates
<1> HIDE DEF ranked
<1>3. t \in ranked
  BY <1>1, <1>2, BestOfIn
<1> QED
  BY <1>1, <1>2, <1>3

-----------------------------------------------------------------------------
(* The plan of a batch, flow by flow. *)

\* The plan once flow f is decided.
Decided(plan, f, fresh) == Put(plan, f, Decision(f, plan, fresh))

\* The recursion that defines the plans of the batches among the flows of S.
PlansOver(fresh, S, g) ==
  g = [s \in SUBSET S |->
         IF s = {} THEN NoPlan ELSE Decided(g[s \ {DecidedLast(s)}], DecidedLast(s), fresh)]
SmallPlans(fresh, S, n, g) ==
  g = [s \in Small(S, n) |->
         IF s = {} THEN NoPlan ELSE Decided(g[s \ {DecidedLast(s)}], DecidedLast(s), fresh)]

\* The plan unfolded to its recursion.
LEMMA PlanUnfold ==
  ASSUME NEW batch, NEW fresh
  PROVE  PlanOf(batch, fresh) = (CHOOSE g : PlansOver(fresh, batch, g))[batch]
BY DEF PlanOf, MapThenFoldSet, PlansOver, Decided, NoPlan

\* The flows of a batch are finitely many numbers, and one of them is last.
LEMMA LastIn ==
  ASSUME NEW S \in SUBSET Flow, S # {}
  PROVE  DecidedLast(S) \in S /\ \A f \in S : f <= DecidedLast(S)
<1>1. S \subseteq Nat /\ IsFiniteSet(S)
  BY ZenonT(90), PlacementAssumption, FS_Subset
<1>2. PICK x \in S : \A y \in S : x >= y
  BY ZenonT(90), <1>1, GreatestNumber
<1>3. \A y \in S : y <= x
  BY <1>1, <1>2
<1> QED
  BY <1>3, ZenonT(90) DEF DecidedLast

\* Batches are finite.
LEMMA BatchFinite ==
  ASSUME NEW S \in SUBSET Flow
  PROVE  /\ IsFiniteSet(S)
         /\ \A s \in SUBSET S : IsFiniteSet(s) /\ Cardinality(s) \in Nat
<1>1. IsFiniteSet(S)
  BY ZenonT(90), PlacementAssumption, FS_Subset
<1> QED
  BY <1>1, FS_Subset, FS_CardinalityType

\* Plans of batches of n flows give those of batches of one more.
LEMMA PlansGrow ==
  ASSUME NEW fresh, NEW S \in SUBSET Flow, NEW n \in Nat, NEW g,
         SmallPlans(fresh, S, n, g)
  PROVE  \E h : SmallPlans(fresh, S, n + 1, h)
<1> DEFINE h == [s \in Small(S, n + 1) |->
                   IF s = {} THEN NoPlan
                   ELSE IF Cardinality(s) <= n THEN g[s]
                   ELSE Decided(g[s \ {DecidedLast(s)}], DecidedLast(s), fresh)]
<1>1. \A s \in SUBSET S : IsFiniteSet(s) /\ Cardinality(s) \in Nat
  BY BatchFinite
<1>2. ASSUME NEW s \in Small(S, n + 1)
      PROVE  h[s] = IF s = {} THEN NoPlan
             ELSE Decided(h[s \ {DecidedLast(s)}], DecidedLast(s), fresh)
  <2>1. CASE s = {}
    BY ZenonT(90), <2>1
  <2>2. CASE s # {}
    <3> DEFINE r == s \ {DecidedLast(s)}
    <3>1. s \in SUBSET S /\ r \in SUBSET S
      BY DEF Small
    <3>2. DecidedLast(s) \in s
      BY <2>2, <3>1, LastIn
    <3>3. Cardinality(s) <= n + 1
      BY DEF Small
    <3>4. Cardinality(r) = Cardinality(s) - 1
      BY <1>1, <3>1, <3>2, FS_RemoveElement
    <3>5. r \in Small(S, n) /\ r \in Small(S, n + 1)
      BY <1>1, <3>1, <3>3, <3>4 DEF Small
    <3> HIDE DEF r
    <3>6. h[r] = IF r = {} THEN NoPlan ELSE g[r]
      BY ZenonT(90), <3>5 DEF Small
    <3>7. h[r] = g[r]
      BY ZenonT(90), <3>5, <3>6 DEF SmallPlans
    <3>8. CASE Cardinality(s) <= n
      <4>1. s \in Small(S, n)
        BY <3>1, <3>8 DEF Small
      <4>2. g[s] = Decided(g[r], DecidedLast(s), fresh)
        BY ZenonT(90), <4>1, <2>2 DEF SmallPlans, r
      <4>3. h[s] = g[s]
        BY <2>2, <3>8
      <4> QED
        BY ZenonT(90), <4>2, <4>3, <3>7, <2>2 DEF r
    <3>9. CASE ~(Cardinality(s) <= n)
      <4>1. h[s] = Decided(g[r], DecidedLast(s), fresh)
        BY ZenonT(90), <2>2, <3>9 DEF r
      <4> QED
        BY ZenonT(90), <4>1, <3>7, <2>2 DEF r
    <3> QED
      BY ZenonT(90), <3>8, <3>9
  <2> QED
    BY ZenonT(90), <2>1, <2>2
<1>3. h = [s \in Small(S, n + 1) |-> h[s]]
  BY ZenonT(90)
<1> HIDE DEF h
<1>4. SmallPlans(fresh, S, n + 1, h)
  BY ZenonT(90), <1>2, <1>3 DEF SmallPlans
<1> QED
  BY <1>4

\* The plans of all batches among finitely many flows exist.
LEMMA PlansExist ==
  ASSUME NEW fresh, NEW S \in SUBSET Flow
  PROVE  \E g : PlansOver(fresh, S, g)
<1> DEFINE T == {n \in Nat : ~\E g : SmallPlans(fresh, S, n, g)}
<1>1. \E g : SmallPlans(fresh, S, 0, g)
  <2> DEFINE g == [s \in Small(S, 0) |-> NoPlan]
  <2>1. \A s \in Small(S, 0) : s = {}
    BY BatchFinite, SmallBounds
  <2>2. SmallPlans(fresh, S, 0, g)
    BY <2>1 DEF SmallPlans
  <2> QED
    BY <2>2
<1>2. T = {}
  <2>1. SUFFICES ASSUME T # {} PROVE FALSE
    OBVIOUS
  <2>2. PICK n \in T : \A m \in T : n <= m
    <3>1. T \subseteq Nat
      OBVIOUS
    <3> HIDE DEF T
    <3> QED
      BY ZenonT(90), <2>1, <3>1, LeastNumber
  <2>3. n \in Nat /\ n # 0 /\ n - 1 \in Nat
    BY <1>1, <2>2
  <2>4. \E g : SmallPlans(fresh, S, n - 1, g)
    BY <2>2, <2>3
  <2>5. \E g : SmallPlans(fresh, S, (n - 1) + 1, g)
    BY <2>3, <2>4, PlansGrow
  <2> QED
    BY <2>2, <2>3, <2>5
<1>3. Cardinality(S) \in Nat /\ Small(S, Cardinality(S)) = SUBSET S
  BY BatchFinite, SmallBounds
<1>4. PICK g : SmallPlans(fresh, S, Cardinality(S), g)
  BY <1>2, <1>3
<1> QED
  BY ZenonT(90), <1>3, <1>4 DEF SmallPlans, PlansOver

\* The plan of the first flows of a batch does not depend on the others.
LEMMA PlansAgree ==
  ASSUME NEW fresh, NEW S \in SUBSET Flow, NEW T \in SUBSET S,
         NEW g, NEW h, PlansOver(fresh, S, g), PlansOver(fresh, T, h)
  PROVE  g[T] = h[T]
<1> DEFINE B == {s \in SUBSET T : g[s] # h[s]}
<1>1. SUFFICES ASSUME B # {} PROVE FALSE
  BY T \in SUBSET T
<1>2. B \subseteq SUBSET T /\ IsFiniteSet(T)
  BY BatchFinite
<1>3. PICK s \in B : \A x \in s : s \ {x} \notin B
  <2> HIDE DEF B
  <2> QED
    BY ZenonT(90), <1>1, <1>2, SmallestSet
<1>4. s \in SUBSET T /\ s \in SUBSET S /\ g[s] # h[s]
  BY <1>3
<1>5. s # {}
  BY <1>4 DEF PlansOver
<1> DEFINE r == s \ {DecidedLast(s)}
<1>6. DecidedLast(s) \in s
  BY ZenonT(90), <1>4, <1>5, LastIn
<1>7. r \in SUBSET T /\ r \notin B
  BY <1>3, <1>4, <1>6
<1>8. g[r] = h[r]
  BY <1>7
<1>9. g[s] = Decided(g[r], DecidedLast(s), fresh)
  BY ZenonT(90), <1>4, <1>5 DEF PlansOver
<1>10. h[s] = Decided(h[r], DecidedLast(s), fresh)
  BY ZenonT(90), <1>4, <1>5 DEF PlansOver
<1> QED
  BY ZenonT(90), <1>4, <1>8, <1>9, <1>10

\* The last flow of a batch is decided on the plan of those before it.
LEMMA PlanStep ==
  ASSUME NEW fresh, NEW S \in SUBSET Flow
  PROVE  PlanOf(S, fresh) =
           IF S = {} THEN NoPlan
           ELSE Decided(PlanOf(S \ {DecidedLast(S)}, fresh), DecidedLast(S), fresh)
<1> DEFINE r == S \ {DecidedLast(S)}
           g == CHOOSE g : PlansOver(fresh, S, g)
           h == CHOOSE h : PlansOver(fresh, r, h)
<1>1. PlansOver(fresh, S, g)
  BY PlansExist
<1>2. r \in SUBSET S /\ r \in SUBSET Flow
  OBVIOUS
<1> HIDE DEF r
<1>3. PlansOver(fresh, r, h)
  BY <1>2, PlansExist
<1>4. PlanOf(S, fresh) = g[S] /\ PlanOf(r, fresh) = h[r]
  BY PlanUnfold
<1> HIDE DEF g, h
<1>5. g[r] = h[r]
  BY <1>1, <1>2, <1>3, PlansAgree
<1>6. g[S] = IF S = {} THEN NoPlan ELSE Decided(g[r], DecidedLast(S), fresh)
  BY ZenonT(90), <1>1 DEF PlansOver, r
<1> QED
  BY ZenonT(90), <1>4, <1>5, <1>6 DEF r

\* Plan over batch S that only moves registered flows to known targets.
GoodPlan(plan, S) ==
  /\ DOMAIN plan = S
  /\ \A f \in S : plan[f] # NoTarget => f \in DOMAIN flows /\ plan[f] \in DOMAIN targets

\* A good plan changes registered flows only.
LEMMA GoodPlanKnown ==
  ASSUME NEW plan, NEW S, GoodPlan(plan, S)
  PROVE  Changed(plan) \subseteq DOMAIN flows
BY DEF GoodPlan, Changed

\* Every plan of a batch decides its flows and no others, and places registered
\* flows on targets it knows.
LEMMA PlanIsGood ==
  ASSUME WellFormed, NEW fresh, NEW S \in SUBSET Flow
  PROVE  GoodPlan(PlanOf(S, fresh), S)
<1> DEFINE B == {s \in SUBSET S : ~GoodPlan(PlanOf(s, fresh), s)}
<1>1. SUFFICES ASSUME B # {} PROVE FALSE
  BY S \in SUBSET S
<1>2. PICK s \in B : \A x \in s : s \ {x} \notin B
  <2>1. B \subseteq SUBSET S /\ IsFiniteSet(S)
    BY BatchFinite
  <2> HIDE DEF B
  <2> QED
    BY ZenonT(90), <1>1, <2>1, SmallestSet
<1>3. s \in SUBSET S /\ s \in SUBSET Flow /\ ~GoodPlan(PlanOf(s, fresh), s)
  BY <1>2
<1>4. s # {}
  <2>1. SUFFICES ASSUME s = {} PROVE FALSE
    OBVIOUS
  <2>2. PlanOf(s, fresh) = NoPlan
    BY ZenonT(90), <1>3, <2>1, PlanStep
  <2>3. GoodPlan(NoPlan, {})
    BY ZenonT(90) DEF GoodPlan, NoPlan
  <2> QED
    BY <1>3, <2>1, <2>2, <2>3
<1> DEFINE f == DecidedLast(s)
           r == s \ {f}
           plan == PlanOf(r, fresh)
           t == Decision(f, plan, fresh)
<1>5. f \in s
  BY <1>3, <1>4, LastIn
<1>6. GoodPlan(plan, r)
  BY <1>2, <1>3, <1>5
<1>7. PlanOf(s, fresh) = Put(plan, f, t)
  BY ZenonT(90), <1>3, <1>4, PlanStep DEF Decided
<1> HIDE DEF plan
<1>8. t # NoTarget => f \in DOMAIN flows /\ t \in DOMAIN targets
  BY <1>6, GoodPlanKnown, DecisionIs
<1> HIDE DEF t, f
<1>9. DOMAIN Put(plan, f, t) = s
  BY ZenonT(90), <1>5, <1>6 DEF GoodPlan, Put
<1>10. \A g \in s : Put(plan, f, t)[g] = IF g = f THEN t ELSE plan[g]
  BY ZenonT(90), <1>5, <1>6 DEF GoodPlan, Put
<1>11. \A g \in s : Put(plan, f, t)[g] # NoTarget
                    => g \in DOMAIN flows /\ Put(plan, f, t)[g] \in DOMAIN targets
  BY ZenonT(90), <1>6, <1>8, <1>10 DEF GoodPlan
<1>12. GoodPlan(PlanOf(s, fresh), s)
  BY ZenonT(90), <1>7, <1>9, <1>11 DEF GoodPlan
<1> QED
  BY <1>3, <1>12

\* The flows of a batch that are decided before flow f.
Before(S, f) == {g \in S : g < f}

\* Each flow is decided on the plan of the flows before it.
LEMMA PlanValue ==
  ASSUME WellFormed, NEW fresh, NEW S \in SUBSET Flow, NEW f \in S
  PROVE  PlanOf(S, fresh)[f] = Decision(f, PlanOf(Before(S, f), fresh), fresh)
<1> DEFINE V(s, g) == Decision(g, PlanOf(Before(s, g), fresh), fresh)
           B == {s \in SUBSET S : \E g \in s : PlanOf(s, fresh)[g] # V(s, g)}
<1>1. SUFFICES ASSUME B # {} PROVE FALSE
  BY S \in SUBSET S
<1>2. PICK s \in B : \A x \in s : s \ {x} \notin B
  <2>1. B \subseteq SUBSET S /\ IsFiniteSet(S)
    BY BatchFinite
  <2> HIDE DEF B
  <2> QED
    BY ZenonT(90), <1>1, <2>1, SmallestSet
<1>3. s \in SUBSET S /\ s \in SUBSET Flow /\ s \subseteq Nat
  BY <1>2, PlacementAssumption
<1>4. PICK g \in s : PlanOf(s, fresh)[g] # V(s, g)
  BY <1>2
<1> DEFINE m == DecidedLast(s)
           r == s \ {m}
<1>5. m \in s /\ \A x \in s : x <= m
  BY <1>3, <1>4, LastIn
<1>6. PlanOf(s, fresh) = Decided(PlanOf(r, fresh), m, fresh)
  BY <1>3, <1>4, PlanStep
<1>7. DOMAIN PlanOf(r, fresh) = r
  <2>1. r \in SUBSET Flow
    BY ZenonT(90), <1>3
  <2> HIDE DEF r
  <2> QED
    BY <2>1, PlanIsGood DEF GoodPlan
<1> HIDE DEF m
<1>8. PlanOf(s, fresh)[g] = IF g = m THEN Decision(m, PlanOf(r, fresh), fresh)
                                     ELSE PlanOf(r, fresh)[g]
  BY <1>4, <1>6, <1>7 DEF Decided, Put
<1>9. CASE g = m
  <2>1. Before(s, m) = r
    <3>1. \A x \in s : x \in Nat /\ x <= m /\ m \in Nat
      BY <1>3, <1>5
    <3>2. \A x \in s : x < m <=> x # m
      BY <3>1
    <3> QED
      BY <3>2 DEF Before
  <2> QED
    BY <1>4, <1>8, <1>9, <2>1
<1>10. CASE g # m
  <2>1. r \notin B /\ r \in SUBSET S /\ g \in r
    BY ZenonT(90), <1>2, <1>3, <1>4, <1>5, <1>10
  <2>2. PlanOf(r, fresh)[g] = V(r, g)
    BY <2>1
  <2>3. Before(r, g) = Before(s, g)
    BY <1>3, <1>4, <1>5, <1>10 DEF Before
  <2> QED
    BY ZenonT(90), <1>4, <1>8, <1>10, <2>2, <2>3
<1> QED
  BY <1>9, <1>10

\* The plan on which flow f is decided holds the final decisions on the flows before.
LEMMA PlanPrefix ==
  ASSUME WellFormed, NEW fresh, NEW S \in SUBSET Flow, NEW f \in S
  PROVE  \A g \in Before(S, f) : PlanOf(Before(S, f), fresh)[g] = PlanOf(S, fresh)[g]
<1>1. SUFFICES ASSUME NEW g \in Before(S, f)
               PROVE  PlanOf(Before(S, f), fresh)[g] = PlanOf(S, fresh)[g]
  OBVIOUS
<1>2. Before(S, f) \in SUBSET Flow /\ g \in S
  BY DEF Before
<1>3. PlanOf(Before(S, f), fresh)[g]
      = Decision(g, PlanOf(Before(Before(S, f), g), fresh), fresh)
  BY <1>2, PlanValue
<1>4. Before(Before(S, f), g) = Before(S, g)
  <2>1. g < f /\ f \in Nat /\ g \in Nat /\ \A x \in S : x \in Nat
    BY <1>2, PlacementAssumption DEF Before
  <2>2. \A x \in S : x < g => x < f
    BY <2>1
  <2> QED
    BY <2>2 DEF Before
<1>5. PlanOf(S, fresh)[g] = Decision(g, PlanOf(Before(S, g), fresh), fresh)
  BY <1>2, PlanValue
<1> QED
  BY <1>3, <1>4, <1>5

-----------------------------------------------------------------------------
(* Exactness. *)

\* A vector that fits is not clamped.
LEMMA NotClamped ==
  ASSUME NEW a, \A d \in Dim : a[d] <= MaxAmount
  PROVE  Clamp(a) = a
BY DEF Clamp, Fits

\* What a plan leaves on a target: the flows that stay and those it adds.
LEMMA OnTargetPlanned ==
  ASSUME NEW plan, NEW t
  PROVE  OnTarget(Planned(plan), t)
         = (OnTarget(assignments, t) \ PlannedRelease(plan, t)) \cup PlannedAdd(plan, t)
<1>1. DOMAIN Planned(plan) = DOMAIN assignments \cup Changed(plan)
  BY DEF Planned
<1>2. \A f \in DOMAIN Planned(plan) :
        Planned(plan)[f].target
        = IF f \in Changed(plan) THEN plan[f] ELSE assignments[f].target
  BY DEF Planned
<1> QED
  BY <1>1, <1>2 DEF OnTarget, PlannedRelease, PlannedAdd

\* The demand of the flows that stay and those that are added.
LEMMA DemandPlanned ==
  ASSUME WellFormed, NEW plan, Changed(plan) \subseteq DOMAIN flows, NEW t, NEW d \in Dim
  PROVE  DemandOf(OnTarget(Planned(plan), t))[d] + DemandOf(PlannedRelease(plan, t))[d]
         = DemandOf(OnTarget(assignments, t))[d] + DemandOf(PlannedAdd(plan, t))[d]
<1> DEFINE S == OnTarget(assignments, t)
           A == PlannedAdd(plan, t)
           R == PlannedRelease(plan, t)
           P == OnTarget(Planned(plan), t)
<1>1. S \in SUBSET DOMAIN flows /\ A \in SUBSET DOMAIN flows /\ R \in SUBSET S
  BY DEF WellFormed, OnTarget, PlannedAdd, PlannedRelease
<1>2. P = (S \ R) \cup A
  BY OnTargetPlanned
<1>3. P \ A = S \ R
  BY <1>2 DEF PlannedAdd, PlannedRelease
<1>4. P \in SUBSET DOMAIN flows /\ A \in SUBSET P
  BY <1>1, <1>2
<1> HIDE DEF S, A, R, P
<1>5. DemandOf(P)[d] = DemandOf(A)[d] + DemandOf(P \ A)[d]
  BY <1>4, DemandSplit
<1>6. DemandOf(S)[d] = DemandOf(R)[d] + DemandOf(S \ R)[d]
  BY <1>1, DemandSplit
<1>7. DemandOf(P \ A)[d] = DemandOf(S \ R)[d]
  BY <1>3, ZenonT(90)
<1>8. /\ DemandOf(A)[d] \in Nat /\ DemandOf(R)[d] \in Nat
      /\ DemandOf(S \ R)[d] \in Nat
  BY <1>1, DemandNat
<1>9. DemandOf(P)[d] + DemandOf(R)[d] = DemandOf(S)[d] + DemandOf(A)[d]
  BY <1>5, <1>6, <1>7, <1>8
<1> QED
  BY <1>9 DEF S, A, R, P

\* place_locked's planned additions and releases give the demand that the target
\* will have, when the cache is right and nothing overflows.
LEMMA LocalIsExact ==
  ASSUME WellFormed, Accurate, NEW plan, Changed(plan) \subseteq DOMAIN flows,
         NEW t \in DOMAIN targets,
         Fits(Plus(Committed(t), DemandOf(PlannedAdd(plan, t))))
  PROVE  LocalScheduled(plan, t) = DemandOf(OnTarget(Planned(plan), t))
<1> DEFINE S == OnTarget(assignments, t)
           A == PlannedAdd(plan, t)
           R == PlannedRelease(plan, t)
           P == OnTarget(Planned(plan), t)
<1>1. S \in SUBSET DOMAIN flows /\ A \in SUBSET DOMAIN flows /\ R \in SUBSET S
  BY DEF WellFormed, OnTarget, PlannedAdd, PlannedRelease
<1>2. P \in SUBSET DOMAIN flows
  BY <1>1, OnTargetPlanned
<1>3. \A d \in Dim : DemandOf(P)[d] + DemandOf(R)[d] = DemandOf(S)[d] + DemandOf(A)[d]
  BY ZenonT(90), DemandPlanned
<1>4. scheduled[t] = Clamp(DemandOf(S))
  BY RecomputedIs DEF Accurate, WellFormed
<1>5. \A d \in Dim : DemandOf(S)[d] + DemandOf(A)[d] <= MaxAmount
  BY ZenonT(90) DEF Fits, Plus, Committed
<1>6. LocalScheduled(plan, t) =
        SaturatingSub(Clamp(Plus(scheduled[t], Clamp(DemandOf(A)))), Clamp(DemandOf(R)))
  BY DEF LocalScheduled
<1> HIDE DEF S, A, R, P
<1>7. \A d \in Dim : /\ DemandOf(S)[d] \in Nat /\ DemandOf(A)[d] \in Nat
                     /\ DemandOf(R)[d] \in Nat /\ DemandOf(P)[d] \in Nat
                     /\ DemandOf(R)[d] <= DemandOf(S)[d]
  BY <1>1, <1>2, DemandNat, DemandMonotone
<1>8. MaxAmount \in Nat
  BY PlacementAssumption
<1>9. Clamp(DemandOf(S)) = DemandOf(S) /\ Clamp(DemandOf(A)) = DemandOf(A)
      /\ Clamp(DemandOf(R)) = DemandOf(R)
  <2>1. \A d \in Dim : /\ DemandOf(S)[d] <= MaxAmount /\ DemandOf(A)[d] <= MaxAmount
                       /\ DemandOf(R)[d] <= MaxAmount
    BY <1>5, <1>7, <1>8
  <2> QED
    BY <2>1, NotClamped
<1>10. Clamp(Plus(DemandOf(S), DemandOf(A))) = Plus(DemandOf(S), DemandOf(A))
  <2>1. \A d \in Dim : Plus(DemandOf(S), DemandOf(A))[d] <= MaxAmount
    BY ZenonT(90), <1>5 DEF Plus
  <2> QED
    BY ZenonT(90), <2>1, NotClamped
<1>11. LocalScheduled(plan, t)
       = SaturatingSub(Plus(DemandOf(S), DemandOf(A)), DemandOf(R))
  BY <1>4, <1>6, <1>9, <1>10
<1>12. DemandOf(P) \in [Dim -> Nat] /\ DemandOf(S) \in [Dim -> Nat]
       /\ DemandOf(A) \in [Dim -> Nat] /\ DemandOf(R) \in [Dim -> Nat]
  BY ZenonT(90), <1>1, <1>2, DemandVector
<1>13. SaturatingSub(Plus(DemandOf(S), DemandOf(A)), DemandOf(R)) = DemandOf(P)
  BY <1>3, <1>12, SubIs
<1> QED
  BY ZenonT(90), <1>11, <1>13 DEF P

-----------------------------------------------------------------------------
(* Rebalancing. *)

\* A load that is known with some cached demand is known with less of it.
LEMMA KnownMonotone ==
  ASSUME WellFormed, NEW t \in DOMAIN targets, NEW low \in Amount, NEW high \in Amount,
         \A d \in Dim : low[d] <= high[d], NEW fresh, LoadKnown(t, high, fresh)
  PROVE  LoadKnown(t, low, fresh)
<1> DEFINE obs == Observed(t, fresh)
<1>1. obs \in [Dim -> Nat] /\ low \in [Dim -> Nat] /\ high \in [Dim -> Nat]
      /\ MaxAmount \in Nat
  BY TargetTyped, AmountVector, PlacementAssumption DEF Observed, Zero
<1> HIDE DEF obs
<1>2. Fits(Plus(obs, high)) => Fits(Plus(obs, low))
  BY <1>1 DEF Fits, Plus
<1> QED
  BY <1>2, ZenonT(90) DEF LoadKnown, obs

\* Cached demand that is higher by no more than a flow's demand makes the load of a
\* target that has room for the flow higher by no more than that.
LEMMA LoadWithFlow ==
  ASSUME WellFormed, NEW f \in DOMAIN flows, NEW t \in DOMAIN targets,
         NEW low \in Amount, NEW high \in Amount, \A d \in Dim : low[d] <= high[d],
         NEW fresh, LoadKnown(t, high, fresh), HasRoom(f, t, LoadUsed(t, low, fresh)),
         Fits(Plus(low, flows[f].demand))
           => \A d \in Dim : high[d] <= low[d] + flows[f].demand[d],
         NEW d \in Dim
  PROVE  LoadUsed(t, high, fresh)[d]
           <= Plus(LoadUsed(t, low, fresh), flows[f].demand)[d]
<1> DEFINE obs == Observed(t, fresh)
           dem == flows[f].demand
           used == LoadUsed(t, low, fresh)
<1>1. /\ obs \in [Dim -> Nat] /\ low \in [Dim -> Nat] /\ high \in [Dim -> Nat]
      /\ dem \in [Dim -> Nat] /\ MaxAmount \in Nat
  <2>1. dem \in Amount
    BY ZenonT(90) DEF WellFormed, FlowDescriptor
  <2> QED
    BY ZenonT(90), <2>1, TargetTyped, AmountVector, PlacementAssumption DEF Observed, Zero
<1>2. LoadKnown(t, low, fresh)
  BY ZenonT(90), KnownMonotone
<1>3. policy.load_model \in LoadModel
  BY ZenonT(90), PolicyTyped
<1>4. Fits(Plus(used, dem))
  BY ZenonT(90) DEF HasRoom
<1>5. Fits(Plus(low, dem)) => high[d] <= low[d] + dem[d]
  OBVIOUS
<1>6. CASE policy.load_model = "ObservedOnly"
  <2>1. used = obs /\ LoadUsed(t, high, fresh) = obs
    BY <1>2, <1>6 DEF LoadUsed
  <2> HIDE DEF obs, dem, used
  <2> QED
    BY ZenonT(90), <1>1, <2>1, PlusCovers DEF used, dem
<1>7. CASE policy.load_model = "ScheduledOnly"
  <2>1. used = low /\ LoadUsed(t, high, fresh) = high
    BY <1>2, <1>7 DEF LoadUsed
  <2> HIDE DEF obs, dem, used
  <2> QED
    BY ZenonT(90), <1>1, <1>4, <1>5, <2>1, PlusCovers DEF used, dem
<1>8. CASE policy.load_model = "MaximumOfBoth"
  <2>1. used = Larger(obs, low) /\ LoadUsed(t, high, fresh) = Larger(obs, high)
    BY <1>2, <1>8 DEF LoadUsed
  <2> HIDE DEF obs, dem, used
  <2> QED
    BY ZenonT(90), <1>1, <1>4, <1>5, <2>1, LargerRises DEF used, dem
<1>9. CASE policy.load_model = "SumConservative"
  <2>1. used = Plus(obs, low) /\ LoadUsed(t, high, fresh) = Plus(obs, high)
    BY ZenonT(90), <1>2, <1>9 DEF LoadUsed
  <2> HIDE DEF obs, dem, used
  <2> QED
    BY ZenonT(90), <1>1, <1>4, <1>5, <2>1, SumRises DEF used, dem
<1> QED
  BY ZenonT(90), <1>3, <1>6, <1>7, <1>8, <1>9 DEF LoadModel

\* So its utilisation is no higher than the estimate that counts the flow.
LEMMA EstimateCovers ==
  ASSUME WellFormed, NEW f \in DOMAIN flows, NEW t \in DOMAIN targets,
         NEW low \in Amount, NEW high \in Amount, \A d \in Dim : low[d] <= high[d],
         NEW fresh, LoadKnown(t, high, fresh), HasRoom(f, t, LoadUsed(t, low, fresh)),
         Fits(Plus(low, flows[f].demand))
           => \A d \in Dim : high[d] <= low[d] + flows[f].demand[d]
  PROVE  UtilisationPpm(LoadUsed(t, high, fresh), targets[t].descriptor.capacity)
         <= UtilisationPpm(Plus(LoadUsed(t, low, fresh), flows[f].demand),
                           targets[t].descriptor.capacity)
<1> DEFINE u == LoadUsed(t, high, fresh)
           v == Plus(LoadUsed(t, low, fresh), flows[f].demand)
           c == targets[t].descriptor.capacity
<1>1. \A d \in Dim : u[d] <= v[d]
  BY ZenonT(90), LoadWithFlow
<1>2. u \in [Dim -> Nat] /\ LoadUsed(t, low, fresh) \in [Dim -> Nat]
  BY ZenonT(90), LoadTyped
<1>3. flows[f].demand \in Amount
  BY DEF WellFormed, FlowDescriptor
<1>4. v \in [Dim -> Nat]
  BY ZenonT(90), <1>2, <1>3, AmountVector, PlusTyped
<1>5. c \in [Dim -> Nat]
  BY ZenonT(90), TargetTyped, AmountVector
<1>6. \A d \in Dim : c[d] # 0
  BY ZenonT(90) DEF HasRoom
<1> HIDE DEF u, v, c
<1>7. UtilisationPpm(u, c) <= UtilisationPpm(v, c)
  BY ZenonT(90), <1>1, <1>2, <1>4, <1>5, <1>6, UtilisationMonotone
<1> QED
  BY ZenonT(90), <1>7 DEF u, v, c

\* One more flow in a sum that saturates.
LEMMA ClampWithFlow ==
  ASSUME NEW a \in [Dim -> Nat], NEW dem \in Amount
  PROVE  LET low == Clamp(a)
             high == Clamp(Plus(a, dem))
         IN  /\ low \in Amount /\ high \in Amount
             /\ \A d \in Dim : low[d] <= high[d]
             /\ Fits(Plus(low, dem)) => \A d \in Dim : high[d] <= low[d] + dem[d]
<1>1. dem \in [Dim -> Nat] /\ Plus(a, dem) \in [Dim -> Nat] /\ MaxAmount \in Nat
  BY AmountVector, PlusTyped, PlacementAssumption
<1>2. Clamp(a) \in Amount /\ Clamp(Plus(a, dem)) \in Amount
  BY <1>1, ClampTyped
<1>3. \A x \in Amount : \A d \in Dim : x[d] \in Nat /\ x[d] <= MaxAmount
  BY <1>1 DEF Amount
<1>4. CASE Fits(Plus(a, dem))
  <2>1. Fits(a)
    BY <1>1, <1>4 DEF Fits, Plus
  <2>2. Clamp(a) = a /\ Clamp(Plus(a, dem)) = Plus(a, dem)
    BY <1>4, <2>1 DEF Clamp
  <2>3. \A d \in Dim : Plus(a, dem)[d] = a[d] + dem[d]
    BY ZenonT(90) DEF Plus
  <2> QED
    BY <1>1, <1>2, <2>2, <2>3
<1>5. CASE ~Fits(Plus(a, dem))
  <2>1. Clamp(Plus(a, dem)) = Saturated
    BY <1>5 DEF Clamp
  <2>2. \A d \in Dim : Saturated[d] = MaxAmount
    BY DEF Saturated
  <2>3. CASE Fits(a)
    <3>1. Clamp(a) = a
      BY <2>3 DEF Clamp
    <3> QED
      BY <1>2, <1>3, <1>5, <2>1, <2>2, <3>1
  <2>4. CASE ~Fits(a)
    <3>1. Clamp(a) = Saturated
      BY <2>4 DEF Clamp
    <3> QED
      BY <1>1, <1>2, <2>1, <2>2, <3>1
  <2> QED
    BY <2>3, <2>4
<1> QED
  BY <1>4, <1>5

=============================================================================
