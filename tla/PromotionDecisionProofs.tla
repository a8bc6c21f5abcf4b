------------------------ MODULE PromotionDecisionProofs ------------------------
(***************************************************************************)
(* Why a decision rests on complete batches only, why the selected         *)
(* candidate is undominated, why one run that went better never hurts, and *)
(* why the executed trials are the stated ones; for any pools, trials,     *)
(* habits, surprises and limits.                                           *)
(*                                                                         *)
(* A batch is complete when all its runs are scored; selection and         *)
(* decision ask for complete batches, and a sealed one never changes       *)
(* (DecisionInv).  So what the selection and the gates said is still what  *)
(* they would say of the batches (ChoiceInv, with the types of the runs in *)
(* RunInv).  The keys of two candidates differ in their last place, so one *)
(* of the eligible comes before all others (FirstExists), and whoever it   *)
(* is, it is selected (FirstIsWinner).  A run that went better changes     *)
(* nothing but which tasks are stable.  The counts are sums over stages:   *)
(* those of the evaluation are run for every snapshot, those of the        *)
(* release for the ones that have a role (CountInv).                       *)
(***************************************************************************)
EXTENDS PromotionDecision, TLAPS, FiniteSetTheorems, SequenceTheorems, WellFoundedInduction

-----------------------------------------------------------------------------
(* Sums over finite sets, and the order of finite sets of numbers. *)

(* A set of numbers that holds 0 and with a number the next holds them all.*)
LEMMA Induction ==
    ASSUME NEW S \in SUBSET Nat, 0 \in S, \A n \in S : n + 1 \in S
    PROVE  S = Nat
  <1> DEFINE T == Nat \ S
             R == OpToRel(<, Nat)
  <1> SUFFICES ASSUME T # {} PROVE FALSE
    OBVIOUS
  <1>1. IsWellFoundedOn(R, Nat)
    BY NatLessThanWellFounded
  <1>2. T \subseteq Nat /\ T # {}
    OBVIOUS
  <1>3. PICK x \in T : \A y \in T : ~ (<<y, x>> \in R)
    BY <1>1, <1>2, WFMin
  <1>4. x # 0 /\ x - 1 \in Nat /\ <<x - 1, x>> \in R
    BY <1>3 DEF OpToRel
  <1>5. x - 1 \in S
    BY <1>3, <1>4
  <1>6. x \in Nat /\ x \notin S
    BY <1>3
  <1> HIDE DEF T, R
  <1>7. (x - 1) + 1 = x
    BY <1>6
  <1> QED
    BY <1>5, <1>6, <1>7

\* the element that the fold of a sum takes next
Pick(s) == CHOOSE x \in s : TRUE

(* How a sum goes through the subsets of S.                                *)
Adds(g, f, S) ==
    g = [s \in SUBSET S |-> IF s = {} THEN 0 ELSE f[Pick(s)] + g[s \ {Pick(s)}]]

(* The subsets with at most n elements.                                    *)
Small(S, n) == {s \in SUBSET S : Cardinality(s) <= n}

(* Taking the picked element out of a finite set leaves one less.          *)
LEMMA Picking ==
    ASSUME NEW S, IsFiniteSet(S), NEW s \in SUBSET S, s # {}
    PROVE  /\ Pick(s) \in s /\ s \ {Pick(s)} \in SUBSET S
           /\ Cardinality(s) \in Nat /\ Cardinality(s \ {Pick(s)}) \in Nat
           /\ Cardinality(s) = Cardinality(s \ {Pick(s)}) + 1
  <1>1. Pick(s) \in s
    BY DEF Pick
  <1>2. IsFiniteSet(s)
    BY FS_Subset
  <1> DEFINE t == s \ {Pick(s)}
  <1>3. IsFiniteSet(t) /\ t \in SUBSET S
    BY <1>2, FS_Subset
  <1>4. Cardinality(t) = Cardinality(s) - 1
    BY <1>1, <1>2, FS_RemoveElement
  <1>5. Cardinality(s) \in Nat /\ Cardinality(t) \in Nat
    BY <1>2, <1>3, FS_CardinalityType
  <1> QED
    BY <1>1, <1>3, <1>4, <1>5

(* There is such a function, built up by the size of the subsets.          *)
LEMMA AddsExists ==
    ASSUME NEW f, NEW S, IsFiniteSet(S)
    PROVE  \E g : Adds(g, f, S)
  <1> DEFINE Fits(g, n) ==
               g = [s \in Small(S, n) |-> IF s = {} THEN 0 ELSE f[Pick(s)] + g[s \ {Pick(s)}]]
             M == {n \in Nat : \E g : Fits(g, n)}
  <1>0. \A s \in SUBSET S : IsFiniteSet(s) /\ Cardinality(s) \in Nat
    BY FS_Subset, FS_CardinalityType
  <1>1. 0 \in M
    <2> DEFINE g == [s \in Small(S, 0) |-> 0]
    <2>1. \A s \in Small(S, 0) : s = {}
      BY <1>0, FS_EmptySet DEF Small
    <2>2. Fits(g, 0)
      BY <2>1
    <2> HIDE DEF g, Fits
    <2>3. \E h : Fits(h, 0)
      BY <2>2
    <2> QED
      BY <2>3
  <1>2. ASSUME NEW n \in M PROVE n + 1 \in M
    <2>1. PICK g : Fits(g, n)
      OBVIOUS
    <2> DEFINE h == [s \in Small(S, n + 1) |->
                        IF s = {} THEN 0 ELSE f[Pick(s)] + g[s \ {Pick(s)}]]
    <2>2. \A s \in Small(S, n) : s \in Small(S, n + 1) /\ h[s] = g[s]
      <3>1. \A s \in Small(S, n) : s \in Small(S, n + 1)
        BY <1>0 DEF Small
      <3>2. \A s \in Small(S, n) : g[s] = IF s = {} THEN 0 ELSE f[Pick(s)] + g[s \ {Pick(s)}]
        BY <2>1
      <3> QED
        BY <3>1, <3>2
    <2>3. \A s \in Small(S, n + 1) : s # {} => s \ {Pick(s)} \in Small(S, n)
      BY Picking DEF Small
    <2>4. Fits(h, n + 1)
      <3> DEFINE k == [s \in Small(S, n + 1) |->
                        IF s = {} THEN 0 ELSE f[Pick(s)] + h[s \ {Pick(s)}]]
      <3>1. \A s \in Small(S, n + 1) : h[s] = k[s]
        <4> TAKE s \in Small(S, n + 1)
        <4>1. CASE s = {}
          BY <4>1
        <4>2. CASE s # {}
          <5>1. h[s \ {Pick(s)}] = g[s \ {Pick(s)}]
            BY <4>2, <2>2, <2>3
          <5> QED
            BY <4>2, <5>1
        <4> QED
          BY <4>1, <4>2
      <3>2. h = k
        BY <3>1
      <3> QED
        BY <3>2
    <2> HIDE DEF h, Fits
    <2>5. \E e : Fits(e, n + 1)
      BY <2>4
    <2> QED
      BY <2>5
  <1>3. \A n \in Nat : \E g : Fits(g, n)
    <2> HIDE DEF Fits
    <2>1. M \in SUBSET Nat
      OBVIOUS
    <2> HIDE DEF M
    <2>2. M = Nat
      BY ONLY <1>1, <1>2, <2>1, Induction
    <2> QED
      BY <2>2 DEF M
  <1>4. PICK g : Fits(g, Cardinality(S))
    <2> HIDE DEF Fits, M
    <2> QED
      BY <1>0, <1>3
  <1>5. Small(S, Cardinality(S)) = SUBSET S
    BY FS_Subset DEF Small
  <1>6. Adds(g, f, S)
    BY <1>4, <1>5 DEF Adds
  <1> QED
    BY <1>6

(* All that are such functions agree, on whatever sets.                    *)
LEMMA AddsUnique ==
    ASSUME NEW f, NEW S, IsFiniteSet(S), NEW T \in SUBSET S,
           NEW g, Adds(g, f, S), NEW h, Adds(h, f, T)
    PROVE  \A s \in SUBSET T : g[s] = h[s]
  <1> DEFINE M == {n \in Nat : \A s \in SUBSET T : Cardinality(s) = n => g[s] = h[s]}
  <1>0. \A s \in SUBSET S : IsFiniteSet(s) /\ Cardinality(s) \in Nat
    BY FS_Subset, FS_CardinalityType
  <1>1. \A s \in SUBSET T :
            /\ g[s] = IF s = {} THEN 0 ELSE f[Pick(s)] + g[s \ {Pick(s)}]
            /\ h[s] = IF s = {} THEN 0 ELSE f[Pick(s)] + h[s \ {Pick(s)}]
    BY DEF Adds
  <1>2. 0 \in M
    <2>1. \A s \in SUBSET T : Cardinality(s) = 0 => s = {}
      BY <1>0, FS_EmptySet
    <2> QED
      BY <1>1, <2>1
  <1>3. ASSUME NEW n \in M PROVE n + 1 \in M
    <2> SUFFICES ASSUME NEW s \in SUBSET T, Cardinality(s) = n + 1 PROVE g[s] = h[s]
      OBVIOUS
    <2>1. s # {}
      BY FS_EmptySet
    <2>2. Cardinality(s \ {Pick(s)}) = n /\ s \ {Pick(s)} \in SUBSET T
      BY <2>1, Picking
    <2>3. g[s \ {Pick(s)}] = h[s \ {Pick(s)}]
      BY <2>2
    <2> QED
      BY <1>1, <2>1, <2>3
  <1>4. M \in SUBSET Nat
    OBVIOUS
  <1> HIDE DEF M
  <1>5. M = Nat
    BY ONLY <1>2, <1>3, <1>4, Induction
  <1> QED
    BY <1>0, <1>5 DEF M

Total(f, S) == SumFunctionOnSet(f, S)

(* A sum is one of the picked element and the rest.                        *)
LEMMA SumStep ==
    ASSUME NEW f, NEW S, IsFiniteSet(S)
    PROVE  Total(f, S) = IF S = {} THEN 0 ELSE f[Pick(S)] + Total(f, S \ {Pick(S)})
  <1> DEFINE F(T) == CHOOSE g : Adds(g, f, T)
  <1>1. \A T : Total(f, T) = F(T)[T]
    BY DEF SumFunctionOnSet, FoldFunctionOnSet, MapThenFoldSet, Adds, Pick, Total
  <1>2. \A T \in SUBSET S : Adds(F(T), f, T)
    <2> SUFFICES ASSUME NEW T \in SUBSET S PROVE \E g : Adds(g, f, T)
      OBVIOUS
    <2> QED
      BY AddsExists, FS_Subset
  <1> HIDE DEF F
  <1>3. F(S)[S] = IF S = {} THEN 0 ELSE f[Pick(S)] + F(S)[S \ {Pick(S)}]
    BY <1>2 DEF Adds
  <1> DEFINE T == S \ {Pick(S)}
  <1>4. F(S)[T] = F(T)[T]
    <2>1. T \in SUBSET S /\ Adds(F(T), f, T) /\ Adds(F(S), f, S)
      BY <1>2
    <2> DEFINE g == F(S)
               h == F(T)
    <2>2. Adds(g, f, S) /\ Adds(h, f, T)
      BY <2>1
    <2> HIDE DEF T, g, h
    <2>3. \A s \in SUBSET T : g[s] = h[s]
      BY <2>1, <2>2, AddsUnique
    <2>4. g[T] = h[T]
      BY <2>3
    <2> QED
      BY <2>4 DEF g, h
  <1> QED
    BY <1>1, <1>3, <1>4

(* What holds of {} and of a set with one element more holds of a finite   *)
(* set: G are the sets it holds of.                                        *)
LEMMA SubsetInduction ==
    ASSUME NEW S, IsFiniteSet(S), NEW G, {} \in G,
           \A T \in SUBSET S : T # {} /\ T \ {Pick(T)} \in G => T \in G
    PROVE  \A T \in SUBSET S : T \in G
  <1> DEFINE M == {n \in Nat : \A T \in SUBSET S : Cardinality(T) = n => T \in G}
  <1>0. \A T \in SUBSET S : IsFiniteSet(T) /\ Cardinality(T) \in Nat
    BY FS_Subset, FS_CardinalityType
  <1>1. 0 \in M
    <2>1. \A T \in SUBSET S : Cardinality(T) = 0 => T = {}
      BY <1>0, FS_EmptySet
    <2> QED
      BY <2>1
  <1>2. ASSUME NEW n \in M PROVE n + 1 \in M
    <2> SUFFICES ASSUME NEW T \in SUBSET S, Cardinality(T) = n + 1 PROVE T \in G
      OBVIOUS
    <2>1. T # {}
      BY FS_EmptySet
    <2>2. Cardinality(T \ {Pick(T)}) = n /\ T \ {Pick(T)} \in SUBSET S
      BY <2>1, Picking
    <2> QED
      BY <2>1, <2>2
  <1>3. M \in SUBSET Nat
    OBVIOUS
  <1> HIDE DEF M
  <1>4. M = Nat
    BY ONLY <1>1, <1>2, <1>3, Induction
  <1> QED
    BY <1>0, <1>4 DEF M

(* A sum of numbers is a number.                                           *)
LEMMA SumType ==
    ASSUME NEW S, IsFiniteSet(S), NEW f, \A x \in S : f[x] \in Nat
    PROVE  \A T \in SUBSET S : Total(f, T) \in Nat
  <1> DEFINE G == {T \in SUBSET S : Total(f, T) \in Nat}
  <1>0. \A T \in SUBSET S : Total(f, T) = IF T = {} THEN 0 ELSE f[Pick(T)] + Total(f, T \ {Pick(T)})
    BY SumStep, FS_Subset
  <1>1. {} \in G
    <2>1. {} \in SUBSET S /\ Total(f, {}) = 0
      BY SumStep, FS_EmptySet
    <2> QED
      BY <2>1
  <1>2. ASSUME NEW T \in SUBSET S, T # {}, T \ {Pick(T)} \in G PROVE T \in G
    BY <1>0, <1>2, Picking
  <1> HIDE DEF G
  <1>3. \A T \in SUBSET S : T \in G
    BY <1>1, <1>2, SubsetInduction
  <1> QED
    BY <1>3 DEF G

(* It does not matter which element is taken out.                          *)
LEMMA SumSplits ==
    ASSUME NEW S, IsFiniteSet(S), NEW f, \A x \in S : f[x] \in Nat
    PROVE  \A T \in SUBSET S : \A x \in T : Total(f, T) = f[x] + Total(f, T \ {x})
  <1> DEFINE G == {T \in SUBSET S : \A x \in T : Total(f, T) = f[x] + Total(f, T \ {x})}
             R(T) == T \ {Pick(T)}
  <1>0. \A T \in SUBSET S : Total(f, T) = IF T = {} THEN 0 ELSE f[Pick(T)] + Total(f, R(T))
    BY SumStep, FS_Subset
  <1>1. \A T \in SUBSET S : Total(f, T) \in Nat
    BY SumType
  <1> DEFINE M == {n \in Nat : \A T \in SUBSET S : Cardinality(T) = n => T \in G}
  <1>2. 0 \in M
    <2>1. \A T \in SUBSET S : Cardinality(T) = 0 => T = {}
      BY FS_EmptySet, FS_Subset
    <2> QED
      BY <2>1
  <1>3. ASSUME NEW n \in M PROVE n + 1 \in M
    <2> SUFFICES ASSUME NEW T \in SUBSET S, Cardinality(T) = n + 1, NEW x \in T
                 PROVE  Total(f, T) = f[x] + Total(f, T \ {x})
      OBVIOUS
    <2> DEFINE y == Pick(T)
    <2>1. y \in T /\ R(T) \in SUBSET S /\ Cardinality(R(T)) = n
      BY Picking
    <2>2. Total(f, T) = f[y] + Total(f, T \ {y})
      BY <1>0, <2>1
    <2>3. T \ {x} \in SUBSET S /\ Cardinality(T \ {x}) = n
      <3>1. IsFiniteSet(T)
        BY FS_Subset
      <3>2. Cardinality(T \ {x}) = Cardinality(T) - 1
        BY <3>1, FS_RemoveElement
      <3> QED
        BY <3>2
    <2>4. CASE x = y
      BY <2>2, <2>4
    <2>5. CASE x # y
      <3>1. Total(f, T \ {y}) = f[x] + Total(f, (T \ {y}) \ {x})
        BY <2>1, <2>5
      <3>2. Total(f, T \ {x}) = f[y] + Total(f, (T \ {x}) \ {y})
        BY <2>1, <2>3, <2>5
      <3>3. (T \ {y}) \ {x} = (T \ {x}) \ {y}
        OBVIOUS
      <3> HIDE DEF y
      <3>4. Total(f, (T \ {x}) \ {y}) \in Nat /\ f[x] \in Nat /\ f[y] \in Nat
        BY <1>1, <2>1
      <3> QED
        BY <2>2, <3>1, <3>2, <3>3, <3>4
    <2> QED
      BY <2>4, <2>5
  <1>4. M \in SUBSET Nat
    OBVIOUS
  <1>5. M = Nat
    <2> HIDE DEF M
    <2> QED
      BY ONLY <1>2, <1>3, <1>4, Induction
  <1> QED
    BY <1>5, FS_Subset, FS_CardinalityType

(* Two sums in one.                                                        *)
LEMMA SumUnion ==
    ASSUME NEW S, IsFiniteSet(S), NEW f, \A x \in S : f[x] \in Nat,
           NEW A \in SUBSET S
    PROVE  \A B \in SUBSET S : A \cap B = {} => Total(f, A \cup B) = Total(f, A) + Total(f, B)
  <1> DEFINE G == {B \in SUBSET S : A \cap B = {} => Total(f, A \cup B) = Total(f, A) + Total(f, B)}
  <1>0. \A T \in SUBSET S : \A y \in T : Total(f, T) = f[y] + Total(f, T \ {y})
    <2> HIDE DEF G
    <2> TAKE T \in SUBSET S
    <2> TAKE y \in T
    <2> QED
      BY SumSplits
  <1>1. \A T \in SUBSET S : Total(f, T) \in Nat
    BY SumType
  <1>2. {} \in G
    <2>1. {} \in SUBSET S /\ Total(f, {}) = 0
      BY SumStep, FS_EmptySet
    <2>2. A \cup {} = A
      OBVIOUS
    <2>3. Total(f, A \cup {}) = Total(f, A) + Total(f, {})
      BY <1>1, <2>1, <2>2
    <2> QED
      BY <2>1, <2>3
  <1>3. ASSUME NEW B \in SUBSET S, B # {}, B \ {Pick(B)} \in G PROVE B \in G
    <2> SUFFICES ASSUME A \cap B = {} PROVE Total(f, A \cup B) = Total(f, A) + Total(f, B)
      OBVIOUS
    <2> DEFINE x == Pick(B)
               R == B \ {x}
    <2>1. x \in B /\ R \in SUBSET S
      BY <1>3, Picking
    <2>2. Total(f, A \cup R) = Total(f, A) + Total(f, R)
      BY <1>3
    <2> HIDE DEF x
    <2>3. Total(f, B) = f[x] + Total(f, R)
      BY <1>0, <2>1
    <2>4. Total(f, A \cup B) = f[x] + Total(f, A \cup R)
      <3>1. A \cup B \in SUBSET S /\ x \in A \cup B /\ (A \cup B) \ {x} = A \cup R
        BY <2>1
      <3> QED
        BY <1>0, <3>1
    <2>5. /\ f[x] \in Nat /\ Total(f, A) \in Nat /\ Total(f, R) \in Nat
      BY <1>1, <2>1
    <2> QED
      BY <2>2, <2>3, <2>4, <2>5
  <1> HIDE DEF G
  <1>4. \A B \in SUBSET S : B \in G
    BY <1>2, <1>3, SubsetInduction
  <1> QED
    BY <1>4 DEF G

(***************************************************************************)
(* Orders.                                                                 *)
(***************************************************************************)

(* Numbers have a least one.                                               *)
LEMMA Least ==
    ASSUME NEW S \in SUBSET Nat, S # {}
    PROVE  \E x \in S : \A y \in S : x <= y
  <1> DEFINE R == OpToRel(<, Nat)
  <1>1. IsWellFoundedOn(R, Nat)
    BY NatLessThanWellFounded
  <1>2. PICK x \in S : \A y \in S : ~ (<<y, x>> \in R)
    BY <1>1, WFMin
  <1>3. \A y \in S : x <= y
    <2> TAKE y \in S
    <2>1. x \in Nat /\ y \in Nat /\ ~ (y < x)
      BY <1>2 DEF OpToRel
    <2> QED
      BY <2>1
  <1> QED
    BY <1>2, <1>3

(* Finitely many values have a largest one.                                *)
LEMMA Largest ==
    ASSUME NEW P, IsFiniteSet(P), NEW v, \A p \in P : v[p] \in Nat
    PROVE  \A T \in SUBSET P : T # {} => \E p \in T : \A q \in T : v[q] <= v[p]
  <1> DEFINE G == {T \in SUBSET P : T # {} => \E p \in T : \A q \in T : v[q] <= v[p]}
  <1>1. {} \in G
    OBVIOUS
  <1>2. ASSUME NEW T \in SUBSET P, T # {}, T \ {Pick(T)} \in G PROVE T \in G
    <2> DEFINE x == Pick(T)
               R == T \ {x}
    <2>1. x \in T /\ R \in SUBSET P
      BY <1>2, Picking
    <2> HIDE DEF x
    <2>2. CASE R = {}
      <3>1. \A q \in T : v[q] <= v[x]
        BY <2>1, <2>2
      <3> QED
        BY <2>1, <3>1
    <2>3. CASE R # {}
      <3>1. PICK p \in R : \A q \in R : v[q] <= v[p]
        BY <1>2, <2>3 DEF x
      <3>2. CASE v[x] <= v[p]
        <4>1. p \in T /\ \A q \in T : v[q] <= v[p]
          BY <2>1, <3>1, <3>2
        <4> QED
          BY <4>1
      <3>3. CASE ~ (v[x] <= v[p])
        <4>1. \A q \in T : v[q] <= v[x]
          <5> TAKE q \in T
          <5>1. v[q] \in Nat /\ v[p] \in Nat /\ v[x] \in Nat
            BY <2>1, <3>1
          <5>2. q = x \/ v[q] <= v[p]
            BY <3>1
          <5> QED
            BY <3>3, <5>1, <5>2
        <4> QED
          BY <2>1, <4>1
      <3> QED
        BY <3>2, <3>3
    <2> QED
      BY <2>2, <2>3
  <1> HIDE DEF G
  <1>3. \A T \in SUBSET P : T \in G
    BY <1>1, <1>2, SubsetInduction
  <1> QED
    BY <1>3 DEF G

(* Every place of a list of numbers is taken by a number (sorted).         *)
LEMMA AscendingType ==
    ASSUME NEW v, IsFiniteSet(DOMAIN v), \A p \in DOMAIN v : v[p] \in Nat,
           NEW i \in 1..Cardinality(DOMAIN v)
    PROVE  Ascending(v, i) \in Nat
  <1> DEFINE P == DOMAIN v
             A == {x \in Range(v) : Cardinality({p \in P : v[p] <= x}) >= i}
  <1>1. Cardinality(P) \in Nat /\ P # {}
    BY FS_CardinalityType, FS_EmptySet
  <1>2. PICK p \in P : \A q \in P : v[q] <= v[p]
    BY <1>1, Largest
  <1>3. v[p] \in A
    <2>1. {q \in P : v[q] <= v[p]} = P
      BY <1>2
    <2>2. v[p] \in Range(v)
      BY DEF Range
    <2> QED
      BY <1>1, <2>1, <2>2
  <1>4. A \in SUBSET Nat
    BY DEF Range
  <1>5. PICK x \in A : \A y \in A : x <= y
    BY <1>3, <1>4, Least
  <1>6. Min(A) \in A
    BY <1>5 DEF Min
  <1>7. Ascending(v, i) = Min(A)
    BY DEF Ascending
  <1> HIDE DEF A
  <1> QED
    BY <1>4, <1>6, <1>7

-----------------------------------------------------------------------------
(* Complete batches. *)

\* the stages that are paid for before the selection
Evaluation == {"update_check", "selection"}

\* a sealed batch has the runs of its frozen pool and no other
BatchInv ==
    /\ DOMAIN batch = Stage \X Snap
    /\ \A b \in Stage \X Snap : batch[b] # NoBatch => DOMAIN batch[b] = Pairs(b[1])

\* the batches whose completeness is asked for, before the selection and before the decision
CompleteOn(S) == \A b \in S : Complete(b[1], batch[b])
Shipped == Release \X ({0, selection.native, selection.governed} \intersect Snap)

\* what was selected or decided rests on complete batches
DecisionInv ==
    /\ BatchInv
    /\ Selected => CompleteOn(Evaluation \X Snap)
    /\ decision["agentloopgate"] # "none" => Selected /\ CompleteOn(Shipped)

(* Nothing is run, selected or decided.                                    *)
LEMMA InitDecision == Init => DecisionInv
  BY DEF Init, DecisionInv, BatchInv, Selected

(* A batch is paid for once: what is sealed stays (RunNext's guard).       *)
LEMMA RunNextKeeps ==
    ASSUME BatchInv, NEW schedule, RunNext(schedule)
    PROVE  /\ BatchInv' /\ UNCHANGED <<selection, decision>>
           /\ \A b \in Stage \X Snap : batch[b] # NoBatch => batch'[b] = batch[b]
  <1>1. UNCHANGED <<selection, decision>>
    BY DEF RunNext
  <1>2. PICK s, k, f :
            /\ batch[<<s, k>>] = NoBatch /\ DOMAIN f = Pairs(s)
            /\ batch' = [batch EXCEPT ![<<s, k>>] = f]
    <2>1. PICK i \in DOMAIN schedule :
              /\ ~Sealed(schedule[i][1], schedule[i][2])
              /\ \E odd \in SUBSET Pairs(schedule[i][1]) :
                    \E how \in [odd -> Surprises[schedule[i][1]]] :
                        batch' = [batch EXCEPT ![<<schedule[i][1], schedule[i][2]>>] =
                            [p \in Pairs(schedule[i][1]) |->
                                Run(habit[schedule[i][2]], IF p \in odd THEN how[p] ELSE "none")]]
      BY DEF RunNext
    <2> QED
      BY <2>1 DEF Sealed
  <1>3. DOMAIN batch' = DOMAIN batch
    BY <1>2
  <1>4. ASSUME NEW b \in Stage \X Snap
        PROVE  /\ batch[b] # NoBatch => batch'[b] = batch[b]
               /\ batch'[b] # NoBatch => DOMAIN batch'[b] = Pairs(b[1])
    <2>1. CASE b = <<s, k>>
      <3>1. b[1] = s /\ batch'[b] = f /\ batch[b] = NoBatch
        BY <1>2, <2>1 DEF BatchInv
      <3> QED
        BY <1>2, <3>1
    <2>2. CASE b # <<s, k>>
      <3>1. batch'[b] = batch[b]
        BY <1>2, <2>2 DEF BatchInv
      <3> QED
        BY <3>1 DEF BatchInv
    <2> QED
      BY <2>1, <2>2
  <1> QED
    BY <1>1, <1>3, <1>4 DEF BatchInv

(* A sealed batch adds evidence and takes none away, so what was complete  *)
(* for the selection or the decision stays complete.                       *)
LEMMA RunKeeps ==
    ASSUME DecisionInv, RunEvaluation \/ RunRelease
    PROVE  DecisionInv'
  <1>1. PICK schedule : RunNext(schedule)
    BY DEF RunEvaluation, RunRelease
  <1>2. /\ BatchInv' /\ UNCHANGED <<selection, decision>>
        /\ \A b \in Stage \X Snap : batch[b] # NoBatch => batch'[b] = batch[b]
    BY <1>1, RunNextKeeps DEF DecisionInv
  <1>3. ASSUME NEW S, S \subseteq Stage \X Snap, CompleteOn(S)
        PROVE  \A b \in S : Complete(b[1], batch'[b])
    BY <1>2, <1>3 DEF CompleteOn, Complete
  <1>4. Evaluation \X Snap \subseteq Stage \X Snap /\ Shipped \subseteq Stage \X Snap
    BY DEF Evaluation, Shipped, Stage
  <1>5. Selected' = Selected /\ Shipped' = Shipped
    BY <1>2 DEF Selected, Shipped
  <1> QED
    BY <1>2, <1>3, <1>4, <1>5 DEF DecisionInv, CompleteOn

(* What the orchestrator asks of the batches of some snapshots holds of    *)
(* those that exist (evidence_complete in each gate).                      *)
LEMMA CompleteAll ==
    ASSUME NEW stages, NEW snapshots, NEW some, AllComplete(stages, snapshots)
    PROVE  CompleteOn(stages \X (snapshots \intersect some))
  <1> SUFFICES ASSUME NEW b \in stages \X (snapshots \intersect some)
               PROVE  Complete(b[1], batch[b])
    BY DEF CompleteOn
  <1>1. b = <<b[1], b[2]>> /\ b[1] \in stages /\ b[2] \in snapshots
    OBVIOUS
  <1> QED
    BY <1>1 DEF AllComplete

(* Selection asks for complete batches of every snapshot (select_on_dev).  *)
LEMMA SelectKeeps ==
    ASSUME DecisionInv, Select
    PROVE  DecisionInv'
  <1>1. UNCHANGED <<batch, decision>> /\ decision["agentloopgate"] = "none"
    BY DEF Select, DecisionInv
  <1>2. CompleteOn(Evaluation \X Snap)
    BY DEF Select, AllComplete, CompleteOn, Evaluation
  <1> QED
    BY <1>1, <1>2 DEF DecisionInv, BatchInv, CompleteOn

(* The decision asks for complete batches of the snapshots that have a     *)
(* role.                                                                   *)
LEMMA DecideKeeps ==
    ASSUME DecisionInv, DecideRoles
    PROVE  DecisionInv'
  <1>1. UNCHANGED <<batch, selection>> /\ Selected
    BY DEF DecideRoles, MayRelease
  <1>2. CompleteOn(Shipped)
    <2>1. AllComplete(Release, {0, selection.native, selection.governed})
      BY DEF DecideRoles
    <2> QED
      BY <2>1, CompleteAll DEF Shipped
  <1>3. BatchInv' /\ Selected' /\ (Selected => CompleteOn(Evaluation \X Snap)')
    BY <1>1 DEF DecisionInv, BatchInv, CompleteOn, Selected
  <1>4. CompleteOn(Shipped)'
    BY <1>1, <1>2 DEF CompleteOn, Shipped
  <1> QED
    BY <1>1, <1>3, <1>4 DEF DecisionInv

(* What was selected or decided rests on complete batches, for any pools,  *)
(* habits and surprises.                                                   *)
THEOREM DecisionInvariance == Spec => []DecisionInv
  <1>1. ASSUME DecisionInv, [Next]_vars PROVE DecisionInv'
    <2>1. CASE AssignRoles \/ UNCHANGED vars
      <3>1. UNCHANGED <<batch, selection, decision>>
        BY <2>1 DEF AssignRoles, vars
      <3> QED
        BY <1>1, <3>1 DEF DecisionInv, BatchInv, CompleteOn, Selected, Shipped
    <2> QED
      BY <1>1, <2>1, RunKeeps, SelectKeeps, DecideKeeps DEF Next
  <1> QED
    BY InitDecision, <1>1, PTL DEF Spec

(* An infrastructure error neither helps nor hurts anybody: nothing is     *)
(* selected or decided from a batch that holds one.                        *)
THEOREM InfraIsNeverUsed == Spec => []InfraNeverDecides
  <1>1. ASSUME DecisionInv PROVE InfraNeverDecides
    <2>1. ASSUME NEW b \in Stage \X Snap, Complete(b[1], batch[b]),
                 NEW p \in DOMAIN batch[b]
          PROVE  batch[b][p].valid
      BY <1>1, <2>1 DEF DecisionInv, BatchInv, Complete, Scored, Pairs
    <2>2. Selected => \A b \in Evaluation \X Snap : b \in Stage \X Snap /\ Complete(b[1], batch[b])
      BY <1>1 DEF DecisionInv, CompleteOn, Evaluation, Stage
    <2>3. decision["agentloopgate"] # "none" =>
              \A b \in Release \X Snap :
                  b[2] \in {0, selection.native, selection.governed} =>
                      b \in Stage \X Snap /\ Complete(b[1], batch[b])
      BY <1>1 DEF DecisionInv, CompleteOn, Shipped, Stage
    <2> QED
      BY <2>1, <2>2, <2>3 DEF InfraNeverDecides, Evaluation
  <1> QED
    BY DecisionInvariance, <1>1, PTL
-----------------------------------------------------------------------------
(* Keys. *)

\* what two keys that are compared look like
Comparable(x, n) == n \in Nat /\ DOMAIN x = 1..n /\ \A i \in 1..n : x[i] \in Int

(* Two keys that differ are in an order (the ranking policy).              *)
LEMMA BeforeTotal ==
    ASSUME NEW n, NEW x, NEW y, Comparable(x, n), Comparable(y, n),
           NEW l \in 1..n, x[l] # y[l]
    PROVE  Before(x, y) \/ Before(y, x)
  <1> DEFINE D == {i \in 1..n : x[i] # y[i]}
  <1>0. n \in Nat /\ l \in D
    BY DEF Comparable
  <1>1. D \in SUBSET Nat /\ D # {}
    BY <1>0
  <1>2. PICK i \in D : \A j \in D : i <= j
    BY <1>1, Least
  <1>3. i \in 1..n /\ x[i] # y[i] /\ x[i] \in Int /\ y[i] \in Int
    BY <1>2 DEF Comparable
  <1>4. \A j \in 1..i - 1 : x[j] = y[j]
    BY <1>2, <1>3 DEF Comparable
  <1>5. DOMAIN x = 1..n /\ DOMAIN y = 1..n /\ \A j \in 1..i - 1 : y[j] = x[j]
    BY <1>4 DEF Comparable
  <1>6. CASE x[i] < y[i]
    BY <1>3, <1>4, <1>5, <1>6 DEF Before
  <1>7. CASE y[i] < x[i]
    BY <1>3, <1>5, <1>7 DEF Before
  <1> QED
    BY <1>3, <1>6, <1>7

(* A key that is before one is before all that are after it.               *)
LEMMA BeforeTransitive ==
    ASSUME NEW n, NEW x, NEW y, NEW z,
           Comparable(x, n), Comparable(y, n), Comparable(z, n), Before(x, y), Before(y, z)
    PROVE  Before(x, z)
  <1>1. PICK i \in 1..n : x[i] < y[i] /\ \A h \in 1..i - 1 : x[h] = y[h]
    BY DEF Before, Comparable
  <1>2. PICK j \in 1..n : y[j] < z[j] /\ \A h \in 1..j - 1 : y[h] = z[h]
    BY DEF Before, Comparable
  <1> DEFINE m == IF i <= j THEN i ELSE j
  <1>3. m \in 1..n /\ x[m] \in Int /\ y[m] \in Int /\ z[m] \in Int
    BY DEF Comparable
  <1>4. \A h \in 1..m - 1 : h \in 1..i - 1 /\ h \in 1..j - 1
    BY DEF Comparable
  <1>5. x[m] < z[m]
    <2>1. CASE i < j
      <3>1. m = i /\ i \in 1..j - 1
        BY <2>1 DEF Comparable
      <3>2. y[i] = z[i] /\ x[i] < y[i]
        BY <1>1, <1>2, <3>1
      <3> QED
        BY <3>1, <3>2
    <2>2. CASE i = j
      <3>1. m = i
        BY <2>2 DEF Comparable
      <3> QED
        BY <1>1, <1>2, <1>3, <2>2, <3>1
    <2>3. CASE j < i
      <3>1. m = j /\ j \in 1..i - 1
        BY <2>3 DEF Comparable
      <3>2. x[j] = y[j] /\ y[j] < z[j]
        BY <1>1, <1>2, <3>1
      <3> QED
        BY <3>1, <3>2
    <2> QED
      BY <2>1, <2>2, <2>3 DEF Comparable
  <1>6. \A h \in 1..m - 1 : x[h] = z[h]
    BY <1>1, <1>2, <1>4
  <1> QED
    BY <1>3, <1>5, <1>6 DEF Before, Comparable

(* A key is not before one that is before it.                              *)
LEMMA BeforeAsymmetric ==
    ASSUME NEW n, NEW x, NEW y, Comparable(x, n), Comparable(y, n), Before(x, y), Before(y, x)
    PROVE  FALSE
  <1>1. Before(x, x)
    BY BeforeTransitive
  <1>2. PICK i \in 1..n : x[i] < x[i]
    BY <1>1 DEF Before, Comparable
  <1> QED
    BY <1>2 DEF Comparable

(* One of finitely many keys that differ in their last place is first.     *)
LEMMA FirstExists ==
    ASSUME NEW S, IsFiniteSet(S), S # {}, NEW n, NEW K, \A k \in S : Comparable(K[k], n),
           \A k, j \in S : k # j => n \in 1..n /\ K[k][n] # K[j][n]
    PROVE  \E k \in S : \A j \in S \ {k} : Before(K[k], K[j])
  <1> DEFINE G == {T \in SUBSET S : T # {} => \E k \in T : \A j \in T \ {k} : Before(K[k], K[j])}
  <1>1. {} \in G
    OBVIOUS
  <1>2. ASSUME NEW T \in SUBSET S, T # {}, T \ {Pick(T)} \in G PROVE T \in G
    <2> DEFINE x == Pick(T)
               R == T \ {x}
    <2>1. x \in T /\ R \in SUBSET S
      BY <1>2, Picking
    <2> HIDE DEF x
    <2>2. CASE R = {}
      <3>1. \A j \in T \ {x} : Before(K[x], K[j])
        BY <2>2
      <3> QED
        BY <2>1, <3>1
    <2>3. CASE R # {}
      <3>1. PICK k \in R : \A j \in R \ {k} : Before(K[k], K[j])
        BY <1>2, <2>3 DEF x
      <3>2. /\ k \in S /\ x \in S /\ k # x
            /\ Comparable(K[k], n) /\ Comparable(K[x], n) /\ n \in 1..n /\ K[k][n] # K[x][n]
        BY <2>1, <3>1
      <3>3. Before(K[k], K[x]) \/ Before(K[x], K[k])
        BY <3>2, BeforeTotal
      <3>4. CASE Before(K[k], K[x])
        <4>1. k \in T /\ \A j \in T \ {k} : Before(K[k], K[j])
          BY <3>1, <3>4
        <4> QED
          BY <4>1
      <3>5. CASE Before(K[x], K[k])
        <4>1. \A j \in T \ {x} : Before(K[x], K[j])
          <5> TAKE j \in T \ {x}
          <5>1. CASE j = k
            BY <3>5, <5>1
          <5>2. CASE j # k
            <6>1. Before(K[k], K[j]) /\ Comparable(K[j], n)
              BY <3>1, <5>2
            <6> QED
              BY <3>2, <3>5, <6>1, BeforeTransitive
          <5> QED
            BY <5>1, <5>2
        <4> QED
          BY <2>1, <4>1
      <3> QED
        BY <3>3, <3>4, <3>5
    <2> QED
      BY <2>2, <2>3
  <1> HIDE DEF G
  <1>3. \A T \in SUBSET S : T \in G
    BY <1>1, <1>2, SubsetInduction
  <1> QED
    BY <1>3 DEF G

-----------------------------------------------------------------------------
(* What a batch says of its snapshot. *)

(* The pools of the stages are finite (PoolAssumption).                    *)
LEMMA PairsFinite ==
    ASSUME NEW s \in Stage
    PROVE  /\ IsFiniteSet(TasksOf[s]) /\ Cardinality(TasksOf[s]) \in Nat
           /\ TrialsOf[s] \in Nat \ {0} /\ Cardinality(1..TrialsOf[s]) = TrialsOf[s]
           /\ IsFiniteSet(Pairs(s)) /\ Cardinality(Pairs(s)) = Trials(s) /\ Trials(s) \in Nat
  <1>1. IsFiniteSet(TasksOf[s]) /\ TrialsOf[s] \in Nat \ {0}
    BY PoolAssumption
  <1>2. Cardinality(TasksOf[s]) \in Nat
    BY <1>1, FS_CardinalityType
  <1>3. IsFiniteSet(1..TrialsOf[s]) /\ Cardinality(1..TrialsOf[s]) = TrialsOf[s]
    BY <1>1, FS_Interval
  <1>4. /\ IsFiniteSet(TasksOf[s] \X (1..TrialsOf[s]))
        /\ Cardinality(TasksOf[s] \X (1..TrialsOf[s])) =
               Cardinality(TasksOf[s]) * Cardinality(1..TrialsOf[s])
    BY <1>1, <1>3, FS_Product
  <1> QED
    BY <1>1, <1>2, <1>3, <1>4 DEF Pairs, Trials

(* The measures are numbers.                                               *)
LEMMA Measured ==
    ASSUME NEW b, b \in [Pairs("selection") -> RunType], Scored(b) = Pairs("selection")
    PROVE  /\ Measures(b).stable \in SUBSET TasksOf["selection"]
           /\ Cardinality(Measures(b).stable) \in Nat
           /\ Measures(b).retries \in Nat /\ Measures(b).timeouts \in Nat
           /\ Measures(b).whole \in Nat /\ Measures(b).cost \in Nat
           /\ Measures(b).p50 \in Nat /\ Measures(b).p95 \in Nat /\ Measures(b).max \in Nat
  <1> DEFINE P == Pairs("selection")
             v == Latencies(b, P)
             n == Cardinality(P)
             retries == [p \in P |-> b[p].retries]
             timeouts == [p \in P |-> b[p].timeouts]
             whole == [p \in P |-> (1 + b[p].retries) * b[p].cost]
             cost == [p \in P |-> b[p].cost]
  <1>1. /\ DOMAIN b = P /\ IsFiniteSet(P) /\ n \in Nat
        /\ IsFiniteSet(TasksOf["selection"]) /\ TrialsOf["selection"] \in Nat \ {0}
    BY PairsFinite, FS_CardinalityType DEF Stage
  <1>2. n # 0
    <2>1. PICK t : t \in TasksOf["selection"]
      BY PoolAssumption
    <2>2. <<t, 1>> \in P
      BY <1>1, <2>1 DEF Pairs
    <2> QED
      BY <1>1, <2>2, FS_EmptySet
  <1>3. /\ \A p \in P : retries[p] \in Nat /\ timeouts[p] \in Nat
        /\ \A p \in P : whole[p] \in Nat /\ cost[p] \in Nat
    BY DEF RunType
  <1>4. /\ Measures(b).retries = Total(retries, P) /\ Measures(b).timeouts = Total(timeouts, P)
        /\ Measures(b).whole = Total(whole, P) /\ Measures(b).cost = Total(cost, P)
    BY <1>1 DEF Measures, Sum, Total
  <1>5. /\ Measures(b).p50 = Median2(v) /\ Measures(b).p95 = NearestRank(v, 95)
        /\ Measures(b).max = Ascending(v, n) /\ Measures(b).stable = Stable("selection", b)
    BY <1>1 DEF Measures
  <1>6. DOMAIN v = P /\ \A p \in P : v[p] \in Nat
    BY DEF Latencies, RunType
  <1>7. \A i \in 1..n : Ascending(v, i) \in Nat
    <2> HIDE DEF v, P
    <2> QED
      BY <1>1, <1>6, AscendingType
  <1>8. Median2(v) \in Nat /\ NearestRank(v, 95) \in Nat /\ Ascending(v, n) \in Nat
    <2> HIDE DEF v, P
    <2>1. /\ n % 2 = 1 => n \div 2 + 1 \in 1..n
          /\ n % 2 # 1 => n \div 2 \in 1..n /\ n \div 2 + 1 \in 1..n
          /\ (n * 95 + 99) \div 100 \in 1..n /\ n \in 1..n
      <3> HIDE DEF n
      <3> QED
        BY <1>1, <1>2
    <2>2. Cardinality(DOMAIN v) = n
      BY <1>6
    <2>3. NearestRank(v, 95) \in Nat /\ Ascending(v, n) \in Nat
      <3> HIDE DEF n
      <3> QED
        BY <1>7, <2>1, <2>2 DEF NearestRank
    <2>4. Median2(v) \in Nat
      <3> HIDE DEF n
      <3>1. CASE n % 2 = 1
        <4>1. Ascending(v, n \div 2 + 1) \in Nat
          BY <1>7, <2>1, <3>1
        <4> QED
          BY <1>2, <2>2, <3>1, <4>1 DEF Median2
      <3>2. CASE n % 2 # 1
        <4>1. Ascending(v, n \div 2) \in Nat /\ Ascending(v, n \div 2 + 1) \in Nat
          BY <1>7, <2>1, <3>2
        <4> QED
          BY <1>2, <2>2, <3>2, <4>1 DEF Median2
      <3> QED
        BY <3>1, <3>2
    <2> QED
      BY <2>3, <2>4
  <1>9. /\ Total(retries, P) \in Nat /\ Total(timeouts, P) \in Nat
        /\ Total(whole, P) \in Nat /\ Total(cost, P) \in Nat
    <2> HIDE DEF P, retries, timeouts, whole, cost
    <2>1. \A T \in SUBSET P : Total(retries, T) \in Nat
      BY <1>1, <1>3, SumType
    <2>2. \A T \in SUBSET P : Total(timeouts, T) \in Nat
      BY <1>1, <1>3, SumType
    <2>3. \A T \in SUBSET P : Total(whole, T) \in Nat
      BY <1>1, <1>3, SumType
    <2>4. \A T \in SUBSET P : Total(cost, T) \in Nat
      BY <1>1, <1>3, SumType
    <2> QED
      BY <2>1, <2>2, <2>3, <2>4
  <1>10. /\ Stable("selection", b) \in SUBSET TasksOf["selection"]
         /\ Cardinality(Stable("selection", b)) \in Nat
    <2>1. Stable("selection", b) \in SUBSET TasksOf["selection"]
      BY DEF Stable
    <2> QED
      BY <1>1, <2>1, FS_Subset, FS_CardinalityType
  <1> QED
    BY <1>4, <1>5, <1>8, <1>9, <1>10

-----------------------------------------------------------------------------
(* Who is selected. *)

\* what batches b say of candidate k, who is eligible by them, and its key
Of(b, k) == Measures(b[<<"selection", k>>])
EligibleIn(b) == {k \in Candidate : Eligible(Of(b, k), Of(b, 0))}
KeyIn(b, k) == Key(k, Of(b, k))

\* the batches b tell how the selection task went for every snapshot
Usable(b) ==
    \A k \in Snap :
        /\ b[<<"selection", k>>] \in [Pairs("selection") -> RunType]
        /\ Scored(b[<<"selection", k>>]) = Pairs("selection")

(* Keys can be compared, and differ in their last place: no two candidates *)
(* have one id (IdAssumption).                                             *)
LEMMA KeysCompare ==
    ASSUME NEW b, Usable(b)
    PROVE  /\ \A k \in Candidate : Comparable(KeyIn(b, k), 9)
           /\ \A j, k \in Candidate : j # k => KeyIn(b, j)[9] # KeyIn(b, k)[9]
  <1>1. ASSUME NEW k \in Candidate PROVE Comparable(KeyIn(b, k), 9)
    <2> DEFINE e == Of(b, k)
    <2>1. k \in Snap
      BY CountAssumption DEF Candidate, Snap
    <2>2. /\ Cardinality(e.stable) \in Nat /\ e.timeouts \in Nat /\ e.retries \in Nat
          /\ e.p95 \in Nat /\ e.max \in Nat /\ e.whole \in Nat /\ e.cost \in Nat /\ e.p50 \in Nat
      <3>1. PICK c : c = b[<<"selection", k>>]
        OBVIOUS
      <3>2. c \in [Pairs("selection") -> RunType] /\ Scored(c) = Pairs("selection")
        BY <2>1, <3>1 DEF Usable
      <3>3. /\ Cardinality(Measures(c).stable) \in Nat
            /\ Measures(c).retries \in Nat /\ Measures(c).timeouts \in Nat
            /\ Measures(c).whole \in Nat /\ Measures(c).cost \in Nat
            /\ Measures(c).p50 \in Nat /\ Measures(c).p95 \in Nat /\ Measures(c).max \in Nat
        BY <3>2, Measured
      <3> QED
        BY <3>1, <3>3 DEF Of
    <2> HIDE DEF e
    <2>3. Id[k] \in Int
      BY IdAssumption, CountAssumption DEF Candidate
    <2>4. KeyIn(b, k) = Key(k, e)
      BY DEF KeyIn, e
    <2> DEFINE x == Key(k, e)
    <2>5. /\ DOMAIN x = 1..9
          /\ x[1] = -Cardinality(e.stable) /\ x[2] = e.timeouts /\ x[3] = e.retries
          /\ x[4] = e.p95 /\ x[5] = e.max /\ x[6] = e.whole /\ x[7] = e.cost /\ x[8] = e.p50
          /\ x[9] = Id[k]
      BY DEF Key
    <2> HIDE DEF x
    <2>6. \A i \in 1..9 : x[i] \in Int
      <3> TAKE i \in 1..9
      <3>1. i \in {1, 2, 3, 4, 5, 6, 7, 8, 9}
        OBVIOUS
      <3>2. -Cardinality(e.stable) \in Int
        BY <2>2
      <3> QED
        BY <2>2, <2>3, <2>5, <3>1, <3>2
    <2> QED
      BY <2>4, <2>5, <2>6 DEF Comparable, x
  <1>2. \A k \in Candidate : KeyIn(b, k)[9] = Id[k]
    BY DEF KeyIn, Key
  <1>3. \A j, k \in Candidate : j # k => Id[j] # Id[k]
    BY IdAssumption DEF IsInjective
  <1> QED
    BY <1>1, <1>2, <1>3

(* The selection abstains when nobody is eligible, and otherwise governs   *)
(* the eligible candidate that comes first (_select_with_baseline).        *)
LEMMA WinnerIsFirst ==
    ASSUME NEW b, Usable(b)
    PROVE  /\ GovernedWinner(b) \in 0..Count
           /\ GovernedWinner(b) # 0 => GovernedWinner(b) \in EligibleIn(b)
           /\ \A j \in EligibleIn(b) :
                 GovernedWinner(b) # 0 /\
                 (j # GovernedWinner(b) => Before(KeyIn(b, GovernedWinner(b)), KeyIn(b, j)))
  <1> DEFINE E == EligibleIn(b)
             w == CHOOSE k \in E : \A j \in E \ {k} : Before(KeyIn(b, k), KeyIn(b, j))
  <1>1. GovernedWinner(b) = IF E = {} THEN 0 ELSE w
    <2> DEFINE of == [k \in Snap |-> Measures(b[<<"selection", k>>])]
               eligible == {k \in Candidate : Eligible(of[k], of[0])}
    <2>1. 0 \in Snap /\ \A k \in Candidate : k \in Snap
      BY CountAssumption DEF Candidate, Snap
    <2>2. \A k \in Snap : of[k] = Of(b, k)
      BY DEF Of
    <2>3. GovernedWinner(b) =
              IF eligible = {} THEN 0
              ELSE CHOOSE k \in eligible :
                       \A j \in eligible \ {k} : Before(Key(k, of[k]), Key(j, of[j]))
      BY DEF GovernedWinner
    <2> HIDE DEF of
    <2>4. eligible = E
      BY <2>1, <2>2 DEF EligibleIn
    <2>5. \A k \in E : KeyIn(b, k) = Key(k, of[k])
      BY <2>1, <2>2 DEF KeyIn, EligibleIn
    <2> DEFINE First(k) == \A j \in eligible \ {k} : Before(Key(k, of[k]), Key(j, of[j]))
               Top(k) == \A j \in E \ {k} : Before(KeyIn(b, k), KeyIn(b, j))
    <2>6. \A k \in E : First(k) <=> Top(k)
      BY <2>4, <2>5
    <2>7. {k \in eligible : First(k)} = {k \in E : Top(k)}
      BY <2>4, <2>6
    <2>8. (CHOOSE k \in eligible : First(k)) = (CHOOSE k \in E : Top(k))
      <3>1. \A k : (k \in eligible /\ First(k)) <=> (k \in E /\ Top(k))
        BY <2>7
      <3> HIDE DEF First, Top, eligible, E
      <3> QED
        BY <3>1
    <2> QED
      BY <2>3, <2>4, <2>8
  <1>2. E \in SUBSET Candidate /\ IsFiniteSet(E)
    <2>1. IsFiniteSet(Candidate)
      BY CountAssumption, FS_Interval DEF Candidate
    <2>2. E \in SUBSET Candidate
      BY DEF EligibleIn
    <2> QED
      BY <2>1, <2>2, FS_Subset
  <1>3. E # {} => w \in E /\ \A j \in E \ {w} : Before(KeyIn(b, w), KeyIn(b, j))
    <2> SUFFICES ASSUME E # {}
                 PROVE  \E k \in E : \A j \in E \ {k} : Before(KeyIn(b, k), KeyIn(b, j))
      OBVIOUS
    <2> DEFINE K == [k \in E |-> KeyIn(b, k)]
    <2>1. \A k \in E : K[k] = KeyIn(b, k)
      OBVIOUS
    <2> HIDE DEF K, E
    <2>2. \A k \in E : Comparable(K[k], 9)
      BY <1>2, <2>1, KeysCompare
    <2>3. \A j, k \in E : j # k => 9 \in 1..9 /\ K[j][9] # K[k][9]
      BY <1>2, <2>1, KeysCompare
    <2>4. \E k \in E : \A j \in E \ {k} : Before(K[k], K[j])
      <3>1. PICK n : n = 9
        OBVIOUS
      <3>2. /\ \A k \in E : Comparable(K[k], n)
            /\ \A k, j \in E : k # j => n \in 1..n /\ K[k][n] # K[j][n]
        BY <2>2, <2>3, <3>1
      <3> QED
        BY ONLY <1>2, <3>2, E # {}, FirstExists
    <2> QED
      BY <2>1, <2>4
  <1>4. \A k \in E : k \in 0..Count /\ k # 0
    BY <1>2, CountAssumption DEF Candidate
  <1> HIDE DEF w, E
  <1>5. CASE E = {}
    <2>1. GovernedWinner(b) = 0
      BY <1>1, <1>5
    <2> QED
      BY <1>5, <2>1, CountAssumption DEF E
  <1>6. CASE E # {}
    <2>1. GovernedWinner(b) = w /\ w \in E
      BY <1>1, <1>3, <1>6
    <2> QED
      BY <1>3, <1>4, <1>6, <2>1 DEF E
  <1> QED
    BY <1>5, <1>6

(* The eligible candidate that comes first is the one that is governed.    *)
LEMMA FirstIsWinner ==
    ASSUME NEW b, Usable(b), NEW k \in EligibleIn(b),
           \A j \in EligibleIn(b) \ {k} : Before(KeyIn(b, k), KeyIn(b, j))
    PROVE  GovernedWinner(b) = k
  <1> DEFINE w == GovernedWinner(b)
  <1>1. w \in EligibleIn(b) /\ (k # w => Before(KeyIn(b, w), KeyIn(b, k)))
    BY WinnerIsFirst
  <1>2. Comparable(KeyIn(b, k), 9) /\ Comparable(KeyIn(b, w), 9)
    BY <1>1, KeysCompare DEF EligibleIn
  <1> HIDE DEF w
  <1>3. ASSUME k # w PROVE FALSE
    <2>1. Before(KeyIn(b, k), KeyIn(b, w)) /\ Before(KeyIn(b, w), KeyIn(b, k))
      BY <1>1, <1>3
    <2> QED
      BY <1>2, <2>1, BeforeAsymmetric
  <1> QED
    BY <1>3 DEF w

-----------------------------------------------------------------------------
(* The runs of sealed batches, and what selection and decision say of them. *)

\* every run of a sealed batch is one
RunInv ==
    /\ habit \in [Snap -> Habit]
    /\ \A b \in Stage \X Snap : batch[b] # NoBatch => batch[b] \in [Pairs(b[1]) -> RunType]

\* what was said of the batches is still what they say
ChoiceInv ==
    /\ Selected => selection.native = NativeWinner /\ selection.governed = GovernedWinner(batch)
    /\ decision["agentloopgate"] # "none" =>
          MayRelease /\ decision["agentloopgate"] = Decide(batch, selection.governed)

IInv == DecisionInv /\ RunInv /\ ChoiceInv

(* Whatever happens to a run, it has a record (TauOutcomeAdapter._record). *)
LEMMA RunTyped ==
    ASSUME NEW h \in Habit, NEW surprise
    PROVE  Run(h, surprise) \in RunType
  <1>1. h \in [success : BOOLEAN, cost : Nat, latency : Nat]
    BY BoundAssumption
  <1>2. (surprise # "infra") \in BOOLEAN /\
        (surprise \notin {"infra", "cut"} /\ h.success # (surprise = "flip")) \in BOOLEAN
    OBVIOUS
  <1>3. (IF surprise = "slow" THEN 2 * h.latency + 1 ELSE h.latency) \in Nat /\ h.cost \in Nat
    BY <1>1
  <1>4. /\ (IF surprise \in {"retry", "timeout"} THEN 1 ELSE 0) \in 0..1
        /\ (IF surprise \in {"timeout", "cut"} THEN 1 ELSE 0) \in 0..1
    OBVIOUS
  <1> QED
    BY <1>2, <1>3, <1>4 DEF Run, RunType

(* A batch that is paid for holds the records of its runs.                 *)
LEMMA RunNextTyped ==
    ASSUME BatchInv, RunInv, NEW schedule, RunNext(schedule)
    PROVE  RunInv'
  <1>1. habit' = habit
    BY DEF RunNext
  <1>2. PICK s, k, f :
            /\ k \in Snap => f \in [Pairs(s) -> RunType]
            /\ batch' = [batch EXCEPT ![<<s, k>>] = f]
    <2>1. PICK i \in DOMAIN schedule :
              \E odd \in SUBSET Pairs(schedule[i][1]) :
                  \E how \in [odd -> Surprises[schedule[i][1]]] :
                      batch' = [batch EXCEPT ![<<schedule[i][1], schedule[i][2]>>] =
                          [p \in Pairs(schedule[i][1]) |->
                              Run(habit[schedule[i][2]], IF p \in odd THEN how[p] ELSE "none")]]
      BY DEF RunNext
    <2> DEFINE s == schedule[i][1]
               k == schedule[i][2]
    <2>2. PICK odd, how :
              batch' = [batch EXCEPT ![<<s, k>>] =
                  [p \in Pairs(s) |-> Run(habit[k], IF p \in odd THEN how[p] ELSE "none")]]
      BY <2>1
    <2> DEFINE f == [p \in Pairs(s) |-> Run(habit[k], IF p \in odd THEN how[p] ELSE "none")]
    <2>3. k \in Snap => f \in [Pairs(s) -> RunType]
      <3> SUFFICES ASSUME k \in Snap, NEW p \in Pairs(s)
                   PROVE  Run(habit[k], IF p \in odd THEN how[p] ELSE "none") \in RunType
        OBVIOUS
      <3>1. habit[k] \in Habit
        BY DEF RunInv
      <3> QED
        BY <3>1, RunTyped
    <2> QED
      BY <2>2, <2>3
  <1>3. ASSUME NEW b \in Stage \X Snap, batch'[b] # NoBatch
        PROVE  batch'[b] \in [Pairs(b[1]) -> RunType]
    <2>1. CASE b = <<s, k>>
      <3>1. b[1] = s /\ k \in Snap /\ batch'[b] = f
        BY <1>2, <2>1 DEF BatchInv
      <3> QED
        BY <1>2, <3>1
    <2>2. CASE b # <<s, k>>
      <3>1. batch'[b] = batch[b]
        BY <1>2, <2>2 DEF BatchInv
      <3> QED
        BY <1>3, <3>1 DEF RunInv
    <2> QED
      BY <2>1, <2>2
  <1> QED
    BY <1>1, <1>3 DEF RunInv

(* The selection looks at the selection batches and at nothing else.       *)
LEMMA SameSelection ==
    ASSUME NEW b, NEW c, \A k \in Snap : b[<<"selection", k>>] = c[<<"selection", k>>]
    PROVE  GovernedWinner(b) = GovernedWinner(c)
  <1>1. [k \in Snap |-> Measures(b[<<"selection", k>>])] =
            [k \in Snap |-> Measures(c[<<"selection", k>>])]
    OBVIOUS
  <1> DEFINE W(of) ==
               LET eligible == {k \in Candidate : Eligible(of[k], of[0])}
               IN IF eligible = {} THEN 0
                  ELSE CHOOSE k \in eligible :
                           \A j \in eligible \ {k} : Before(Key(k, of[k]), Key(j, of[j]))
  <1>2. /\ GovernedWinner(b) = W([k \in Snap |-> Measures(b[<<"selection", k>>])])
        /\ GovernedWinner(c) = W([k \in Snap |-> Measures(c[<<"selection", k>>])])
    BY DEF GovernedWinner
  <1> HIDE DEF W
  <1> QED
    BY <1>1, <1>2

(* The gates look at the release batches of the baseline and of the        *)
(* candidate and at nothing else (_decide_selected).                       *)
LEMMA SameDecision ==
    ASSUME NEW b, NEW c, NEW k,
           \A s \in Release : b[<<s, 0>>] = c[<<s, 0>>] /\ b[<<s, k>>] = c[<<s, k>>]
    PROVE  Decide(b, k) = Decide(c, k)
  <1>1. \A s \in Release : Net(b, k, s) = Net(c, k, s)
    BY DEF Net
  <1>2. Catastrophic(b, k) = Catastrophic(c, k)
    <2> DEFINE All == UNION {{s} \X TasksOf[s] : s \in Release}
    <2>1. \A e \in All : e[1] \in Release
      OBVIOUS
    <2> HIDE DEF All
    <2>2. \A e \in All : /\ Stable(e[1], b[<<e[1], 0>>]) = Stable(e[1], c[<<e[1], 0>>])
                       /\ Successes(b[<<e[1], k>>], e[2]) = Successes(c[<<e[1], k>>], e[2])
      BY <2>1
    <2>3. /\ Catastrophic(b, k) = {e \in All : e[2] \in Stable(e[1], b[<<e[1], 0>>])
                                               /\ Successes(b[<<e[1], k>>], e[2]) = 0}
          /\ Catastrophic(c, k) = {e \in All : e[2] \in Stable(e[1], c[<<e[1], 0>>])
                                               /\ Successes(c[<<e[1], k>>], e[2]) = 0}
      BY DEF Catastrophic, All
    <2> QED
      BY <2>2, <2>3
  <1>3. ASSUME NEW i \in {0, k}
        PROVE  /\ CostOf(b, i) = CostOf(c, i) /\ LatencyOf(b, i) = LatencyOf(c, i)
               /\ \A s \in Release : Complete(s, b[<<s, i>>]) = Complete(s, c[<<s, i>>])
    <2>1. \A s \in Release : b[<<s, i>>] = c[<<s, i>>]
      OBVIOUS
    <2>2. CostOf(b, i) = CostOf(c, i)
      <3>1. [s \in Release |->
                Sum(b[<<s, i>>], Scored(b[<<s, i>>]), LAMBDA r : r.cost)] =
            [s \in Release |->
                Sum(c[<<s, i>>], Scored(c[<<s, i>>]), LAMBDA r : r.cost)]
        BY <2>1 DEF Sum
      <3> QED
        BY <3>1 DEF CostOf
    <2>3. LatencyOf(b, i) = LatencyOf(c, i)
      <3> DEFINE A(d) == UNION {{s} \X DOMAIN d[<<s, i>>] : s \in Release}
      <3>1. A(b) = A(c) /\ \A e \in A(b) : e[1] \in Release
        <4>1. {{s} \X DOMAIN b[<<s, i>>] : s \in Release} =
                  {{s} \X DOMAIN c[<<s, i>>] : s \in Release}
          BY <2>1
        <4>2. \A e \in A(b) : e[1] \in Release
          <5> TAKE e \in A(b)
          <5>1. PICK s \in Release : e \in {s} \X DOMAIN b[<<s, i>>]
            OBVIOUS
          <5> QED
            BY <5>1
        <4> QED
          BY <4>1, <4>2
      <3> HIDE DEF A
      <3>2. [e \in A(b) |-> b[<<e[1], i>>][e[2]].latency] =
            [e \in A(c) |-> c[<<e[1], i>>][e[2]].latency]
        BY <2>1, <3>1
      <3> QED
        BY <3>2 DEF LatencyOf, A
    <2> QED
      BY <2>1, <2>2, <2>3
  <1>4. \A gate : Passes(gate, b, k) = Passes(gate, c, k)
    <2> TAKE gate
    <2>1. (\A s \in Release, i \in {0, k} : Complete(s, b[<<s, i>>])) =
          (\A s \in Release, i \in {0, k} : Complete(s, c[<<s, i>>]))
      BY <1>3
    <2>2. /\ CostOf(b, 0) = CostOf(c, 0) /\ CostOf(b, k) = CostOf(c, k)
          /\ LatencyOf(b, 0) = LatencyOf(c, 0) /\ LatencyOf(b, k) = LatencyOf(c, k)
      BY <1>3
    <2>3. /\ Net(b, k, "release_id") = Net(c, k, "release_id")
          /\ Net(b, k, "release_ood") = Net(c, k, "release_ood")
          /\ Net(b, k, "replay") = Net(c, k, "replay")
      BY <1>1 DEF Release
    <2> QED
      BY <1>2, <2>1, <2>2, <2>3 DEF Passes
  <1> QED
    BY <1>4 DEF Decide

(* Nothing is sealed, selected or decided.                                 *)
LEMMA InitChoice == Init => IInv
  BY InitDecision DEF Init, IInv, RunInv, ChoiceInv, Selected

(* The selection batches are complete once something is selected.          *)
LEMMA SelectionUsable ==
    ASSUME IInv, Selected
    PROVE  /\ Usable(batch) /\ 0 \in Snap
           /\ selection.governed \in 0..Count
           /\ selection.governed # 0 => selection.governed \in EligibleIn(batch)
  <1>1. CompleteOn(Evaluation \X Snap)
    BY DEF IInv, DecisionInv
  <1>2. ASSUME NEW j \in Snap
        PROVE  /\ batch[<<"selection", j>>] \in [Pairs("selection") -> RunType]
               /\ Scored(batch[<<"selection", j>>]) = Pairs("selection")
    <2>1. <<"selection", j>> \in Evaluation \X Snap /\ <<"selection", j>> \in Stage \X Snap
      BY DEF Evaluation, Stage
    <2>2. Complete("selection", batch[<<"selection", j>>])
      BY <1>1, <2>1 DEF CompleteOn
    <2> QED
      BY <2>1, <2>2 DEF Complete, IInv, RunInv, Pairs
  <1>3. PICK b : b = batch
    OBVIOUS
  <1>4. Usable(b)
    BY <1>2, <1>3 DEF Usable
  <1>5. GovernedWinner(b) \in 0..Count /\ (GovernedWinner(b) # 0 => GovernedWinner(b) \in EligibleIn(b))
    BY <1>4, WinnerIsFirst
  <1> QED
    BY <1>3, <1>4, <1>5, CountAssumption DEF IInv, ChoiceInv, Snap

(* Selection and decision rest on sealed batches, which later runs leave   *)
(* alone.                                                                  *)
LEMMA RunChoice ==
    ASSUME IInv, RunEvaluation \/ RunRelease
    PROVE  IInv'
  <1>1. PICK schedule : RunNext(schedule)
    BY DEF RunEvaluation, RunRelease
  <1>2. /\ BatchInv' /\ UNCHANGED <<selection, decision>>
        /\ \A b \in Stage \X Snap : batch[b] # NoBatch => batch'[b] = batch[b]
    BY <1>1, RunNextKeeps DEF IInv, DecisionInv
  <1>3. DecisionInv' /\ RunInv'
    BY <1>1, RunKeeps, RunNextTyped DEF IInv, DecisionInv
  <1>4. ASSUME NEW S, S \subseteq Stage \X Snap, CompleteOn(S)
        PROVE  \A b \in S : batch'[b] = batch[b]
    BY <1>2, <1>4 DEF CompleteOn, Complete
  <1>5. Selected' = Selected /\ MayRelease' = MayRelease
    BY <1>2 DEF Selected, MayRelease
  <1>6. Selected => GovernedWinner(batch') = GovernedWinner(batch)
    <2> SUFFICES ASSUME Selected PROVE GovernedWinner(batch') = GovernedWinner(batch)
      OBVIOUS
    <2>1. PICK b, c : b = batch' /\ c = batch
      OBVIOUS
    <2>2. \A k \in Snap : b[<<"selection", k>>] = c[<<"selection", k>>]
      <3>1. CompleteOn(Evaluation \X Snap) /\ Evaluation \X Snap \subseteq Stage \X Snap
        BY DEF IInv, DecisionInv, Evaluation, Stage
      <3>2. \A k \in Snap : <<"selection", k>> \in Evaluation \X Snap
        BY DEF Evaluation
      <3> QED
        BY <1>4, <2>1, <3>1, <3>2
    <2> QED
      BY <2>1, <2>2, SameSelection
  <1>7. decision["agentloopgate"] # "none" =>
            Decide(batch', selection.governed) = Decide(batch, selection.governed)
    <2> SUFFICES ASSUME decision["agentloopgate"] # "none"
                 PROVE  Decide(batch', selection.governed) = Decide(batch, selection.governed)
      OBVIOUS
    <2>1. PICK b, c, k : b = batch' /\ c = batch /\ k = selection.governed
      OBVIOUS
    <2>2. CompleteOn(Shipped) /\ Shipped \subseteq Stage \X Snap
      BY DEF IInv, DecisionInv, Shipped, Stage
    <2>3. k \in Snap /\ 0 \in Snap
      <3>1. Selected
        BY DEF IInv, ChoiceInv, MayRelease
      <3> QED
        BY <2>1, <3>1, SelectionUsable DEF Snap
    <2>4. \A s \in Release : <<s, 0>> \in Shipped /\ <<s, k>> \in Shipped
      BY <2>1, <2>3 DEF Shipped
    <2>5. \A s \in Release : b[<<s, 0>>] = c[<<s, 0>>] /\ b[<<s, k>>] = c[<<s, k>>]
      BY <1>4, <2>1, <2>2, <2>4
    <2> QED
      BY <2>1, <2>5, SameDecision
  <1> QED
    BY <1>2, <1>3, <1>5, <1>6, <1>7 DEF IInv, ChoiceInv

(* The selection says what its batches say (_select).                      *)
LEMMA SelectChoice ==
    ASSUME IInv, Select
    PROVE  IInv'
  <1>1. DecisionInv' /\ UNCHANGED <<habit, batch, decision>>
    BY SelectKeeps DEF IInv, Select
  <1>2. decision["agentloopgate"] = "none"
    BY DEF IInv, DecisionInv, Select
  <1>3. selection' = [native |-> NativeWinner, governed |-> GovernedWinner(batch)]
    BY DEF Select
  <1> QED
    BY <1>1, <1>2, <1>3 DEF IInv, RunInv, ChoiceInv

(* The decision says what its batches say (_decide_selected).              *)
LEMMA DecideChoice ==
    ASSUME IInv, DecideRoles
    PROVE  IInv'
  <1>1. DecisionInv' /\ UNCHANGED <<habit, batch, selection>>
    BY DecideKeeps DEF IInv, DecideRoles
  <1>2. /\ MayRelease
        /\ decision'["agentloopgate"] = Decide(batch, selection.governed)
    BY DEF DecideRoles
  <1> QED
    BY <1>1, <1>2 DEF IInv, RunInv, ChoiceInv, Selected, MayRelease

(* What is selected and decided is what the sealed batches say, for any    *)
(* pools, habits and surprises.                                            *)
LEMMA ChoiceInvariance == Spec => []IInv
  <1>1. ASSUME IInv, [Next]_vars PROVE IInv'
    <2>1. CASE AssignRoles \/ UNCHANGED vars
      <3>1. UNCHANGED <<habit, batch, selection, decision>>
        BY <2>1 DEF AssignRoles, vars
      <3>2. DecisionInv'
        BY <1>1, <3>1 DEF IInv, DecisionInv, BatchInv, CompleteOn, Selected, Shipped
      <3>3. RunInv'
        BY <1>1, <3>1 DEF IInv, RunInv
      <3>4. ChoiceInv'
        BY <1>1, <3>1 DEF IInv, ChoiceInv, Selected, MayRelease
      <3> QED
        BY <3>2, <3>3, <3>4 DEF IInv
    <2> QED
      BY <1>1, <2>1, RunChoice, SelectChoice, DecideChoice DEF Next
  <1> QED
    BY InitChoice, <1>1, PTL DEF Spec

(* No other eligible candidate is as good in every respect the selection   *)
(* looks at and better in one (_select_with_baseline): the governed one    *)
(* comes first, so where their keys differ first it is smaller.            *)
THEOREM SelectedStaysUndominated == Spec => []SelectedIsUndominated
  <1>1. ASSUME IInv, MayRelease
        PROVE  LET of == [k \in Snap |-> Measures(batch[<<"selection", k>>])]
                   mine == Worse(of[selection.governed])
               IN \A k \in Candidate :
                     Eligible(of[k], of[0]) =>
                         LET other == Worse(of[k]) IN
                         (\A i \in DOMAIN mine : other[i] <= mine[i]) => other = mine
    <2> DEFINE of == [k \in Snap |-> Measures(batch[<<"selection", k>>])]
               w == selection.governed
    <2>1. Selected /\ w # 0
      BY <1>1 DEF MayRelease
    <2>2. Usable(batch) /\ 0 \in Snap /\ w \in EligibleIn(batch) /\ w = GovernedWinner(batch)
      BY <1>1, <2>1, SelectionUsable DEF IInv, ChoiceInv
    <2>3. \A k \in Candidate : k \in Snap
      BY CountAssumption DEF Candidate, Snap
    <2>4. \A k \in Snap : of[k] = Of(batch, k)
      BY DEF Of
    <2> HIDE DEF of, w
    <2> SUFFICES ASSUME NEW k \in Candidate, Eligible(of[k], of[0]),
                        \A i \in DOMAIN Worse(of[w]) : Worse(of[k])[i] <= Worse(of[w])[i]
                 PROVE  Worse(of[k]) = Worse(of[w])
      BY DEF of, w
    <2>5. k \in EligibleIn(batch) /\ w \in Candidate
      BY <2>2, <2>3, <2>4 DEF EligibleIn
    <2> DEFINE x == KeyIn(batch, w)
               y == KeyIn(batch, k)
               f == of[w]
               g == of[k]
    <2>6. Comparable(x, 9) /\ Comparable(y, 9)
      <3>1. PICK b : b = batch
        OBVIOUS
      <3>2. \A j \in Candidate : Comparable(KeyIn(b, j), 9)
        BY <2>2, <3>1, KeysCompare
      <3> QED
        BY <2>5, <3>1, <3>2
    <2>7. x = Key(w, f) /\ y = Key(k, g)
      BY <2>3, <2>4, <2>5 DEF KeyIn
    <2>8. k # w => Before(x, y)
      <3>1. PICK b : b = batch
        OBVIOUS
      <3>2. \A j \in EligibleIn(b) : j # GovernedWinner(b) =>
                Before(KeyIn(b, GovernedWinner(b)), KeyIn(b, j))
        BY <2>2, <3>1, WinnerIsFirst
      <3> QED
        BY <2>2, <2>5, <3>1, <3>2
    <2> HIDE DEF f, g
    <2>9. /\ Worse(f) = <<x[1], x[2], x[3], x[4], x[5], x[6], x[7], x[8]>>
          /\ Worse(g) = <<y[1], y[2], y[3], y[4], y[5], y[6], y[7], y[8]>>
      BY <2>7 DEF Key, Worse
    <2> HIDE DEF x, y
    <2>10. \A i \in 1..8 : y[i] <= x[i]
      <3>1. DOMAIN Worse(f) = 1..8 /\ \A i \in 1..8 : Worse(g)[i] <= Worse(f)[i]
        <4>1. DOMAIN Worse(f) = 1..8
          BY <2>9
        <4> QED
          BY <4>1 DEF f, g
      <3>2. \A i \in {1, 2, 3, 4, 5, 6, 7, 8} : Worse(g)[i] = y[i] /\ Worse(f)[i] = x[i]
        BY <2>9
      <3>3. 1..8 = {1, 2, 3, 4, 5, 6, 7, 8}
        OBVIOUS
      <3> QED
        BY <3>1, <3>2, <3>3
    <2>11. CASE k = w
      BY <2>11
    <2>12. CASE k # w
      <3>1. PICK i \in 1..9 : x[i] < y[i] /\ \A j \in 1..i - 1 : x[j] = y[j]
        BY <2>6, <2>8, <2>12 DEF Before, Comparable
      <3>2. i = 9
        <4>1. x[i] \in Int /\ y[i] \in Int
          BY <2>6 DEF Comparable
        <4> QED
          BY <2>10, <3>1, <4>1
      <3>3. \A j \in 1..8 : x[j] = y[j]
        BY <3>1, <3>2
      <3>4. /\ x[1] = y[1] /\ x[2] = y[2] /\ x[3] = y[3] /\ x[4] = y[4]
            /\ x[5] = y[5] /\ x[6] = y[6] /\ x[7] = y[7] /\ x[8] = y[8]
        BY <3>3
      <3> QED
        BY <2>9, <3>4 DEF f, g
    <2> QED
      BY <2>11, <2>12
  <1>2. ASSUME IInv PROVE SelectedIsUndominated
    BY <1>1, <1>2 DEF SelectedIsUndominated
  <1> QED
    BY ChoiceInvariance, <1>2, PTL

-----------------------------------------------------------------------------
(* One run that went better. *)

\* batch b with its run p gone well
Improved(b, p) == [b EXCEPT ![p].success = TRUE]

(* Only what the run achieved is different: it costs what it cost, takes   *)
(* as long and is scored as before (EvaluationAuditor.summarize).          *)
LEMMA ImprovedRun ==
    ASSUME NEW s \in Stage, NEW b \in [Pairs(s) -> RunType], NEW p \in Pairs(s)
    PROVE  /\ Improved(b, p) \in [Pairs(s) -> RunType] /\ DOMAIN Improved(b, p) = DOMAIN b
           /\ Scored(Improved(b, p)) = Scored(b)
           /\ Stable(s, b) \subseteq Stable(s, Improved(b, p))
           /\ \A t : Successes(Improved(b, p), t) = 0 => Successes(b, t) = 0
           /\ \A q \in DOMAIN b :
                 /\ Improved(b, p)[q].cost = b[q].cost
                 /\ Improved(b, p)[q].latency = b[q].latency
                 /\ Improved(b, p)[q].retries = b[q].retries
                 /\ Improved(b, p)[q].timeouts = b[q].timeouts
  <1> DEFINE d == Improved(b, p)
  <1>1. DOMAIN d = Pairs(s) /\ DOMAIN b = Pairs(s)
    BY DEF Improved
  <1>2. ASSUME NEW q \in Pairs(s)
        PROVE  /\ d[q] \in RunType /\ d[q].valid = b[q].valid /\ d[q].cost = b[q].cost
               /\ d[q].latency = b[q].latency /\ d[q].retries = b[q].retries
               /\ d[q].timeouts = b[q].timeouts /\ (b[q].success => d[q].success)
    <2>1. b[q] \in RunType
      OBVIOUS
    <2>2. d[q] = IF q = p THEN [b[q] EXCEPT !.success = TRUE] ELSE b[q]
      BY DEF Improved
    <2> QED
      BY <2>1, <2>2 DEF RunType
  <1>3. d = [q \in Pairs(s) |-> d[q]]
    BY DEF Improved
  <1> HIDE DEF d
  <1>4. d \in [Pairs(s) -> RunType]
    BY <1>2, <1>3
  <1>5. Scored(d) = Scored(b)
    BY <1>1, <1>2 DEF Scored
  <1>6. Stable(s, b) \subseteq Stable(s, d)
    BY <1>1, <1>2, <1>5 DEF Stable, Scored
  <1>7. ASSUME NEW t, Successes(d, t) = 0 PROVE Successes(b, t) = 0
    <2> DEFINE A == {q \in Scored(d) : q[1] = t /\ d[q].success}
               B == {q \in Scored(b) : q[1] = t /\ b[q].success}
    <2>1. A \in SUBSET Pairs(s) /\ B \subseteq A
      BY <1>1, <1>2, <1>5 DEF Scored
    <2>2. IsFiniteSet(A)
      BY <2>1, PairsFinite, FS_Subset
    <2>3. Cardinality(A) = 0
      BY <1>7 DEF Successes
    <2>4. A = {}
      BY <2>2, <2>3, FS_EmptySet
    <2>5. B = {}
      BY <2>1, <2>4
    <2> QED
      BY <2>5, FS_EmptySet DEF Successes
  <1> QED
    BY <1>1, <1>2, <1>4, <1>5, <1>6, <1>7 DEF d

(* So of what the selection looks at only the stable tasks may be more.    *)
LEMMA ImprovedMeasures ==
    ASSUME NEW b \in [Pairs("selection") -> RunType], NEW p \in Pairs("selection")
    PROVE  LET e == Measures(b)
               f == Measures(Improved(b, p))
           IN /\ e.stable \subseteq f.stable
              /\ f.retries = e.retries /\ f.timeouts = e.timeouts /\ f.whole = e.whole
              /\ f.cost = e.cost /\ f.p50 = e.p50 /\ f.p95 = e.p95 /\ f.max = e.max
  <1> DEFINE d == Improved(b, p)
             P == DOMAIN b
             V == Scored(b)
  <1>1. /\ DOMAIN d = P /\ Scored(d) = V /\ Stable("selection", b) \subseteq Stable("selection", d)
        /\ \A q \in P : /\ d[q].cost = b[q].cost /\ d[q].latency = b[q].latency
                        /\ d[q].retries = b[q].retries /\ d[q].timeouts = b[q].timeouts
    BY ImprovedRun DEF Stage
  <1>2. V \subseteq P
    BY DEF Scored
  <1> HIDE DEF d, P, V
  <1>3. /\ [q \in P |-> d[q].retries] = [q \in P |-> b[q].retries]
        /\ [q \in P |-> d[q].timeouts] = [q \in P |-> b[q].timeouts]
        /\ [q \in P |-> (1 + d[q].retries) * d[q].cost] = [q \in P |-> (1 + b[q].retries) * b[q].cost]
        /\ [q \in V |-> d[q].cost] = [q \in V |-> b[q].cost]
    BY <1>1, <1>2
  <1>4. Latencies(d, P) = Latencies(b, P) /\ Latencies(d, V) = Latencies(b, V)
    BY <1>1, <1>2 DEF Latencies
  <1>5. /\ Measures(d).retries = SumFunctionOnSet([q \in P |-> d[q].retries], P)
        /\ Measures(d).timeouts = SumFunctionOnSet([q \in P |-> d[q].timeouts], P)
        /\ Measures(d).whole = SumFunctionOnSet([q \in P |-> (1 + d[q].retries) * d[q].cost], P)
        /\ Measures(d).cost = SumFunctionOnSet([q \in V |-> d[q].cost], V)
        /\ Measures(d).p50 = Median2(Latencies(d, V))
        /\ Measures(d).p95 = NearestRank(Latencies(d, P), 95)
        /\ Measures(d).max = Ascending(Latencies(d, P), Cardinality(P))
        /\ Measures(d).stable = Stable("selection", d)
    BY <1>1 DEF Measures, Sum
  <1>6. /\ Measures(b).retries = SumFunctionOnSet([q \in P |-> b[q].retries], P)
        /\ Measures(b).timeouts = SumFunctionOnSet([q \in P |-> b[q].timeouts], P)
        /\ Measures(b).whole = SumFunctionOnSet([q \in P |-> (1 + b[q].retries) * b[q].cost], P)
        /\ Measures(b).cost = SumFunctionOnSet([q \in V |-> b[q].cost], V)
        /\ Measures(b).p50 = Median2(Latencies(b, V))
        /\ Measures(b).p95 = NearestRank(Latencies(b, P), 95)
        /\ Measures(b).max = Ascending(Latencies(b, P), Cardinality(P))
        /\ Measures(b).stable = Stable("selection", b)
    BY DEF Measures, Sum, P, V
  <1> QED
    BY <1>1, <1>3, <1>4, <1>5, <1>6 DEF d

(* Whoever is selected is still selected when one of its runs went better. *)
LEMMA ImprovedSelection ==
    ASSUME NEW b, DOMAIN b = Stage \X Snap, Usable(b), NEW k, GovernedWinner(b) = k, k # 0,
           NEW p \in DOMAIN b[<<"selection", k>>]
    PROVE  GovernedWinner(Better(b, "selection", k, p)) = k
  <1> DEFINE c == Better(b, "selection", k, p)
             e == Of(b, k)
             f == Of(c, k)
  <1>1. /\ k \in EligibleIn(b) /\ k \in Candidate /\ k \in Snap /\ 0 \in Snap
        /\ \A j \in EligibleIn(b) : j # k => Before(KeyIn(b, k), KeyIn(b, j))
    BY WinnerIsFirst, CountAssumption DEF EligibleIn, Candidate, Snap
  <1>2. p \in Pairs("selection") /\ b[<<"selection", k>>] \in [Pairs("selection") -> RunType]
    BY <1>1 DEF Usable
  <1>3. /\ c[<<"selection", k>>] = Improved(b[<<"selection", k>>], p)
        /\ \A j \in Snap : j # k => c[<<"selection", j>>] = b[<<"selection", j>>]
    <2>1. \A j \in Snap : <<"selection", j>> \in DOMAIN b
      BY DEF Stage
    <2> QED
      BY <1>1, <2>1 DEF Better, Improved
  <1> HIDE DEF c
  <1>4. Usable(c)
    <2>1. PICK r : r = b[<<"selection", k>>]
      OBVIOUS
    <2>2. r \in [Pairs("selection") -> RunType] /\ Scored(r) = Pairs("selection")
      BY <1>1, <2>1 DEF Usable
    <2>3. /\ Improved(r, p) \in [Pairs("selection") -> RunType]
          /\ Scored(Improved(r, p)) = Pairs("selection")
      BY <1>2, <2>2, ImprovedRun DEF Stage
    <2> QED
      BY <1>3, <2>1, <2>3 DEF Usable
  <1>5. /\ e.stable \subseteq f.stable
        /\ f.retries = e.retries /\ f.timeouts = e.timeouts /\ f.whole = e.whole
        /\ f.cost = e.cost /\ f.p50 = e.p50 /\ f.p95 = e.p95 /\ f.max = e.max
    <2>1. PICK r : r = b[<<"selection", k>>]
      OBVIOUS
    <2>2. /\ Measures(r).stable \subseteq Measures(Improved(r, p)).stable
          /\ Measures(Improved(r, p)).retries = Measures(r).retries
          /\ Measures(Improved(r, p)).timeouts = Measures(r).timeouts
          /\ Measures(Improved(r, p)).whole = Measures(r).whole
          /\ Measures(Improved(r, p)).cost = Measures(r).cost
          /\ Measures(Improved(r, p)).p50 = Measures(r).p50
          /\ Measures(Improved(r, p)).p95 = Measures(r).p95
          /\ Measures(Improved(r, p)).max = Measures(r).max
      BY <1>2, <2>1, ImprovedMeasures
    <2> QED
      BY <1>3, <2>1, <2>2 DEF Of
  <1>6. \A j \in Snap : j # k => Of(c, j) = Of(b, j)
    BY <1>3 DEF Of
  <1>7. Of(c, 0) = Of(b, 0)
    BY <1>1, <1>6
  <1>8. ASSUME NEW j \in Snap
        PROVE  /\ IsFiniteSet(Of(b, j).stable) /\ Cardinality(Of(b, j).stable) \in Nat
               /\ IsFiniteSet(Of(c, j).stable) /\ Cardinality(Of(c, j).stable) \in Nat
    <2>1. ASSUME NEW r \in [Pairs("selection") -> RunType], Scored(r) = Pairs("selection")
          PROVE  IsFiniteSet(Measures(r).stable) /\ Cardinality(Measures(r).stable) \in Nat
      <3>1. IsFiniteSet(TasksOf["selection"])
        BY PairsFinite DEF Stage
      <3>2. Measures(r).stable \in SUBSET TasksOf["selection"]
        BY <2>1, Measured
      <3> QED
        BY <3>1, <3>2, FS_Subset, FS_CardinalityType
    <2> QED
      BY <1>4, <2>1 DEF Usable, Of
  <1>9. Cardinality(e.stable) <= Cardinality(f.stable)
    BY <1>1, <1>5, <1>8, FS_Subset
  <1> HIDE DEF e, f
  <1>10. k \in EligibleIn(c)
    <2>1. Eligible(e, Of(b, 0))
      BY <1>1 DEF EligibleIn, e
    <2>2. Eligible(f, Of(b, 0))
      <3>1. Regressed(f, Of(b, 0)) = {}
        BY <1>5, <2>1 DEF Eligible, Regressed
      <3>2. Cardinality(f.stable) > Cardinality(Of(b, 0).stable)
        <4>1. /\ Cardinality(e.stable) \in Nat /\ Cardinality(f.stable) \in Nat
              /\ Cardinality(Of(b, 0).stable) \in Nat
          BY <1>1, <1>8 DEF e, f
        <4> QED
          BY <1>9, <2>1, <4>1 DEF Eligible
      <3> QED
        BY <1>5, <2>1, <3>1, <3>2 DEF Eligible
    <2> QED
      BY <1>1, <1>7, <2>2 DEF EligibleIn, f
  <1>11. ASSUME NEW j \in EligibleIn(c), j # k PROVE Before(KeyIn(c, k), KeyIn(c, j))
    <2>1. j \in EligibleIn(b) /\ j \in Snap
      BY <1>6, <1>7, <1>11, CountAssumption DEF EligibleIn, Candidate, Snap
    <2> DEFINE x == KeyIn(b, k)
               z == KeyIn(c, k)
               y == KeyIn(b, j)
    <2>2. KeyIn(c, j) = y
      BY <1>6, <1>11, <2>1 DEF KeyIn
    <2>3. Before(x, y)
      BY <1>1, <1>11, <2>1
    <2>4. x = Key(k, e) /\ z = Key(k, f)
      BY DEF KeyIn, e, f
    <2>5. Comparable(x, 9) /\ Comparable(y, 9) /\ Comparable(z, 9)
      BY <1>1, <1>4, <2>1, KeysCompare DEF EligibleIn
    <2>6. /\ x[1] = -Cardinality(e.stable) /\ z[1] = -Cardinality(f.stable)
          /\ x[2] = z[2] /\ x[3] = z[3] /\ x[4] = z[4] /\ x[5] = z[5]
          /\ x[6] = z[6] /\ x[7] = z[7] /\ x[8] = z[8] /\ x[9] = z[9]
      <3> HIDE DEF x, z
      <3> QED
        BY <1>5, <2>4 DEF Key
    <2> HIDE DEF x, y, z
    <2>7. z[1] <= x[1]
      <3>1. Cardinality(e.stable) \in Nat /\ Cardinality(f.stable) \in Nat
        BY <1>1, <1>8 DEF e, f
      <3> QED
        BY <1>9, <2>6, <3>1
    <2>8. Before(z, y)
      <3>1. PICK i \in 1..9 : x[i] < y[i] /\ \A h \in 1..i - 1 : x[h] = y[h]
        BY <2>3, <2>5 DEF Before, Comparable
      <3>2. 1 \in 1..9 /\ x[1] \in Int /\ y[1] \in Int /\ z[1] \in Int /\ DOMAIN z = 1..9
        BY <2>5 DEF Comparable
      <3>3. CASE z[1] < x[1]
        <4>1. x[1] <= y[1]
          BY <3>1, <3>2
        <4>2. z[1] < y[1]
          BY <3>2, <3>3, <4>1
        <4> QED
          BY <3>2, <4>2 DEF Before
      <3>4. CASE z[1] = x[1]
        <4>1. \A h \in 1..9 : z[h] = x[h]
          <5>1. \A h \in {1, 2, 3, 4, 5, 6, 7, 8, 9} : z[h] = x[h]
            BY <2>6, <3>4
          <5> QED
            BY <5>1
        <4> QED
          BY <3>1, <3>2, <4>1 DEF Before
      <3> QED
        BY <2>7, <3>2, <3>3, <3>4
    <2> QED
      BY <2>2, <2>8 DEF z
  <1>12. GovernedWinner(c) = k
    BY <1>4, <1>10, <1>11, FirstIsWinner
  <1> QED
    BY <1>12 DEF c

(* Whoever is shipped is still shipped when one of its runs went better:   *)
(* no gate that passed fails (GateEngine._evaluate).                       *)
LEMMA ImprovedDecision ==
    ASSUME NEW b, DOMAIN b = Stage \X Snap, NEW k \in Snap, k # 0,
           \A r \in Release, i \in {0, k} : b[<<r, i>>] \in [Pairs(r) -> RunType],
           Decide(b, k) = "ship", NEW s \in Release, NEW p \in DOMAIN b[<<s, k>>]
    PROVE  Decide(Better(b, s, k, p), k) = "ship"
  <1> DEFINE c == Better(b, s, k, p)
             a == b[<<s, k>>]
             d == Improved(a, p)
  <1>1. 0 \in Snap /\ Release \subseteq Stage
    BY CountAssumption DEF Snap, Stage
  <1>2. a \in [Pairs(s) -> RunType] /\ p \in Pairs(s)
    <2>1. a \in [Pairs(s) -> RunType]
      OBVIOUS
    <2> QED
      BY <2>1
  <1>3. /\ c[<<s, k>>] = d
        /\ \A r \in Release : r # s => c[<<r, k>>] = b[<<r, k>>]
        /\ \A r \in Release : c[<<r, 0>>] = b[<<r, 0>>]
    <2>1. \A r \in Release : <<r, k>> \in DOMAIN b /\ <<r, 0>> \in DOMAIN b
      BY <1>1
    <2> QED
      BY <2>1 DEF Better, Improved
  <1> HIDE DEF c, a, d
  <1>4. /\ d \in [Pairs(s) -> RunType] /\ DOMAIN d = DOMAIN a /\ Scored(d) = Scored(a)
        /\ Stable(s, a) \subseteq Stable(s, d)
        /\ \A t : Successes(d, t) = 0 => Successes(a, t) = 0
        /\ \A q \in DOMAIN a : d[q].cost = a[q].cost /\ d[q].latency = a[q].latency
    BY <1>1, <1>2, ImprovedRun DEF d
  <1>5. ASSUME NEW r \in Release, NEW i \in {0, k}, Complete(r, b[<<r, i>>])
        PROVE  Complete(r, c[<<r, i>>])
    <2>1. CASE r = s /\ i = k
      <3>1. d # NoBatch
        BY <1>1, <1>4, NoBatchAssumption
      <3> QED
        BY <1>3, <1>4, <1>5, <2>1, <3>1 DEF Complete, a
    <2>2. CASE ~ (r = s /\ i = k)
      <3>1. c[<<r, i>>] = b[<<r, i>>]
        BY <1>3, <2>2
      <3> QED
        BY <1>5, <3>1
    <2> QED
      BY <2>1, <2>2
  <1>6. ASSUME NEW r \in Release
        PROVE  /\ Stable(r, b[<<r, k>>]) \subseteq Stable(r, c[<<r, k>>])
               /\ \A t : Successes(c[<<r, k>>], t) = 0 => Successes(b[<<r, k>>], t) = 0
    <2>1. CASE r = s
      BY <1>3, <1>4, <2>1 DEF a
    <2>2. CASE r # s
      BY <1>3, <2>2
    <2> QED
      BY <2>1, <2>2
  <1>7. ASSUME NEW r \in Release
        PROVE  Net(b, k, r) \in Int /\ Net(c, k, r) \in Int /\ Net(b, k, r) <= Net(c, k, r)
    <2> DEFINE B == Stable(r, b[<<r, k>>])
               C == Stable(r, c[<<r, k>>])
               Z == Stable(r, b[<<r, 0>>])
    <2>1. IsFiniteSet(TasksOf[r])
      BY <1>1, PairsFinite
    <2>2. B \in SUBSET TasksOf[r] /\ C \in SUBSET TasksOf[r] /\ Z \in SUBSET TasksOf[r] /\ B \subseteq C
      BY <1>6 DEF Stable
    <2>3. /\ Net(b, k, r) = Cardinality(B) - Cardinality(Z)
          /\ Net(c, k, r) = Cardinality(C) - Cardinality(Z)
      BY <1>3 DEF Net
    <2> HIDE DEF B, C, Z
    <2>4. /\ Cardinality(B) \in Nat /\ Cardinality(C) \in Nat /\ Cardinality(Z) \in Nat
          /\ Cardinality(B) <= Cardinality(C)
      BY <2>1, <2>2, FS_Subset, FS_CardinalityType
    <2> QED
      BY <2>3, <2>4
  <1>8. Catastrophic(c, k) \subseteq Catastrophic(b, k)
    <2> SUFFICES ASSUME NEW e \in Catastrophic(c, k) PROVE e \in Catastrophic(b, k)
      OBVIOUS
    <2>1. PICK r \in Release : e \in {r} \X TasksOf[r]
      BY DEF Catastrophic
    <2>2. /\ e[1] = r /\ e[2] \in Stable(r, c[<<r, 0>>]) /\ Successes(c[<<r, k>>], e[2]) = 0
      BY <2>1 DEF Catastrophic
    <2>3. e[2] \in Stable(r, b[<<r, 0>>]) /\ Successes(b[<<r, k>>], e[2]) = 0
      BY <1>3, <1>6, <2>2
    <2>4. e \in UNION {{q} \X TasksOf[q] : q \in Release}
      BY <2>1
    <2> QED
      BY <2>2, <2>3, <2>4 DEF Catastrophic
  <1>9. ASSUME NEW i \in {0, k}
        PROVE  CostOf(c, i) = CostOf(b, i) /\ LatencyOf(c, i) = LatencyOf(b, i)
    <2>1. ASSUME NEW r \in Release
          PROVE  /\ Scored(c[<<r, i>>]) = Scored(b[<<r, i>>])
                 /\ DOMAIN c[<<r, i>>] = DOMAIN b[<<r, i>>]
                 /\ \A q \in DOMAIN b[<<r, i>>] : /\ c[<<r, i>>][q].cost = b[<<r, i>>][q].cost
                                                /\ c[<<r, i>>][q].latency = b[<<r, i>>][q].latency
      <3>1. CASE r = s /\ i = k
        BY <1>3, <1>4, <3>1 DEF a
      <3>2. CASE ~ (r = s /\ i = k)
        <4>1. c[<<r, i>>] = b[<<r, i>>]
          BY <1>3, <3>2
        <4> QED
          BY <4>1
      <3> QED
        BY <3>1, <3>2
    <2>2. CostOf(c, i) = CostOf(b, i)
      <3>1. \A r \in Release :
                SumFunctionOnSet([q \in Scored(c[<<r, i>>]) |-> c[<<r, i>>][q].cost],
                    Scored(c[<<r, i>>])) =
                SumFunctionOnSet([q \in Scored(b[<<r, i>>]) |-> b[<<r, i>>][q].cost],
                    Scored(b[<<r, i>>]))
        <4> TAKE r \in Release
        <4>1. [q \in Scored(c[<<r, i>>]) |-> c[<<r, i>>][q].cost] =
              [q \in Scored(b[<<r, i>>]) |-> b[<<r, i>>][q].cost]
          BY <2>1 DEF Scored
        <4> QED
          BY <2>1, <4>1
      <3> DEFINE u == [r \in Release |-> Sum(c[<<r, i>>], Scored(c[<<r, i>>]), LAMBDA x : x.cost)]
                 v == [r \in Release |-> Sum(b[<<r, i>>], Scored(b[<<r, i>>]), LAMBDA x : x.cost)]
      <3>2. u = v
        BY <3>1 DEF Sum
      <3>3. CostOf(c, i) = SumFunctionOnSet(u, Release) /\ CostOf(b, i) = SumFunctionOnSet(v, Release)
        BY DEF CostOf
      <3> HIDE DEF u, v
      <3> QED
        BY <3>2, <3>3
    <2>3. LatencyOf(c, i) = LatencyOf(b, i)
      <3> DEFINE A(x) == UNION {{r} \X DOMAIN x[<<r, i>>] : r \in Release}
      <3>1. A(c) = A(b)
        <4>1. {{r} \X DOMAIN c[<<r, i>>] : r \in Release} = {{r} \X DOMAIN b[<<r, i>>] : r \in Release}
          BY <2>1
        <4> QED
          BY <4>1
      <3>2. \A e \in A(b) : e[1] \in Release /\ e[2] \in DOMAIN b[<<e[1], i>>]
        <4> TAKE e \in A(b)
        <4>1. PICK r \in Release : e \in {r} \X DOMAIN b[<<r, i>>]
          OBVIOUS
        <4> QED
          BY <4>1
      <3> HIDE DEF A
      <3>3. [e \in A(c) |-> c[<<e[1], i>>][e[2]].latency] =
               [e \in A(b) |-> b[<<e[1], i>>][e[2]].latency]
        BY <2>1, <3>1, <3>2
      <3> QED
        BY <3>3 DEF LatencyOf, A
    <2> QED
      BY <2>2, <2>3
  <1> DEFINE Gates == {"evaluation_integrity", "leakage", "critical_violation", "id_effect",
                       "ood_noninferiority", "replay", "reliability", "cost", "latency"}
  <1>10. ASSUME NEW gate \in Gates, Passes(gate, b, k) PROVE Passes(gate, c, k)
    <2>1. CASE gate \in {"evaluation_integrity", "reliability"}
      <3>1. \A r \in Release, i \in {0, k} : Complete(r, b[<<r, i>>])
        BY <1>10, <2>1 DEF Passes
      <3>2. \A r \in Release, i \in {0, k} : Complete(r, c[<<r, i>>])
        BY <1>5, <3>1
      <3> QED
        BY <2>1, <3>2 DEF Passes
    <2>2. CASE gate \in {"leakage", "critical_violation"}
      BY <2>2 DEF Passes, LeakageHits, CriticalViolations
    <2>3. CASE gate \in {"id_effect", "ood_noninferiority", "replay"}
      <3>1. Limit.id \in Int /\ Limit.ood \in Int /\ Limit.replay \in Int
        BY LimitAssumption
      <3>2. \A r \in {"release_id", "release_ood", "replay"} :
                Net(b, k, r) \in Int /\ Net(c, k, r) \in Int /\ Net(b, k, r) <= Net(c, k, r)
        BY <1>7 DEF Release
      <3>3. CASE gate = "id_effect"
        <4>1. Net(b, k, "release_id") >= Limit.id
          BY <1>10, <3>3 DEF Passes
        <4>2. Net(c, k, "release_id") >= Limit.id
          BY <3>1, <3>2, <4>1
        <4> QED
          BY <3>3, <4>2 DEF Passes
      <3>4. CASE gate = "ood_noninferiority"
        <4>1. Net(b, k, "release_ood") >= Limit.ood
          BY <1>10, <3>4 DEF Passes
        <4>2. Net(c, k, "release_ood") >= Limit.ood
          BY <3>1, <3>2, <4>1
        <4> QED
          BY <3>4, <4>2 DEF Passes
      <3>5. CASE gate = "replay"
        <4>1. Net(b, k, "replay") >= Limit.replay /\ Catastrophic(b, k) = {}
          BY <1>10, <3>5 DEF Passes
        <4>2. Net(c, k, "replay") >= Limit.replay /\ Catastrophic(c, k) = {}
          BY <1>8, <3>1, <3>2, <4>1
        <4> QED
          BY <3>5, <4>2 DEF Passes
      <3> QED
        BY <2>3, <3>3, <3>4, <3>5
    <2>4. CASE gate \in {"cost", "latency"}
      <3>1. /\ CostOf(c, 0) = CostOf(b, 0) /\ CostOf(c, k) = CostOf(b, k)
            /\ LatencyOf(c, 0) = LatencyOf(b, 0) /\ LatencyOf(c, k) = LatencyOf(b, k)
        BY <1>9
      <3> QED
        BY <1>10, <2>4, <3>1 DEF Passes
    <2> QED
      BY <2>1, <2>2, <2>3, <2>4
  <1>11. \A i \in DOMAIN DecisionOrder : DecisionOrder[i] \in Gates
    BY DEF DecisionOrder
  <1>12. \A i \in DOMAIN DecisionOrder : Passes(DecisionOrder[i], b, k)
    BY DEF Decide
  <1>13. \A i \in DOMAIN DecisionOrder : Passes(DecisionOrder[i], c, k)
    BY <1>10, <1>11, <1>12
  <1>14. Decide(c, k) = "ship"
    BY <1>13 DEF Decide
  <1> QED
    BY <1>14 DEF c

(* No candidate is worse off for one run that went better: what was        *)
(* selected would still be selected, and what is shipped would still be    *)
(* shipped (_select_with_baseline, GateEngine.decide).                     *)
THEOREM BetterRunNeverHurt == Spec => []BetterRunNeverHurts
  <1>1. ASSUME IInv, MayRelease, NEW p \in DOMAIN batch[<<"selection", selection.governed>>]
        PROVE  GovernedWinner(Better(batch, "selection", selection.governed, p)) = selection.governed
    <2>1. Selected /\ selection.governed # 0
      BY <1>1 DEF MayRelease
    <2>2. PICK b, k : b = batch /\ k = selection.governed
      OBVIOUS
    <2>3. /\ DOMAIN b = Stage \X Snap /\ Usable(b) /\ GovernedWinner(b) = k /\ k # 0
          /\ p \in DOMAIN b[<<"selection", k>>]
      BY <1>1, <2>1, <2>2, SelectionUsable DEF IInv, ChoiceInv, DecisionInv, BatchInv
    <2>4. GovernedWinner(Better(b, "selection", k, p)) = k
      BY <2>3, ImprovedSelection
    <2> QED
      BY <2>2, <2>4
  <1>2. ASSUME IInv, decision["agentloopgate"] = "ship", NEW s \in Release,
               NEW p \in DOMAIN batch[<<s, selection.governed>>]
        PROVE  Decide(Better(batch, s, selection.governed, p), selection.governed) = "ship"
    <2>1. MayRelease /\ Selected /\ Decide(batch, selection.governed) = "ship" /\ CompleteOn(Shipped)
      BY <1>2 DEF IInv, ChoiceInv, DecisionInv, MayRelease
    <2>2. PICK b, k : b = batch /\ k = selection.governed
      OBVIOUS
    <2>3. k \in Snap /\ 0 \in Snap /\ k # 0
      BY <1>2, <2>1, <2>2, SelectionUsable DEF Snap, MayRelease
    <2>4. ASSUME NEW r \in Release, NEW i \in {0, k}
          PROVE  b[<<r, i>>] \in [Pairs(r) -> RunType]
      <3>1. <<r, i>> \in Shipped /\ <<r, i>> \in Stage \X Snap
        BY <2>2, <2>3 DEF Shipped, Stage
      <3>2. batch[<<r, i>>] # NoBatch
        BY <2>1, <3>1 DEF CompleteOn, Complete
      <3> QED
        BY <1>2, <2>2, <3>1, <3>2 DEF IInv, RunInv
    <2>5. DOMAIN b = Stage \X Snap /\ Decide(b, k) = "ship" /\ p \in DOMAIN b[<<s, k>>]
      BY <1>2, <2>1, <2>2 DEF IInv, DecisionInv, BatchInv
    <2>6. Decide(Better(b, s, k, p), k) = "ship"
      BY <2>3, <2>4, <2>5, ImprovedDecision
    <2> QED
      BY <2>2, <2>6
  <1>3. ASSUME IInv PROVE BetterRunNeverHurts
    BY <1>1, <1>2, <1>3 DEF BetterRunNeverHurts
  <1> QED
    BY ChoiceInvariance, <1>3, PTL

-----------------------------------------------------------------------------
(* How many runs are executed. *)

(* A sum in which the elements of A count n each and the others nothing.   *)
LEMMA SumOfEquals ==
    ASSUME NEW S, IsFiniteSet(S), NEW f, NEW A \in SUBSET S, NEW n \in Nat,
           \A x \in A : f[x] = n, \A x \in S \ A : f[x] = 0
    PROVE  Total(f, S) = Cardinality(A) * n
  <1> DEFINE G == {T \in SUBSET A : Total(f, T) = Cardinality(T) * n}
             Z == {T \in SUBSET (S \ A) : Total(f, T) = 0}
             B == S \ A
  <1>0. IsFiniteSet(A) /\ IsFiniteSet(B) /\ \A x \in S : f[x] \in Nat
    BY FS_Subset
  <1>1. {} \in G /\ {} \in Z
    <2>1. Total(f, {}) = 0 /\ Cardinality({}) = 0
      BY SumStep, FS_EmptySet
    <2> QED
      BY <2>1
  <1>2. ASSUME NEW T \in SUBSET A, T # {}, T \ {Pick(T)} \in G PROVE T \in G
    <2> DEFINE x == Pick(T)
               R == T \ {x}
    <2>1. /\ x \in A /\ R \in SUBSET A /\ Cardinality(R) \in Nat
          /\ Cardinality(T) = Cardinality(R) + 1
      BY <1>0, <1>2, Picking
    <2>2. Total(f, T) = f[x] + Total(f, R)
      BY <1>0, <1>2, SumStep, FS_Subset
    <2>3. Total(f, R) = Cardinality(R) * n /\ f[x] = n
      BY <1>2, <2>1
    <2> HIDE DEF x, R
    <2>4. (Cardinality(R) + 1) * n = n + Cardinality(R) * n
      BY <2>1
    <2> QED
      BY <2>1, <2>2, <2>3, <2>4
  <1>3. ASSUME NEW T \in SUBSET B, T # {}, T \ {Pick(T)} \in Z PROVE T \in Z
    <2> DEFINE x == Pick(T)
               R == T \ {x}
    <2>1. x \in B
      BY <1>0, <1>3, Picking
    <2>2. Total(f, T) = f[x] + Total(f, R)
      BY <1>0, <1>3, SumStep, FS_Subset
    <2>3. Total(f, R) = 0 /\ f[x] = 0
      BY <1>3, <2>1
    <2> QED
      BY <1>3, <2>2, <2>3
  <1> HIDE DEF G, Z, B
  <1>4. A \in G
    <2>1. \A T \in SUBSET A : T \in G
      BY <1>0, <1>1, <1>2, SubsetInduction
    <2> QED
      BY <2>1
  <1>5. B \in Z
    <2>1. \A T \in SUBSET B : T \in Z
      BY <1>0, <1>1, <1>3, SubsetInduction
    <2> QED
      BY <2>1
  <1>6. A \cap B = {} /\ A \cup B = S /\ B \in SUBSET S
    BY DEF B
  <1>7. Total(f, A \cup B) = Total(f, A) + Total(f, B)
    BY <1>0, <1>6, SumUnion
  <1>8. Cardinality(A) \in Nat
    BY <1>0, FS_CardinalityType
  <1>9. Total(f, A) = Cardinality(A) * n /\ Total(f, B) = 0
    BY <1>4, <1>5 DEF G, Z
  <1>10. Cardinality(A) * n \in Nat
    BY <1>8
  <1>11. PICK m : m = Cardinality(A) * n
    OBVIOUS
  <1>12. Total(f, S) = m + 0 /\ m \in Nat
    BY <1>6, <1>7, <1>9, <1>10, <1>11
  <1>13. Total(f, S) = m
    BY <1>12
  <1> QED
    BY <1>11, <1>13

(* Only the batch that comes next is run (_completed_stage).               *)
LEMMA RunNextOne ==
    ASSUME BatchInv, NEW schedule, RunNext(schedule)
    PROVE  /\ UNCHANGED <<selection, roles, decision>>
           /\ \E i \in DOMAIN schedule :
                 \A b \in Stage \X Snap :
                     b # <<schedule[i][1], schedule[i][2]>> => batch'[b] = batch[b]
  <1>1. UNCHANGED <<selection, roles, decision>>
    BY DEF RunNext
  <1>2. PICK i \in DOMAIN schedule :
            \E odd \in SUBSET Pairs(schedule[i][1]) :
                \E how \in [odd -> Surprises[schedule[i][1]]] :
                    batch' = [batch EXCEPT ![<<schedule[i][1], schedule[i][2]>>] =
                        [p \in Pairs(schedule[i][1]) |->
                            Run(habit[schedule[i][2]], IF p \in odd THEN how[p] ELSE "none")]]
    BY DEF RunNext
  <1>3. PICK f : batch' = [batch EXCEPT ![<<schedule[i][1], schedule[i][2]>>] = f]
    BY <1>2
  <1>4. \A b \in Stage \X Snap :
            b # <<schedule[i][1], schedule[i][2]>> => batch'[b] = batch[b]
    BY <1>3 DEF BatchInv
  <1> QED
    BY <1>1, <1>4

(* Evaluation batches are no release batches.                              *)
LEMMA EvaluationStages ==
    ASSUME NEW i \in DOMAIN EvaluationSchedule
    PROVE  EvaluationSchedule[i][1] \in Stage \ Release
  <1>1. EvaluationSchedule[i][1] \in {"update_check", "selection"}
    BY DEF EvaluationSchedule
  <1> QED
    BY <1>1 DEF Release, Stage

(* Release batches are those of the baseline and of the two selected.      *)
LEMMA ReleaseSnapshots ==
    ASSUME NEW i \in DOMAIN ReleaseSchedule
    PROVE  /\ ReleaseSchedule[i][1] \in Release
           /\ ReleaseSchedule[i][2] \in {0, selection.native, selection.governed}
  <1> DEFINE more == IF selection.governed = selection.native THEN <<>> ELSE <<selection.governed>>
             snapshots == <<0, selection.native>> \o more
             stages == <<"release_id", "release_ood", "replay">>
  <1>1. /\ Len(snapshots) \in {2, 3}
        /\ \A j \in 1..Len(snapshots) : snapshots[j] \in {0, selection.native, selection.governed}
    <2>1. CASE selection.governed = selection.native
      <3>1. snapshots = <<0, selection.native>>
        BY <2>1
      <3> HIDE DEF snapshots
      <3>2. Len(snapshots) = 2 /\ snapshots[1] = 0 /\ snapshots[2] = selection.native
        BY <3>1
      <3> QED
        BY <3>2
    <2>2. CASE selection.governed # selection.native
      <3>1. snapshots = <<0, selection.native>> \o <<selection.governed>>
        BY <2>2
      <3>2. PICK m, n : m = selection.native /\ n = selection.governed
        OBVIOUS
      <3> DEFINE t == <<0, m>>
                 u == <<n>>
      <3>3. /\ t \in Seq({0, m, n}) /\ u \in Seq({0, m, n}) /\ Len(t) = 2 /\ Len(u) = 1
            /\ t[1] = 0 /\ t[2] = m /\ u[1] = n
        OBVIOUS
      <3>4. /\ Len(t \o u) = 3 /\ (t \o u)[1] = 0 /\ (t \o u)[2] = m /\ (t \o u)[3] = n
        <4> HIDE DEF t, u
        <4>1. /\ Len(t \o u) = 2 + 1
              /\ \A j \in 1..2 + 1 : (t \o u)[j] = IF j <= 2 THEN t[j] ELSE u[j - 2]
          <5> DEFINE S == {0, m, n}
          <5>1. t \in Seq(S) /\ u \in Seq(S)
            BY <3>3
          <5> HIDE DEF S
          <5>2. /\ Len(t \o u) = Len(t) + Len(u)
                /\ \A j \in 1..Len(t) + Len(u) :
                      (t \o u)[j] = IF j <= Len(t) THEN t[j] ELSE u[j - Len(t)]
            BY ONLY <5>1, ConcatProperties
          <5> QED
            BY <3>3, <5>2
        <4> QED
          BY <3>3, <4>1
      <3> HIDE DEF snapshots
      <3>5. /\ Len(snapshots) = 3 /\ snapshots[1] = 0 /\ snapshots[2] = selection.native
            /\ snapshots[3] = selection.governed
        BY <3>1, <3>2, <3>4
      <3> QED
        BY <3>5
    <2> QED
      BY <2>1, <2>2
  <1>2. ReleaseSchedule =
            [j \in 1..3 * Len(snapshots) |->
                <<stages[((j - 1) % 3) + 1], snapshots[(j - 1) \div 3 + 1]>>]
    BY DEF ReleaseSchedule
  <1>3. stages[1] \in Release /\ stages[2] \in Release /\ stages[3] \in Release
    BY DEF Release
  <1> HIDE DEF snapshots, stages
  <1>4. /\ i \in 1..3 * Len(snapshots)
        /\ ReleaseSchedule[i][2] = snapshots[(i - 1) \div 3 + 1]
        /\ ReleaseSchedule[i][1] = stages[((i - 1) % 3) + 1]
    BY <1>2
  <1>5. (i - 1) \div 3 + 1 \in 1..Len(snapshots)
    BY <1>1, <1>4
  <1>6. ((i - 1) % 3) + 1 \in {1, 2, 3}
    BY <1>1, <1>4
  <1> QED
    BY <1>1, <1>4, <1>5, <1>3, <1>6

\* what the role assignment says will be executed
Executed == Logical - (3 - PhysicalSnapshots) * TrialsPerSnapshot(Release)

\* release batches are those of the snapshots that have a role
SealedInv ==
    \A b \in Release \X Snap :
        batch[b] # NoBatch =>
            /\ MayRelease /\ roles.executed # 0
            /\ b[2] \in {0, selection.native, selection.governed}

\* the counts are those of the selection that was sealed
RolesInv ==
    roles.executed # 0 =>
        /\ MayRelease
        /\ roles.executed = Executed /\ roles.reused = Logical - Executed

CountInv == SealedInv /\ RolesInv

(* Nothing is released or assigned.                                        *)
LEMMA InitCount == Init => CountInv
  BY DEF Init, CountInv, SealedInv, RolesInv, Stage

(* A release batch is run for a snapshot that has a role, and after the    *)
(* role assignment.                                                        *)
LEMMA RunCount ==
    ASSUME IInv, CountInv, RunEvaluation \/ RunRelease
    PROVE  CountInv'
  <1>1. CASE RunEvaluation
    <2>1. RunNext(EvaluationSchedule)
      BY <1>1 DEF RunEvaluation
    <2>2. PICK i \in DOMAIN EvaluationSchedule :
              \A b \in Stage \X Snap :
                  b # <<EvaluationSchedule[i][1], EvaluationSchedule[i][2]>> => batch'[b] = batch[b]
      BY <2>1, RunNextOne DEF IInv, DecisionInv
    <2>3. UNCHANGED <<selection, roles, decision>>
      BY <2>1, RunNextOne DEF IInv, DecisionInv
    <2>4. \A b \in Release \X Snap : batch'[b] = batch[b]
      <3> TAKE b \in Release \X Snap
      <3>1. b[1] \in Release /\ b \in Stage \X Snap
        BY DEF Stage
      <3>2. EvaluationSchedule[i][1] \notin Release
        BY EvaluationStages
      <3>3. b # <<EvaluationSchedule[i][1], EvaluationSchedule[i][2]>>
        BY <3>1, <3>2
      <3> QED
        BY <2>2, <3>1, <3>3
    <2> QED
      BY <2>3, <2>4 DEF CountInv, SealedInv, RolesInv, MayRelease, Selected, Executed,
                        PhysicalSnapshots
  <1>2. CASE RunRelease
    <2>1. RunNext(ReleaseSchedule) /\ MayRelease /\ roles.executed # 0
      BY <1>2 DEF RunRelease
    <2>2. PICK i \in DOMAIN ReleaseSchedule :
              \A b \in Stage \X Snap :
                  b # <<ReleaseSchedule[i][1], ReleaseSchedule[i][2]>> => batch'[b] = batch[b]
      BY <2>1, RunNextOne DEF IInv, DecisionInv
    <2>3. UNCHANGED <<selection, roles, decision>>
      BY <2>1, RunNextOne DEF IInv, DecisionInv
    <2>4. \A b \in Release \X Snap :
              batch'[b] # NoBatch => b[2] \in {0, selection.native, selection.governed}
      <3> SUFFICES ASSUME NEW b \in Release \X Snap, batch'[b] # NoBatch
                   PROVE  b[2] \in {0, selection.native, selection.governed}
        OBVIOUS
      <3>1. CASE b = <<ReleaseSchedule[i][1], ReleaseSchedule[i][2]>>
        <4>1. b[2] = ReleaseSchedule[i][2]
          BY <3>1
        <4> QED
          BY <4>1, ReleaseSnapshots
      <3>2. CASE b # <<ReleaseSchedule[i][1], ReleaseSchedule[i][2]>>
        <4>1. b \in Stage \X Snap
          BY DEF Stage
        <4> QED
          BY <2>2, <3>2, <4>1 DEF CountInv, SealedInv
      <3> QED
        BY <3>1, <3>2
    <2> QED
      BY <2>1, <2>3, <2>4 DEF CountInv, SealedInv, RolesInv, MayRelease, Selected, Executed,
                              PhysicalSnapshots
  <1> QED
    BY <1>1, <1>2

(* The role assignment says what will be executed, and the selection it    *)
(* rests on is not made twice.                                             *)
LEMMA CountInvariance == Spec => [](IInv /\ CountInv)
  <1>1. ASSUME IInv, CountInv, [Next]_vars PROVE CountInv'
    <2>1. CASE RunEvaluation \/ RunRelease
      BY <1>1, <2>1, RunCount
    <2>2. CASE Select
      <3>1. ~Selected /\ UNCHANGED <<batch, roles>>
        BY <2>2 DEF Select
      <3>2. roles.executed = 0 /\ \A b \in Release \X Snap : batch[b] = NoBatch
        BY <1>1, <3>1 DEF CountInv, SealedInv, RolesInv, MayRelease
      <3> QED
        BY <3>1, <3>2 DEF CountInv, SealedInv, RolesInv
    <2>3. CASE AssignRoles
      <3>1. /\ MayRelease /\ UNCHANGED <<batch, selection>> /\ roles.executed = 0
            /\ roles' = [executed |-> Executed, reused |-> Logical - Executed]
        BY <2>3 DEF AssignRoles, Executed
      <3>2. \A b \in Release \X Snap : batch'[b] = NoBatch
        BY <1>1, <3>1 DEF CountInv, SealedInv
      <3>3. roles'.executed = Executed /\ roles'.reused = Logical - Executed
        BY <3>1
      <3>4. Executed' = Executed /\ MayRelease'
        BY <3>1 DEF Executed, PhysicalSnapshots, MayRelease, Selected
      <3> QED
        BY <3>2, <3>3, <3>4 DEF CountInv, SealedInv, RolesInv
    <2>4. CASE DecideRoles \/ UNCHANGED vars
      <3>1. UNCHANGED <<batch, selection, roles>>
        BY <2>4 DEF DecideRoles, vars
      <3> QED
        BY <1>1, <3>1 DEF CountInv, SealedInv, RolesInv, MayRelease, Selected, Executed,
                          PhysicalSnapshots
    <2> QED
      BY <1>1, <2>1, <2>2, <2>3, <2>4 DEF Next
  <1> QED
    BY ChoiceInvariance, InitCount, <1>1, PTL DEF Spec

(* There are five stages.                                                  *)
LEMMA StagesFinite == IsFiniteSet(Release) /\ IsFiniteSet(Stage)
  <1>1. IsFiniteSet({}) /\ IsFiniteSet({} \cup {"release_id"})
    BY FS_EmptySet, FS_AddElement
  <1>2. IsFiniteSet(({} \cup {"release_id"}) \cup {"release_ood"})
    BY <1>1, FS_AddElement
  <1>3. IsFiniteSet((({} \cup {"release_id"}) \cup {"release_ood"}) \cup {"replay"})
    BY <1>2, FS_AddElement
  <1>4. Release = (({} \cup {"release_id"}) \cup {"release_ood"}) \cup {"replay"}
    BY DEF Release
  <1>5. IsFiniteSet(Release)
    BY <1>3, <1>4
  <1>6. IsFiniteSet(Release \cup {"selection"})
    BY <1>5, FS_AddElement
  <1>7. IsFiniteSet((Release \cup {"selection"}) \cup {"update_check"})
    BY <1>6, FS_AddElement
  <1>8. Stage = (Release \cup {"selection"}) \cup {"update_check"}
    BY DEF Stage
  <1> QED
    BY <1>5, <1>7, <1>8

(* A sum over the release stages is one of three.                          *)
LEMMA SumOfRelease ==
    ASSUME NEW f, \A s \in Release : f[s] \in Nat
    PROVE  Total(f, Release) = f["release_id"] + f["release_ood"] + f["replay"]
  <1>1. IsFiniteSet(Release)
    BY StagesFinite
  <1>2. \A T \in SUBSET Release : \A p \in T : Total(f, T) = f[p] + Total(f, T \ {p})
    <2> TAKE T \in SUBSET Release
    <2> TAKE p \in T
    <2> QED
      BY <1>1, SumSplits
  <1>3. Total(f, {}) = 0
    BY SumStep, FS_EmptySet
  <1>4. /\ Release \in SUBSET Release /\ "release_id" \in Release
        /\ Release \ {"release_id"} = {"release_ood", "replay"}
        /\ {"release_ood", "replay"} \in SUBSET Release /\ {"replay"} \in SUBSET Release
        /\ {"release_ood", "replay"} \ {"release_ood"} = {"replay"}
        /\ {"replay"} \ {"replay"} = {}
    BY DEF Release
  <1>5. Total(f, Release) = f["release_id"] + Total(f, {"release_ood", "replay"})
    BY <1>2, <1>4
  <1>6. Total(f, {"release_ood", "replay"}) = f["release_ood"] + Total(f, {"replay"})
    BY <1>2, <1>4
  <1>7. Total(f, {"replay"}) = f["replay"]
    <2>1. Total(f, {"replay"}) = f["replay"] + Total(f, {})
      BY <1>2, <1>4
    <2>2. f["replay"] \in Nat
      BY DEF Release
    <2> QED
      BY <1>3, <2>1, <2>2
  <1>8. f["release_id"] \in Nat /\ f["release_ood"] \in Nat /\ f["replay"] \in Nat
    BY DEF Release
  <1> QED
    BY <1>5, <1>6, <1>7, <1>8

(* The trials the study plans, and those of one snapshot of the release    *)
(* (BankingStudyPlan, _build_role_assignment).                             *)
LEMMA PlannedTrials ==
    /\ TrialsPerSnapshot(Release) = Trials("release_id") + Trials("release_ood") + Trials("replay")
    /\ Logical = Trials("update_check") * (Count + 1) + Trials("selection") * (Count + 1)
                     + 3 * Trials("release_id") + 3 * Trials("release_ood") + 3 * Trials("replay")
  <1>1. \A s \in Stage : Trials(s) \in Nat
    BY PairsFinite
  <1> DEFINE f == [s \in Release |-> Trials(s)]
             g == [s \in Stage |-> Trials(s) * Variants(s)]
  <1>2. TrialsPerSnapshot(Release) = Total(f, Release) /\ Logical = Total(g, Stage)
    BY DEF TrialsPerSnapshot, Logical, Total
  <1>3. \A s \in Release : f[s] = Trials(s) /\ f[s] \in Nat
    BY <1>1 DEF Stage
  <1>4. /\ g["update_check"] = Trials("update_check") * (Count + 1)
        /\ g["selection"] = Trials("selection") * (Count + 1)
        /\ g["release_id"] = Trials("release_id") * 3
        /\ g["release_ood"] = Trials("release_ood") * 3
        /\ g["replay"] = Trials("replay") * 3
    BY DEF Variants, Stage, Release
  <1>5. \A s \in Stage : g[s] \in Nat
    <2> TAKE s \in Stage
    <2>1. Variants(s) \in Nat /\ Trials(s) \in Nat
      BY <1>1, CountAssumption DEF Variants
    <2> QED
      BY <2>1
  <1>6. IsFiniteSet(Release) /\ IsFiniteSet(Stage)
    BY StagesFinite
  <1> HIDE DEF f, g
  <1>7. Total(f, Release) = f["release_id"] + f["release_ood"] + f["replay"]
    BY <1>3, SumOfRelease
  <1>8. Total(g, Release) = g["release_id"] + g["release_ood"] + g["replay"]
    BY <1>5, SumOfRelease DEF Stage
  <1>9. \A T \in SUBSET Stage : \A s \in T : Total(g, T) = g[s] + Total(g, T \ {s})
    <2> TAKE T \in SUBSET Stage
    <2> TAKE s \in T
    <2> QED
      BY <1>5, <1>6, SumSplits
  <1>10. /\ Stage \ {"update_check"} \in SUBSET Stage /\ "update_check" \in Stage
         /\ "selection" \in Stage \ {"update_check"}
         /\ (Stage \ {"update_check"}) \ {"selection"} = Release
    BY DEF Stage, Release
  <1>11. Total(g, Stage) = g["update_check"] + Total(g, Stage \ {"update_check"})
    BY <1>9, <1>10
  <1>12. Total(g, Stage \ {"update_check"}) =
             g["selection"] + Total(g, Release)
    BY <1>9, <1>10
  <1>13. /\ g["update_check"] \in Nat /\ g["selection"] \in Nat /\ g["release_id"] \in Nat
         /\ g["release_ood"] \in Nat /\ g["replay"] \in Nat
         /\ Trials("release_id") \in Nat /\ Trials("release_ood") \in Nat /\ Trials("replay") \in Nat
    BY <1>1, <1>5 DEF Stage, Release
  <1>14. TrialsPerSnapshot(Release) = Trials("release_id") + Trials("release_ood") + Trials("replay")
    BY <1>2, <1>3, <1>7 DEF Release
  <1>15. Logical = g["update_check"] + (g["selection"]
                       + (g["release_id"] + g["release_ood"] + g["replay"]))
    BY <1>2, <1>8, <1>11, <1>12
  <1>16. /\ g["release_id"] = 3 * Trials("release_id")
         /\ g["release_ood"] = 3 * Trials("release_ood")
         /\ g["replay"] = 3 * Trials("replay")
    BY <1>4, <1>13
  <1> QED
    BY <1>4, <1>13, <1>14, <1>15, <1>16

\* the batches of one stage
Row(s) == {s} \X Snap

(* A sum over all batches is one over those of each stage.                 *)
LEMMA SumOverStages ==
    ASSUME NEW f, \A b \in Stage \X Snap : f[b] \in Nat, IsFiniteSet(Stage \X Snap)
    PROVE  /\ Total(f, Stage \X Snap) =
                  Total(f, Row("update_check")) + Total(f, Row("selection"))
                      + Total(f, Row("release_id")) + Total(f, Row("release_ood"))
                      + Total(f, Row("replay"))
  <1> DEFINE S == Stage \X Snap
             A == Row("update_check")
             B == Row("selection")
             C == Row("release_id")
             D == Row("release_ood")
             E == Row("replay")
  <1>1. \A s \in Stage : Row(s) \in SUBSET S
    BY DEF Row
  <1>2. /\ A \in SUBSET S /\ B \in SUBSET S /\ C \in SUBSET S /\ D \in SUBSET S /\ E \in SUBSET S
    BY <1>1 DEF Stage, Release
  <1>3. \A s, t \in Stage : s # t => Row(s) \cap Row(t) = {}
    BY DEF Row
  <1>4. /\ A \cap B = {} /\ (A \cup B) \cap C = {} /\ ((A \cup B) \cup C) \cap D = {}
        /\ (((A \cup B) \cup C) \cup D) \cap E = {}
    BY DEF Row
  <1>5. S = (((A \cup B) \cup C) \cup D) \cup E
    BY DEF Row, Stage, Release
  <1> HIDE DEF S, A, B, C, D, E
  <1>6. ASSUME NEW X \in SUBSET S, NEW Y \in SUBSET S, X \cap Y = {}
        PROVE  Total(f, X \cup Y) = Total(f, X) + Total(f, Y)
    BY <1>6, SumUnion DEF S
  <1>7. Total(f, A \cup B) = Total(f, A) + Total(f, B)
    BY <1>2, <1>4, <1>6
  <1>8. Total(f, (A \cup B) \cup C) = Total(f, A \cup B) + Total(f, C)
    BY <1>2, <1>4, <1>6
  <1>9. Total(f, ((A \cup B) \cup C) \cup D) = Total(f, (A \cup B) \cup C) + Total(f, D)
    BY <1>2, <1>4, <1>6
  <1>10. Total(f, (((A \cup B) \cup C) \cup D) \cup E) =
                  Total(f, ((A \cup B) \cup C) \cup D) + Total(f, E)
    BY <1>2, <1>4, <1>6
  <1> QED
    BY <1>5, <1>7, <1>8, <1>9, <1>10 DEF S, A, B, C, D, E

(* The native winner is the candidate of the first rank (DualSelector).    *)
LEMMA NativeIsFirst == NativeWinner = 1 /\ NativeWinner \in Candidate
  <1>1. 1 \in Candidate /\ \A j \in Candidate : 1 <= j
    BY CountAssumption DEF Candidate
  <1>2. NativeWinner \in Candidate /\ \A j \in Candidate : NativeWinner <= j
    BY <1>1 DEF NativeWinner
  <1> QED
    BY <1>1, <1>2, CountAssumption DEF Candidate

(* Evidence that both roles share is counted once.                         *)
LEMMA SnapshotsCounted ==
    ASSUME selection.native \in Candidate, selection.governed \in Candidate
    PROVE  /\ {0, selection.native, selection.governed} \in SUBSET Snap
           /\ Cardinality({0, selection.native, selection.governed}) = PhysicalSnapshots
           /\ PhysicalSnapshots \in {2, 3}
  <1>1. PICK m, n : m = selection.native /\ n = selection.governed
    OBVIOUS
  <1>2. m \in Nat /\ n \in Nat /\ m # 0 /\ n # 0 /\ {0, m, n} \in SUBSET Snap
    BY <1>1, CountAssumption DEF Candidate, Snap
  <1>3. IsFiniteSet({m}) /\ Cardinality({m}) = 1
    BY FS_Singleton
  <1>4. IsFiniteSet({m, n}) /\ Cardinality({m, n}) \in {1, 2}
    <2>1. CASE m = n
      <3>1. {m, n} = {m}
        BY <2>1
      <3> QED
        BY <1>3, <3>1
    <2>2. CASE m # n
      <3>1. {m, n} = {m} \cup {n} /\ n \notin {m}
        BY <2>2
      <3>2. IsFiniteSet({m} \cup {n}) /\ Cardinality({m} \cup {n}) = 1 + 1
        BY <1>3, <3>1, FS_AddElement
      <3> QED
        BY <3>1, <3>2
    <2> QED
      BY <2>1, <2>2
  <1>5. {0, m, n} = {m, n} \cup {0} /\ 0 \notin {m, n}
    BY <1>2
  <1>6. Cardinality({m, n} \cup {0}) = Cardinality({m, n}) + 1
    BY <1>4, <1>5, FS_AddElement
  <1>7. PhysicalSnapshots = 1 + Cardinality({m, n})
    BY <1>1 DEF PhysicalSnapshots
  <1>8. PICK c : c = Cardinality({m, n})
    OBVIOUS
  <1>9. c \in {1, 2} /\ PhysicalSnapshots = 1 + c /\ Cardinality({0, m, n}) = c + 1
    BY <1>4, <1>5, <1>6, <1>7, <1>8
  <1>10. PhysicalSnapshots \in {2, 3} /\ Cardinality({0, m, n}) = PhysicalSnapshots
    BY <1>9
  <1> QED
    BY <1>1, <1>2, <1>10

(* The number of executed trials that the role assignment states before    *)
(* the release is the number the experiment has executed when it decides   *)
(* (_build_role_assignment, run).                                          *)
THEOREM ExecutedStaysCounted == Spec => []ExecutedIsCounted
  <1>1. ASSUME IInv, CountInv, decision["agentloopgate"] # "none"
        PROVE  /\ roles.executed =
                      SumFunctionOnSet([b \in Stage \X Snap |->
                          IF batch[b] = NoBatch THEN 0 ELSE Cardinality(DOMAIN batch[b])],
                          Stage \X Snap)
               /\ roles.executed + roles.reused = Logical
    <2> DEFINE f == [b \in Stage \X Snap |->
                       IF batch[b] = NoBatch THEN 0 ELSE Cardinality(DOMAIN batch[b])]
               H == {0, selection.native, selection.governed}
    <2>1. /\ Selected /\ MayRelease /\ CompleteOn(Evaluation \X Snap) /\ CompleteOn(Shipped)
          /\ selection.native = NativeWinner /\ selection.governed # 0
      BY <1>1 DEF IInv, ChoiceInv, DecisionInv, MayRelease
    <2>2. selection.native \in Candidate /\ selection.governed \in Candidate /\ 0 \in Snap
      BY <1>1, <2>1, NativeIsFirst, SelectionUsable DEF EligibleIn
    <2>3. H \in SUBSET Snap /\ Cardinality(H) = PhysicalSnapshots /\ PhysicalSnapshots \in {2, 3}
      BY <2>2, SnapshotsCounted
    <2>4. IsFiniteSet(Snap) /\ Cardinality(Snap) = Count + 1
      BY CountAssumption, FS_Interval DEF Snap
    <2>5. ASSUME NEW b \in Stage \X Snap
          PROVE  /\ batch[b] # NoBatch => f[b] = Trials(b[1])
                 /\ batch[b] = NoBatch => f[b] = 0
                 /\ f[b] \in Nat
      <3>1. batch[b] # NoBatch => DOMAIN batch[b] = Pairs(b[1])
        BY <1>1 DEF IInv, DecisionInv, BatchInv
      <3>2. Cardinality(Pairs(b[1])) = Trials(b[1]) /\ Trials(b[1]) \in Nat
        BY PairsFinite
      <3> QED
        BY <3>1, <3>2
    <2> HIDE DEF f, H
    <2>6. ASSUME NEW s \in {"update_check", "selection"}, NEW k \in Snap
          PROVE  f[<<s, k>>] = Trials(s)
      <3>1. <<s, k>> \in Evaluation \X Snap /\ <<s, k>> \in Stage \X Snap
        BY DEF Evaluation, Stage
      <3>2. batch[<<s, k>>] # NoBatch
        BY <2>1, <3>1 DEF CompleteOn, Complete
      <3> QED
        BY <2>5, <3>1, <3>2
    <2>7. ASSUME NEW s \in Release, NEW k \in Snap
          PROVE  /\ k \in H => f[<<s, k>>] = Trials(s) /\ batch[<<s, k>>] # NoBatch
                 /\ k \notin H => f[<<s, k>>] = 0
      <3>1. <<s, k>> \in Release \X Snap /\ <<s, k>> \in Stage \X Snap
        BY DEF Stage
      <3>2. k \in H => batch[<<s, k>>] # NoBatch
        BY <2>1, <3>1 DEF CompleteOn, Complete, Shipped, H
      <3>3. k \notin H => batch[<<s, k>>] = NoBatch
        BY <1>1, <3>1 DEF CountInv, SealedInv, H
      <3> QED
        BY <2>5, <3>1, <3>2, <3>3
    <2>8. ASSUME NEW s \in Stage, NEW K \in SUBSET Snap, NEW n \in Nat,
                 \A k \in K : f[<<s, k>>] = n, \A k \in Snap \ K : f[<<s, k>>] = 0
          PROVE  Total(f, Row(s)) = Cardinality(K) * n
      <3> DEFINE A == {s} \X K
      <3>1. IsFiniteSet({s}) /\ Cardinality({s}) = 1 /\ IsFiniteSet(K)
        BY <2>4, FS_Singleton, FS_Subset
      <3>2. /\ IsFiniteSet(Row(s)) /\ IsFiniteSet(A)
            /\ Cardinality(A) = Cardinality({s}) * Cardinality(K)
        BY <2>4, <3>1, FS_Product DEF Row
      <3>3. A \in SUBSET Row(s)
        BY DEF Row
      <3>4. \A b \in A : f[b] = n
        <4> TAKE b \in A
        <4>1. b = <<s, b[2]>> /\ b[2] \in K
          OBVIOUS
        <4> QED
          BY <2>8, <4>1
      <3>5. \A b \in Row(s) \ A : f[b] = 0
        <4> TAKE b \in Row(s) \ A
        <4>1. b = <<s, b[2]>> /\ b[2] \in Snap \ K
          BY DEF Row
        <4> QED
          BY <2>8, <4>1
      <3>6. Cardinality(K) \in Nat
        BY <3>1, FS_CardinalityType
      <3> HIDE DEF A
      <3>7. Total(f, Row(s)) = Cardinality(A) * n
        BY <3>2, <3>3, <3>4, <3>5, SumOfEquals
      <3>8. Cardinality(A) = Cardinality(K)
        BY <3>1, <3>2, <3>6
      <3> QED
        BY <3>7, <3>8
    <2>9. \A s \in Stage : Trials(s) \in Nat
      BY PairsFinite
    <2>10. \A s \in {"update_check", "selection"} : Total(f, Row(s)) = (Count + 1) * Trials(s)
      <3> TAKE s \in {"update_check", "selection"}
      <3>1. s \in Stage /\ Snap \in SUBSET Snap /\ Trials(s) \in Nat
        BY <2>9 DEF Stage
      <3>2. Total(f, Row(s)) = Cardinality(Snap) * Trials(s)
        BY <2>6, <2>8, <3>1
      <3> QED
        BY <2>4, <3>2
    <2>11. \A s \in Release : Total(f, Row(s)) = PhysicalSnapshots * Trials(s)
      <3> TAKE s \in Release
      <3>1. s \in Stage /\ Trials(s) \in Nat
        BY <2>9 DEF Stage
      <3>2. Total(f, Row(s)) = Cardinality(H) * Trials(s)
        BY <2>3, <2>7, <2>8, <3>1
      <3> QED
        BY <2>3, <3>2
    <2>12. IsFiniteSet(Stage \X Snap) /\ \A b \in Stage \X Snap : f[b] \in Nat
      <3>1. IsFiniteSet(Stage)
        BY StagesFinite
      <3> QED
        BY <2>4, <2>5, <3>1, FS_Product
    <2>13. Total(f, Stage \X Snap) =
               Total(f, Row("update_check")) + Total(f, Row("selection"))
                   + Total(f, Row("release_id")) + Total(f, Row("release_ood"))
                   + Total(f, Row("replay"))
      BY <2>12, SumOverStages
    <2>14. /\ roles.executed = Executed /\ roles.reused = Logical - Executed
      <3>1. <<"replay", 0>> \in Release \X Snap /\ 0 \in H
        BY <2>2 DEF Release, H
      <3>2. batch[<<"replay", 0>>] # NoBatch
        BY <2>2, <2>7, <3>1 DEF Release
      <3> QED
        BY <1>1, <3>1, <3>2 DEF CountInv, SealedInv, RolesInv
    <2>15. PICK u, v, x, y, z, c :
               /\ u = Trials("update_check") /\ v = Trials("selection") /\ x = Trials("release_id")
               /\ y = Trials("release_ood") /\ z = Trials("replay") /\ c = PhysicalSnapshots
      OBVIOUS
    <2>16. /\ u \in Nat /\ v \in Nat /\ x \in Nat /\ y \in Nat /\ z \in Nat /\ c \in {2, 3}
      BY <2>3, <2>9, <2>15 DEF Stage, Release
    <2>17. PICK p, q : p = (Count + 1) * u /\ q = (Count + 1) * v
      OBVIOUS
    <2>18. p \in Nat /\ q \in Nat /\ p = u * (Count + 1) /\ q = v * (Count + 1)
      BY <2>16, <2>17, CountAssumption
    <2>19. Total(f, Stage \X Snap) = p + q + c * x + c * y + c * z
      BY <2>10, <2>11, <2>13, <2>15, <2>17 DEF Release
    <2>20. Logical = p + q + 3 * x + 3 * y + 3 * z /\ TrialsPerSnapshot(Release) = x + y + z
      BY <2>15, <2>18, PlannedTrials
    <2>21. Executed = Logical - (3 - c) * (x + y + z) /\ Logical \in Nat
      BY <2>15, <2>16, <2>18, <2>20 DEF Executed
    <2>22. Executed = Total(f, Stage \X Snap) /\ Executed \in Int
      <3>1. CASE c = 2
        BY <2>16, <2>18, <2>19, <2>20, <2>21, <3>1
      <3>2. CASE c = 3
        BY <2>16, <2>18, <2>19, <2>20, <2>21, <3>2
      <3> QED
        BY <2>16, <3>1, <3>2
    <2>23. roles.executed + roles.reused = Logical
      BY <2>14, <2>21, <2>22
    <2> QED
      BY <2>14, <2>22, <2>23 DEF f, Total
  <1>2. ASSUME IInv, CountInv PROVE ExecutedIsCounted
    BY <1>1, <1>2 DEF ExecutedIsCounted
  <1> QED
    BY CountInvariance, <1>2, PTL

(* What else the state holds.                                              *)
DataInv ==
    /\ selection.native \in Snap /\ selection.governed \in 0..Count + 1
    /\ roles.executed \in 0..Logical /\ roles.reused \in 0..Logical
    /\ \A r \in DOMAIN decision : decision[r] \in {"none", "ship", "hold", "reject"}
    /\ left \in 0..MaxSurprises

(* No run is sealed whose surprises are more than may still come.          *)
LEMMA RunNextLeft ==
    ASSUME NEW schedule, \A i \in DOMAIN schedule : schedule[i][1] \in Stage,
           DataInv, RunNext(schedule)
    PROVE  DataInv'
  <1>1. UNCHANGED <<selection, roles, decision>>
    BY DEF RunNext
  <1>2. PICK i \in DOMAIN schedule : \E odd \in SUBSET Pairs(schedule[i][1]) :
            Cardinality(odd) <= left /\ left' = left - Cardinality(odd)
    BY DEF RunNext
  <1>3. PICK odd \in SUBSET Pairs(schedule[i][1]) :
            Cardinality(odd) <= left /\ left' = left - Cardinality(odd)
    BY <1>2
  <1>4. Cardinality(odd) \in Nat
    BY <1>3, PairsFinite, FS_Subset, FS_CardinalityType
  <1>5. left' \in 0..MaxSurprises
    BY <1>3, <1>4, BoundAssumption DEF DataInv
  <1> QED
    BY <1>1, <1>5 DEF DataInv

(* The executed trials are no more than those the study plans.             *)
LEMMA ExecutedBounded ==
    ASSUME PhysicalSnapshots \in {2, 3}
    PROVE  Executed \in 0..Logical /\ Logical - Executed \in 0..Logical
  <1>1. PICK u, v, x, y, z, c :
            /\ u = Trials("update_check") /\ v = Trials("selection") /\ x = Trials("release_id")
            /\ y = Trials("release_ood") /\ z = Trials("replay") /\ c = PhysicalSnapshots
    OBVIOUS
  <1>2. \A s \in Stage : Trials(s) \in Nat
    BY PairsFinite
  <1>3. /\ u \in Nat /\ v \in Nat /\ x \in Nat /\ y \in Nat /\ z \in Nat /\ c \in {2, 3}
    BY <1>1, <1>2 DEF Stage, Release
  <1>4. PICK p, q : p = u * (Count + 1) /\ q = v * (Count + 1)
    OBVIOUS
  <1>5. p \in Nat /\ q \in Nat
    BY <1>3, <1>4, CountAssumption
  <1>6. Logical = p + q + 3 * x + 3 * y + 3 * z /\ TrialsPerSnapshot(Release) = x + y + z
    BY <1>1, <1>4, PlannedTrials
  <1>7. Executed = Logical - (3 - c) * (x + y + z)
    BY <1>1, <1>6 DEF Executed
  <1>8. CASE c = 2
    BY <1>3, <1>5, <1>6, <1>7, <1>8
  <1>9. CASE c = 3
    BY <1>3, <1>5, <1>6, <1>7, <1>9
  <1> QED
    BY <1>3, <1>8, <1>9

(* Every batch, selection, assignment and decision is one of its kind.     *)
THEOREM TypeCorrect == Spec => []TypeOK
  <1>1. Logical \in Nat
    <2>1. 3 \in {2, 3} /\ \A s \in Stage : Trials(s) \in Nat
      BY PairsFinite
    <2>2. PICK p, q : p = Trials("update_check") * (Count + 1) /\ q = Trials("selection") * (Count + 1)
      OBVIOUS
    <2>3. p \in Nat /\ q \in Nat
      BY <2>1, <2>2, CountAssumption DEF Stage
    <2>4. Trials("release_id") \in Nat /\ Trials("release_ood") \in Nat /\ Trials("replay") \in Nat
      BY <2>1 DEF Stage, Release
    <2> QED
      BY <2>2, <2>3, <2>4, PlannedTrials
  <1>2. Init => DataInv
    <2> SUFFICES ASSUME Init PROVE DataInv
      OBVIOUS
    <2>1. 0 \in Snap /\ Count + 1 \in 0..Count + 1 /\ MaxSurprises \in 0..MaxSurprises
      BY CountAssumption, BoundAssumption DEF Snap
    <2> QED
      BY <1>1, <2>1 DEF Init, DataInv, NoSelection
  <1>3. ASSUME IInv, DataInv, [Next]_vars PROVE DataInv'
    <2>1. CASE RunEvaluation
      <3>1. RunNext(EvaluationSchedule)
        BY <2>1 DEF RunEvaluation
      <3>2. \A i \in DOMAIN EvaluationSchedule : EvaluationSchedule[i][1] \in Stage
        BY EvaluationStages
      <3> QED
        BY <1>3, <3>1, <3>2, RunNextLeft
    <2>2. CASE RunRelease
      <3>1. RunNext(ReleaseSchedule)
        BY <2>2 DEF RunRelease
      <3>2. \A i \in DOMAIN ReleaseSchedule : ReleaseSchedule[i][1] \in Stage
        BY ReleaseSnapshots DEF Stage
      <3> QED
        BY <1>3, <3>1, <3>2, RunNextLeft
    <2>3. CASE Select
      <3>1. IInv' /\ selection' = [native |-> NativeWinner, governed |-> GovernedWinner(batch)]
        BY <1>3, <2>3, SelectChoice DEF Select
      <3>2. GovernedWinner(batch) \in 0..Count + 1
        <4>1. PICK b : b = batch
          OBVIOUS
        <4>2. Usable(b)
          <5>1. ASSUME NEW j \in Snap
                PROVE  /\ batch[<<"selection", j>>] \in [Pairs("selection") -> RunType]
                       /\ Scored(batch[<<"selection", j>>]) = Pairs("selection")
            <6>1. Complete("selection", batch[<<"selection", j>>])
              BY <2>3 DEF Select, AllComplete
            <6>2. <<"selection", j>> \in Stage \X Snap
              BY DEF Stage
            <6> QED
              BY <1>3, <6>1, <6>2 DEF Complete, IInv, RunInv, Pairs
          <5> QED
            BY <4>1, <5>1 DEF Usable
        <4>3. GovernedWinner(b) \in 0..Count
          BY <4>2, WinnerIsFirst
        <4> QED
          BY <4>1, <4>3, CountAssumption
      <3>3. NativeWinner \in Snap
        BY NativeIsFirst, CountAssumption DEF Candidate, Snap
      <3>4. UNCHANGED <<roles, decision, left>>
        BY <2>3 DEF Select
      <3> QED
        BY <1>3, <3>1, <3>2, <3>3, <3>4 DEF DataInv
    <2>4. CASE AssignRoles
      <3>1. /\ MayRelease /\ UNCHANGED <<selection, decision, left>>
            /\ roles' = [executed |-> Executed, reused |-> Logical - Executed]
        BY <2>4 DEF AssignRoles, Executed
      <3>2. selection.native \in Candidate /\ selection.governed \in Candidate
        BY <1>3, <3>1, NativeIsFirst, SelectionUsable DEF MayRelease, IInv, ChoiceInv, EligibleIn
      <3>3. Executed \in 0..Logical /\ Logical - Executed \in 0..Logical
        BY <3>2, SnapshotsCounted, ExecutedBounded
      <3>4. roles'.executed \in 0..Logical /\ roles'.reused \in 0..Logical
        BY <3>1, <3>3
      <3> QED
        BY <1>3, <3>1, <3>4 DEF DataInv
    <2>5. CASE DecideRoles
      <3>1. /\ UNCHANGED <<selection, roles, left>>
            /\ decision' = [native |-> Decide(batch, selection.native),
                            agentloopgate |-> Decide(batch, selection.governed)]
        BY <2>5 DEF DecideRoles
      <3>2. \A k : Decide(batch, k) \in {"ship", "hold", "reject"}
        BY DEF Decide
      <3>3. \A r \in DOMAIN decision' : decision'[r] \in {"none", "ship", "hold", "reject"}
        BY <3>1, <3>2
      <3> QED
        BY <1>3, <3>1, <3>3 DEF DataInv
    <2>6. CASE UNCHANGED vars
      BY <1>3, <2>6 DEF DataInv, vars
    <2> QED
      BY <1>3, <2>1, <2>2, <2>3, <2>4, <2>5, <2>6 DEF Next
  <1>4. IInv /\ DataInv => TypeOK
    BY DEF IInv, RunInv, DataInv, TypeOK
  <1> QED
    BY ChoiceInvariance, <1>2, <1>3, <1>4, PTL DEF Spec

=============================================================================
