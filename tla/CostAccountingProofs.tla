------------------------ MODULE CostAccountingProofs ------------------------
(***************************************************************************)
(* Why the sealed cost record tells the truth about the bill, for any      *)
(* number of positions, attempts, calls, troubles and interruptions.  A    *)
(* call is exact only if its cost is its bill, and costs no more than it   *)
(* was billed otherwise; only the last call may still wait, so nothing     *)
(* that was recorded changes; and what is sealed is what the ledgers say.  *)
(* The rest is about sums.                                                 *)
(***************************************************************************)
EXTENDS CostAccounting, TLAPS, FiniteSetTheorems, SequenceTheorems, WellFoundedInduction

State == {"started", "failed", "completed"}
Working == Turns \cup {"raise", "save"}

-----------------------------------------------------------------------------
(* The inductive invariant.                                                *)

(* An attempt is open while the worker is in it, and closed before its     *)
(* simulation is saved.                                                    *)
WorkerInv ==
    /\ turn \in Working =>
          /\ Open # {} /\ Index >= 1 /\ account = Unsealed
          /\ attempts[Current][Index] = IF turn = "save" THEN "completed" ELSE "started"
    /\ account # Unsealed => turn = "done"

(* A call belongs to an attempt that was started; only the last one of the *)
(* attempt under way may still have no terminal event.                     *)
WaitingInv ==
    /\ \A i \in DOMAIN calls : calls[i].attempt <= Len(attempts[calls[i].position])
    /\ turn \in Turns =>
          \A i \in OfAttempt(Current, Index) : calls[i].state = "started" => i = Len(calls)

(* What the ledgers say of a call, and what it was billed.                 *)
Priced(c) ==
    /\ c.state = "started" <=> c.status = "pending"
    /\ c.status = "pending" => c.cost = 0
    /\ c.cost <= c.billed
    /\ c.status = "exact" => c.cost = 1 /\ c.billed = 1
    /\ c.state = "completed" => c.billed >= 1

PriceInv == \A i \in DOMAIN calls : Priced(calls[i])

(* Each attempt of a position that did not fail was interrupted, but for   *)
(* the one under way and the one whose result was kept.                    *)
Interrupted(p) == {k \in DOMAIN attempts[p] : attempts[p][k] # "failed"}

CrashInv ==
    \A p \in Position :
        /\ raw[p] = Nothing \/ raw[p] = Infra =>
              Cardinality(Interrupted(p)) <=
                  crashes + IF turn \in Working /\ p = Current THEN 1 ELSE 0
        /\ raw[p] = Infra => Len(attempts[p]) = Limit

(* The record is what the ledgers and the results give.                    *)
AccountInv ==
    account # Unsealed => account = IF HasLineage THEN Accounting ELSE Refused

TypeInv ==
    /\ TypeOK
    /\ attempts \in [Position -> Seq(State)]
    /\ raw \in [Position -> Int]
    /\ calls \in Seq(Call)

IInv == TypeInv /\ WorkerInv /\ WaitingInv /\ PriceInv /\ CrashInv /\ AccountInv

-----------------------------------------------------------------------------
(* Sums.                                                                   *)

(* A set of numbers that holds 0 and with a number the next holds them all.*)
LEMMA Induction ==
    ASSUME NEW S \in SUBSET Nat, 0 \in S, \A n \in S : n + 1 \in S
    PROVE  S = Nat
  <1> DEFINE T == Nat \ S
             R == OpToRel(<, Nat)
  <1> SUFFICES ASSUME T # {} PROVE FALSE
    OBVIOUS
  <1>1. IsWellFoundedOn(R, Nat)
    BY NatLessThanWellFounded
  <1>2. T \subseteq Nat /\ T # {}
    OBVIOUS
  <1>3. PICK x \in T : \A y \in T : ~ (<<y, x>> \in R)
    BY <1>1, <1>2, WFMin
  <1>4. x # 0 /\ x - 1 \in Nat /\ <<x - 1, x>> \in R
    BY <1>3 DEF OpToRel
  <1>5. x - 1 \in S
    BY <1>3, <1>4
  <1>6. x \in Nat /\ x \notin S
    BY <1>3
  <1> HIDE DEF T, R
  <1>7. (x - 1) + 1 = x
    BY <1>6
  <1> QED
    BY <1>5, <1>6, <1>7

Pick(s) == CHOOSE x \in s : TRUE

(* How a sum goes through the subsets of S.                                *)
Adds(g, f, S) ==
    g = [s \in SUBSET S |-> IF s = {} THEN 0 ELSE f[Pick(s)] + g[s \ {Pick(s)}]]

(* The subsets with at most n elements.                                    *)
Small(S, n) == {s \in SUBSET S : Cardinality(s) <= n}

(* Taking the picked element out of a finite set leaves one less.          *)
LEMMA Picking ==
    ASSUME NEW S, IsFiniteSet(S), NEW s \in SUBSET S, s # {}
    PROVE  /\ Pick(s) \in s /\ s \ {Pick(s)} \in SUBSET S
           /\ Cardinality(s) \in Nat /\ Cardinality(s \ {Pick(s)}) \in Nat
           /\ Cardinality(s) = Cardinality(s \ {Pick(s)}) + 1
  <1>1. Pick(s) \in s
    BY DEF Pick
  <1>2. IsFiniteSet(s)
    BY FS_Subset
  <1> DEFINE t == s \ {Pick(s)}
  <1>3. IsFiniteSet(t) /\ t \in SUBSET S
    BY <1>2, FS_Subset
  <1>4. Cardinality(t) = Cardinality(s) - 1
    BY <1>1, <1>2, FS_RemoveElement
  <1>5. Cardinality(s) \in Nat /\ Cardinality(t) \in Nat
    BY <1>2, <1>3, FS_CardinalityType
  <1> QED
    BY <1>1, <1>3, <1>4, <1>5

(* There is such a function, built up by the size of the subsets.          *)
LEMMA AddsExists ==
    ASSUME NEW f, NEW S, IsFiniteSet(S)
    PROVE  \E g : Adds(g, f, S)
  <1> DEFINE Fits(g, n) ==
               g = [s \in Small(S, n) |-> IF s = {} THEN 0 ELSE f[Pick(s)] + g[s \ {Pick(s)}]]
             M == {n \in Nat : \E g : Fits(g, n)}
  <1>0. \A s \in SUBSET S : IsFiniteSet(s) /\ Cardinality(s) \in Nat
    BY FS_Subset, FS_CardinalityType
  <1>1. 0 \in M
    <2> DEFINE g == [s \in Small(S, 0) |-> 0]
    <2>1. \A s \in Small(S, 0) : s = {}
      BY <1>0, FS_EmptySet DEF Small
    <2>2. Fits(g, 0)
      BY <2>1
    <2> HIDE DEF g, Fits
    <2>3. \E h : Fits(h, 0)
      BY <2>2
    <2> QED
      BY <2>3
  <1>2. ASSUME NEW n \in M PROVE n + 1 \in M
    <2>1. PICK g : Fits(g, n)
      OBVIOUS
    <2> DEFINE h == [s \in Small(S, n + 1) |->
                        IF s = {} THEN 0 ELSE f[Pick(s)] + g[s \ {Pick(s)}]]
    <2>2. \A s \in Small(S, n) : s \in Small(S, n + 1) /\ h[s] = g[s]
      <3>1. \A s \in Small(S, n) : s \in Small(S, n + 1)
        BY <1>0 DEF Small
      <3>2. \A s \in Small(S, n) : g[s] = IF s = {} THEN 0 ELSE f[Pick(s)] + g[s \ {Pick(s)}]
        BY <2>1
      <3> QED
        BY <3>1, <3>2
    <2>3. \A s \in Small(S, n + 1) : s # {} => s \ {Pick(s)} \in Small(S, n)
      BY Picking DEF Small
    <2>4. Fits(h, n + 1)
      <3> DEFINE k == [s \in Small(S, n + 1) |->
                        IF s = {} THEN 0 ELSE f[Pick(s)] + h[s \ {Pick(s)}]]
      <3>1. \A s \in Small(S, n + 1) : h[s] = k[s]
        <4> TAKE s \in Small(S, n + 1)
        <4>1. CASE s = {}
          BY <4>1
        <4>2. CASE s # {}
          <5>1. h[s \ {Pick(s)}] = g[s \ {Pick(s)}]
            BY <4>2, <2>2, <2>3
          <5> QED
            BY <4>2, <5>1
        <4> QED
          BY <4>1, <4>2
      <3>2. h = k
        BY <3>1
      <3> QED
        BY <3>2
    <2> HIDE DEF h, Fits
    <2>5. \E e : Fits(e, n + 1)
      BY <2>4
    <2> QED
      BY <2>5
  <1>3. \A n \in Nat : \E g : Fits(g, n)
    <2> HIDE DEF Fits
    <2>1. M \in SUBSET Nat
      OBVIOUS
    <2> HIDE DEF M
    <2>2. M = Nat
      BY ONLY <1>1, <1>2, <2>1, Induction
    <2> QED
      BY <2>2 DEF M
  <1>4. PICK g : Fits(g, Cardinality(S))
    <2> HIDE DEF Fits, M
    <2> QED
      BY <1>0, <1>3
  <1>5. Small(S, Cardinality(S)) = SUBSET S
    BY FS_Subset DEF Small
  <1>6. Adds(g, f, S)
    BY <1>4, <1>5 DEF Adds
  <1> QED
    BY <1>6

(* All that are such functions agree, on whatever sets.                    *)
LEMMA AddsUnique ==
    ASSUME NEW f, NEW S, IsFiniteSet(S), NEW T \in SUBSET S,
           NEW g, Adds(g, f, S), NEW h, Adds(h, f, T)
    PROVE  \A s \in SUBSET T : g[s] = h[s]
  <1> DEFINE M == {n \in Nat : \A s \in SUBSET T : Cardinality(s) = n => g[s] = h[s]}
  <1>0. \A s \in SUBSET S : IsFiniteSet(s) /\ Cardinality(s) \in Nat
    BY FS_Subset, FS_CardinalityType
  <1>1. \A s \in SUBSET T :
            /\ g[s] = IF s = {} THEN 0 ELSE f[Pick(s)] + g[s \ {Pick(s)}]
            /\ h[s] = IF s = {} THEN 0 ELSE f[Pick(s)] + h[s \ {Pick(s)}]
    BY DEF Adds
  <1>2. 0 \in M
    <2>1. \A s \in SUBSET T : Cardinality(s) = 0 => s = {}
      BY <1>0, FS_EmptySet
    <2> QED
      BY <1>1, <2>1
  <1>3. ASSUME NEW n \in M PROVE n + 1 \in M
    <2> SUFFICES ASSUME NEW s \in SUBSET T, Cardinality(s) = n + 1 PROVE g[s] = h[s]
      OBVIOUS
    <2>1. s # {}
      BY FS_EmptySet
    <2>2. Cardinality(s \ {Pick(s)}) = n /\ s \ {Pick(s)} \in SUBSET T
      BY <2>1, Picking
    <2>3. g[s \ {Pick(s)}] = h[s \ {Pick(s)}]
      BY <2>2
    <2> QED
      BY <1>1, <2>1, <2>3
  <1>4. M \in SUBSET Nat
    OBVIOUS
  <1> HIDE DEF M
  <1>5. M = Nat
    BY ONLY <1>2, <1>3, <1>4, Induction
  <1> QED
    BY <1>0, <1>5 DEF M

Sum(f, S) == SumFunctionOnSet(f, S)

(* A sum is one of the picked element and the rest.                        *)
LEMMA SumStep ==
    ASSUME NEW f, NEW S, IsFiniteSet(S)
    PROVE  Sum(f, S) = IF S = {} THEN 0 ELSE f[Pick(S)] + Sum(f, S \ {Pick(S)})
  <1> DEFINE F(T) == CHOOSE g : Adds(g, f, T)
  <1>1. \A T : Sum(f, T) = F(T)[T]
    BY DEF SumFunctionOnSet, FoldFunctionOnSet, MapThenFoldSet, Adds, Pick, Sum
  <1>2. \A T \in SUBSET S : Adds(F(T), f, T)
    <2> SUFFICES ASSUME NEW T \in SUBSET S PROVE \E g : Adds(g, f, T)
      OBVIOUS
    <2> QED
      BY AddsExists, FS_Subset
  <1> HIDE DEF F
  <1>3. F(S)[S] = IF S = {} THEN 0 ELSE f[Pick(S)] + F(S)[S \ {Pick(S)}]
    BY <1>2 DEF Adds
  <1> DEFINE T == S \ {Pick(S)}
  <1>4. F(S)[T] = F(T)[T]
    <2>1. T \in SUBSET S /\ Adds(F(T), f, T) /\ Adds(F(S), f, S)
      BY <1>2
    <2> DEFINE g == F(S)
               h == F(T)
    <2>2. Adds(g, f, S) /\ Adds(h, f, T)
      BY <2>1
    <2> HIDE DEF T, g, h
    <2>3. \A s \in SUBSET T : g[s] = h[s]
      BY <2>1, <2>2, AddsUnique
    <2>4. g[T] = h[T]
      BY <2>3
    <2> QED
      BY <2>4 DEF g, h
  <1> QED
    BY <1>1, <1>3, <1>4

(* What holds of {} and of a set with one element more holds of a finite   *)
(* set: G are the sets it holds of.                                        *)
LEMMA SubsetInduction ==
    ASSUME NEW S, IsFiniteSet(S), NEW G, {} \in G,
           \A T \in SUBSET S : T # {} /\ T \ {Pick(T)} \in G => T \in G
    PROVE  \A T \in SUBSET S : T \in G
  <1> DEFINE M == {n \in Nat : \A T \in SUBSET S : Cardinality(T) = n => T \in G}
  <1>0. \A T \in SUBSET S : IsFiniteSet(T) /\ Cardinality(T) \in Nat
    BY FS_Subset, FS_CardinalityType
  <1>1. 0 \in M
    <2>1. \A T \in SUBSET S : Cardinality(T) = 0 => T = {}
      BY <1>0, FS_EmptySet
    <2> QED
      BY <2>1
  <1>2. ASSUME NEW n \in M PROVE n + 1 \in M
    <2> SUFFICES ASSUME NEW T \in SUBSET S, Cardinality(T) = n + 1 PROVE T \in G
      OBVIOUS
    <2>1. T # {}
      BY FS_EmptySet
    <2>2. Cardinality(T \ {Pick(T)}) = n /\ T \ {Pick(T)} \in SUBSET S
      BY <2>1, Picking
    <2> QED
      BY <2>1, <2>2
  <1>3. M \in SUBSET Nat
    OBVIOUS
  <1> HIDE DEF M
  <1>4. M = Nat
    BY ONLY <1>1, <1>2, <1>3, Induction
  <1> QED
    BY <1>0, <1>4 DEF M

(* A sum of numbers is a number.                                           *)
LEMMA SumType ==
    ASSUME NEW S, IsFiniteSet(S), NEW f, \A x \in S : f[x] \in Nat
    PROVE  \A T \in SUBSET S : Sum(f, T) \in Nat
  <1> DEFINE G == {T \in SUBSET S : Sum(f, T) \in Nat}
  <1>0. \A T \in SUBSET S : Sum(f, T) = IF T = {} THEN 0 ELSE f[Pick(T)] + Sum(f, T \ {Pick(T)})
    BY SumStep, FS_Subset
  <1>1. {} \in G
    <2>1. {} \in SUBSET S /\ Sum(f, {}) = 0
      BY SumStep, FS_EmptySet
    <2> QED
      BY <2>1
  <1>2. ASSUME NEW T \in SUBSET S, T # {}, T \ {Pick(T)} \in G PROVE T \in G
    BY <1>0, <1>2, Picking
  <1> HIDE DEF G
  <1>3. \A T \in SUBSET S : T \in G
    BY <1>1, <1>2, SubsetInduction
  <1> QED
    BY <1>3 DEF G

(* It does not matter which element is taken out.                          *)
LEMMA SumSplits ==
    ASSUME NEW S, IsFiniteSet(S), NEW f, \A x \in S : f[x] \in Nat
    PROVE  \A T \in SUBSET S : \A x \in T : Sum(f, T) = f[x] + Sum(f, T \ {x})
  <1> DEFINE G == {T \in SUBSET S : \A x \in T : Sum(f, T) = f[x] + Sum(f, T \ {x})}
             R(T) == T \ {Pick(T)}
  <1>0. \A T \in SUBSET S : Sum(f, T) = IF T = {} THEN 0 ELSE f[Pick(T)] + Sum(f, R(T))
    BY SumStep, FS_Subset
  <1>1. \A T \in SUBSET S : Sum(f, T) \in Nat
    BY SumType
  <1> DEFINE M == {n \in Nat : \A T \in SUBSET S : Cardinality(T) = n => T \in G}
  <1>2. 0 \in M
    <2>1. \A T \in SUBSET S : Cardinality(T) = 0 => T = {}
      BY FS_EmptySet, FS_Subset
    <2> QED
      BY <2>1
  <1>3. ASSUME NEW n \in M PROVE n + 1 \in M
    <2> SUFFICES ASSUME NEW T \in SUBSET S, Cardinality(T) = n + 1, NEW x \in T
                 PROVE  Sum(f, T) = f[x] + Sum(f, T \ {x})
      OBVIOUS
    <2> DEFINE y == Pick(T)
    <2>1. y \in T /\ R(T) \in SUBSET S /\ Cardinality(R(T)) = n
      BY Picking
    <2>2. Sum(f, T) = f[y] + Sum(f, T \ {y})
      BY <1>0, <2>1
    <2>3. T \ {x} \in SUBSET S /\ Cardinality(T \ {x}) = n
      <3>1. IsFiniteSet(T)
        BY FS_Subset
      <3>2. Cardinality(T \ {x}) = Cardinality(T) - 1
        BY <3>1, FS_RemoveElement
      <3> QED
        BY <3>2
    <2>4. CASE x = y
      BY <2>2, <2>4
    <2>5. CASE x # y
      <3>1. Sum(f, T \ {y}) = f[x] + Sum(f, (T \ {y}) \ {x})
        BY <2>1, <2>5
      <3>2. Sum(f, T \ {x}) = f[y] + Sum(f, (T \ {x}) \ {y})
        BY <2>1, <2>3, <2>5
      <3>3. (T \ {y}) \ {x} = (T \ {x}) \ {y}
        OBVIOUS
      <3> HIDE DEF y
      <3>4. Sum(f, (T \ {x}) \ {y}) \in Nat /\ f[x] \in Nat /\ f[y] \in Nat
        BY <1>1, <2>1
      <3> QED
        BY <2>2, <3>1, <3>2, <3>3, <3>4
    <2> QED
      BY <2>4, <2>5
  <1>4. M \in SUBSET Nat
    OBVIOUS
  <1>5. M = Nat
    <2> HIDE DEF M
    <2> QED
      BY ONLY <1>2, <1>3, <1>4, Induction
  <1> QED
    BY <1>5, FS_Subset, FS_CardinalityType

(* Addends that are no larger make no larger sum.                          *)
LEMMA SumGrows ==
    ASSUME NEW S, IsFiniteSet(S), NEW f, NEW h,
           \A x \in S : f[x] \in Nat /\ h[x] \in Nat /\ f[x] <= h[x]
    PROVE  \A T \in SUBSET S : Sum(f, T) <= Sum(h, T)
  <1> DEFINE G == {T \in SUBSET S : Sum(f, T) <= Sum(h, T)}
  <1>0. \A T \in SUBSET S :
            /\ Sum(f, T) = IF T = {} THEN 0 ELSE f[Pick(T)] + Sum(f, T \ {Pick(T)})
            /\ Sum(h, T) = IF T = {} THEN 0 ELSE h[Pick(T)] + Sum(h, T \ {Pick(T)})
    BY SumStep, FS_Subset
  <1>1. \A T \in SUBSET S : Sum(f, T) \in Nat /\ Sum(h, T) \in Nat
    BY SumType
  <1>2. {} \in G
    <2>1. {} \in SUBSET S /\ Sum(f, {}) = 0 /\ Sum(h, {}) = 0
      BY SumStep, FS_EmptySet
    <2> QED
      BY <2>1
  <1>3. ASSUME NEW T \in SUBSET S, T # {}, T \ {Pick(T)} \in G PROVE T \in G
    <2> DEFINE x == Pick(T)
               R == T \ {x}
    <2>1. x \in S /\ R \in SUBSET S
      BY <1>3, Picking
    <2>2. Sum(f, T) = f[x] + Sum(f, R) /\ Sum(h, T) = h[x] + Sum(h, R)
      BY <1>0, <1>3
    <2>3. Sum(f, R) <= Sum(h, R)
      BY <1>3
    <2>4. /\ f[x] \in Nat /\ h[x] \in Nat /\ f[x] <= h[x]
          /\ Sum(f, R) \in Nat /\ Sum(h, R) \in Nat
      BY <1>1, <2>1
    <2> HIDE DEF x, R
    <2>5. Sum(f, T) <= Sum(h, T)
      BY <2>2, <2>3, <2>4
    <2> QED
      BY <2>5
  <1> HIDE DEF G
  <1>4. \A T \in SUBSET S : T \in G
    BY <1>2, <1>3, SubsetInduction
  <1> QED
    BY <1>4 DEF G

(* The same addends make the same sum.                                     *)
LEMMA SumAgrees ==
    ASSUME NEW S, IsFiniteSet(S), NEW f, NEW h, \A x \in S : f[x] \in Nat /\ h[x] = f[x]
    PROVE  \A T \in SUBSET S : Sum(f, T) = Sum(h, T)
  <1>1. \A x \in S : /\ f[x] \in Nat /\ h[x] \in Nat
                   /\ f[x] <= h[x] /\ h[x] <= f[x]
    OBVIOUS
  <1>2. \A T \in SUBSET S : Sum(f, T) <= Sum(h, T)
    BY <1>1, SumGrows
  <1>3. \A T \in SUBSET S : Sum(h, T) <= Sum(f, T)
    BY <1>1, SumGrows
  <1>4. \A T \in SUBSET S : Sum(f, T) \in Nat /\ Sum(h, T) \in Nat
    BY <1>1, SumType
  <1> QED
    BY <1>2, <1>3, <1>4

(* Two sums in one.                                                        *)
LEMMA SumUnion ==
    ASSUME NEW S, IsFiniteSet(S), NEW f, \A x \in S : f[x] \in Nat,
           NEW A \in SUBSET S
    PROVE  \A B \in SUBSET S : A \cap B = {} => Sum(f, A \cup B) = Sum(f, A) + Sum(f, B)
  <1> DEFINE G == {B \in SUBSET S : A \cap B = {} => Sum(f, A \cup B) = Sum(f, A) + Sum(f, B)}
  <1>0. \A T \in SUBSET S : \A y \in T : Sum(f, T) = f[y] + Sum(f, T \ {y})
    <2> HIDE DEF G
    <2> TAKE T \in SUBSET S
    <2> TAKE y \in T
    <2> QED
      BY SumSplits
  <1>1. \A T \in SUBSET S : Sum(f, T) \in Nat
    BY SumType
  <1>2. {} \in G
    <2>1. {} \in SUBSET S /\ Sum(f, {}) = 0
      BY SumStep, FS_EmptySet
    <2>2. A \cup {} = A
      OBVIOUS
    <2>3. Sum(f, A \cup {}) = Sum(f, A) + Sum(f, {})
      BY <1>1, <2>1, <2>2
    <2> QED
      BY <2>1, <2>3
  <1>3. ASSUME NEW B \in SUBSET S, B # {}, B \ {Pick(B)} \in G PROVE B \in G
    <2> SUFFICES ASSUME A \cap B = {} PROVE Sum(f, A \cup B) = Sum(f, A) + Sum(f, B)
      OBVIOUS
    <2> DEFINE x == Pick(B)
               R == B \ {x}
    <2>1. x \in B /\ R \in SUBSET S
      BY <1>3, Picking
    <2>2. Sum(f, A \cup R) = Sum(f, A) + Sum(f, R)
      BY <1>3
    <2> HIDE DEF x
    <2>3. Sum(f, B) = f[x] + Sum(f, R)
      BY <1>0, <2>1
    <2>4. Sum(f, A \cup B) = f[x] + Sum(f, A \cup R)
      <3>1. A \cup B \in SUBSET S /\ x \in A \cup B /\ (A \cup B) \ {x} = A \cup R
        BY <2>1
      <3> QED
        BY <1>0, <3>1
    <2>5. /\ f[x] \in Nat /\ Sum(f, A) \in Nat /\ Sum(f, R) \in Nat
      BY <1>1, <2>1
    <2> QED
      BY <2>2, <2>3, <2>4, <2>5
  <1> HIDE DEF G
  <1>4. \A B \in SUBSET S : B \in G
    BY <1>2, <1>3, SubsetInduction
  <1> QED
    BY <1>4 DEF G
(* A set of which every element counts at least one is no larger than the  *)
(* sum over a set around it.                                               *)
LEMMA SumCounts ==
    ASSUME NEW S, IsFiniteSet(S), NEW f, \A x \in S : f[x] \in Nat,
           NEW A \in SUBSET S, \A x \in A : f[x] >= 1
    PROVE  Cardinality(A) <= Sum(f, S)
  <1> DEFINE G == {T \in SUBSET A : Cardinality(T) <= Sum(f, T)}
  <1>0. IsFiniteSet(A) /\ \A T \in SUBSET A : T \in SUBSET S
    BY FS_Subset
  <1>1. \A T \in SUBSET S : Sum(f, T) \in Nat
    BY SumType
  <1>2. {} \in G
    <2>1. {} \in SUBSET S /\ Sum(f, {}) = 0 /\ Cardinality({}) = 0
      BY SumStep, FS_EmptySet
    <2> QED
      BY <2>1
  <1>3. ASSUME NEW T \in SUBSET A, T # {}, T \ {Pick(T)} \in G PROVE T \in G
    <2> DEFINE x == Pick(T)
               R == T \ {x}
    <2>1. /\ x \in A /\ R \in SUBSET S /\ Cardinality(R) \in Nat
          /\ Cardinality(T) = Cardinality(R) + 1
      BY <1>0, <1>3, Picking
    <2>2. Sum(f, T) = f[x] + Sum(f, R)
      BY <1>0, <1>3, SumStep, FS_Subset
    <2>3. Cardinality(R) <= Sum(f, R) /\ Sum(f, R) \in Nat /\ f[x] \in Nat /\ f[x] >= 1
      BY <1>1, <1>3, <2>1
    <2> HIDE DEF x, R
    <2>4. Cardinality(T) <= Sum(f, T)
      BY <2>1, <2>2, <2>3
    <2> QED
      BY <2>4
  <1> HIDE DEF G
  <1>4. \A T \in SUBSET A : T \in G
    BY <1>0, <1>2, <1>3, SubsetInduction
  <1>5. Cardinality(A) <= Sum(f, A) /\ Cardinality(A) \in Nat
    BY <1>0, <1>4, FS_CardinalityType DEF G
  <1> DEFINE B == S \ A
  <1>6. B \in SUBSET S /\ A \cap B = {} /\ A \cup B = S
    OBVIOUS
  <1> HIDE DEF B
  <1>7. Sum(f, A \cup B) = Sum(f, A) + Sum(f, B)
    BY <1>6, SumUnion
  <1> QED
    BY <1>1, <1>5, <1>6, <1>7

-----------------------------------------------------------------------------
(* What a step does to the ledgers.                                        *)

(* The position the worker is at is the first open one.                    *)
LEMMA CurrentIsOpen ==
    ASSUME Open # {}
    PROVE  /\ Current \in Position /\ raw[Current] = Nothing
           /\ \A p \in Open : Current <= p
  <1> DEFINE R == OpToRel(<, Nat)
  <1>1. IsWellFoundedOn(R, Nat)
    BY NatLessThanWellFounded
  <1>2. Open \subseteq Nat
    BY CountAssumption DEF Open, Position
  <1>3. PICK x \in Open : \A y \in Open : ~ (<<y, x>> \in R)
    BY <1>1, <1>2, WFMin
  <1>4. \A y \in Open : x <= y
    <2> TAKE y \in Open
    <2>1. x \in Nat /\ y \in Nat /\ ~ (y < x)
      BY <1>2, <1>3 DEF OpToRel
    <2> QED
      BY <2>1
  <1>5. Current \in Open /\ \A y \in Open : Current <= y
    BY <1>3, <1>4 DEF Current, Min
  <1> QED
    BY <1>5 DEF Open

(* While a call is waited for it is the last one.                          *)
LEMMA LastWaits ==
    ASSUME IInv, Waiting
    PROVE  /\ turn \in Turns /\ Current \in Position /\ Index \in 1..Limit
           /\ Len(calls) \in DOMAIN calls /\ calls[Len(calls)] \in Call
           /\ calls[Len(calls)].position = Current /\ calls[Len(calls)].attempt = Index
           /\ calls[Len(calls)].state = "started"
  <1>1. PICK i \in OfAttempt(Current, Index) : calls[i].state = "started"
    BY DEF Waiting
  <1>2. turn \in Turns /\ i = Len(calls)
    BY <1>1 DEF Waiting, IInv, WaitingInv
  <1>3. Current \in Position /\ Index >= 1
    BY <1>2, CurrentIsOpen DEF IInv, WorkerInv, Working
  <1>4. Index \in Nat /\ Index <= Limit
    BY <1>3 DEF IInv, TypeInv, TypeOK, Index
  <1> QED
    BY <1>1, <1>2, <1>3, <1>4, CountAssumption DEF OfAttempt, IInv, TypeInv, TypeOK

(* The last call becomes c, and is another one no more.                    *)
Becomes(c) ==
    /\ c \in Call /\ Priced(c)
    /\ c.position = Current /\ c.attempt = Index
    /\ calls' = [calls EXCEPT ![Len(calls)] = c]

(* A terminal event gives the call its status and its cost.                *)
LEMMA TerminalEvent ==
    ASSUME IInv, Waiting,
           NEW state \in {"completed", "failed"}, NEW status \in {"exact", "partial", "unavailable"},
           NEW cost \in 0..1, NEW billed \in 0..2, cost <= billed,
           status = "exact" => cost = 1 /\ billed = 1,
           state = "completed" => billed >= 1,
           EndCall(state, status, cost, billed)
    PROVE  \E c : Becomes(c) /\ c.state # "started"
  <1> DEFINE last == calls[Len(calls)]
             c == [last EXCEPT !.state = state, !.status = status,
                               !.cost = cost, !.billed = billed]
  <1>1. last \in Call /\ last.position = Current /\ last.attempt = Index
    BY LastWaits
  <1>2. calls' = [calls EXCEPT ![Len(calls)] = c]
    BY DEF EndCall
  <1>3. c \in Call /\ c.state = state /\ c.status = status /\ c.cost = cost
        /\ c.billed = billed /\ c.position = last.position /\ c.attempt = last.attempt
    BY <1>1 DEF Call
  <1>4. Priced(c)
    BY <1>3 DEF Priced
  <1> HIDE DEF c
  <1> QED
    BY <1>1, <1>2, <1>3, <1>4 DEF Becomes

(* A call that is given up may have been billed all the same.              *)
LEMMA LostCall ==
    ASSUME IInv, Waiting, NEW billed \in 0..1,
           calls' = [calls EXCEPT ![Len(calls)].billed = billed]
    PROVE  \E c : Becomes(c)
  <1> DEFINE last == calls[Len(calls)]
             c == [last EXCEPT !.billed = billed]
  <1>1. /\ last \in Call /\ last.position = Current /\ last.attempt = Index
        /\ last.state = "started" /\ Len(calls) \in DOMAIN calls
    BY LastWaits
  <1>2. calls' = [calls EXCEPT ![Len(calls)] = c]
    OBVIOUS
  <1>3. /\ c \in Call /\ c.state = last.state /\ c.status = last.status /\ c.cost = last.cost
        /\ c.billed = billed /\ c.position = last.position /\ c.attempt = last.attempt
    BY <1>1 DEF Call
  <1>4. Priced(c)
    <2>1. Priced(last)
      BY <1>1 DEF IInv, PriceInv
    <2>2. last.status = "pending"
      BY <1>1, <2>1 DEF Priced
    <2> QED
      BY <1>1, <1>3, <2>1, <2>2 DEF Priced, Call
  <1> HIDE DEF c
  <1> QED
    BY <1>1, <1>2, <1>3, <1>4 DEF Becomes

(* The ledgers are appended to, and only what waits is ever completed.     *)
LEMMA CallsChange ==
    ASSUME IInv, [Next]_vars
    PROVE  \/ /\ UNCHANGED calls
              /\ turn' \in Turns => StartAttempt \/ UNCHANGED vars
           \/ /\ turn \in Turns /\ ~Waiting /\ UNCHANGED <<turn, attempts, raw>>
              /\ \E c \in Call : /\ Priced(c) /\ c.position = Current /\ c.attempt = Index
                                /\ calls' = Append(calls, c)
           \/ /\ Waiting /\ UNCHANGED <<attempts, raw>>
              /\ \E c : Becomes(c) /\ (turn' \in Turns => c.state # "started")
  <1>1. CASE StartCall
    <2> DEFINE c == [position |-> Current, attempt |-> Index, channel |-> Speaker,
                     state |-> "started", status |-> "pending", cost |-> 0, billed |-> 0]
    <2>1. turn \in Turns /\ ~Waiting /\ UNCHANGED <<turn, attempts, raw>> /\ calls' = Append(calls, c)
      BY <1>1 DEF StartCall
    <2>2. Current \in Position /\ Index \in 1..Limit
      <3>1. Current \in Position /\ Index >= 1
        BY <2>1, CurrentIsOpen DEF IInv, WorkerInv, Working
      <3>2. Index \in Nat /\ Index <= Limit
        BY <3>1 DEF IInv, TypeInv, TypeOK, Index
      <3> QED
        BY <3>1, <3>2, CountAssumption
    <2>3. c \in Call
      BY <2>2 DEF Call, Speaker, Channel
    <2>4. Priced(c) /\ c.position = Current /\ c.attempt = Index
      BY DEF Priced
    <2> HIDE DEF c
    <2> QED
      BY <2>1, <2>3, <2>4
  <1>2. CASE LoseCall
    <2>1. Waiting /\ UNCHANGED <<attempts, raw>> /\ turn' = "raise"
      BY <1>2 DEF LoseCall
    <2>2. \E c : Becomes(c)
      <3>1. PICK billed \in 0..1 : calls' = [calls EXCEPT ![Len(calls)].billed = billed]
        BY <1>2 DEF LoseCall
      <3> QED
        BY <2>1, <3>1, LostCall
    <2>3. turn' \notin Turns
      BY <2>1 DEF Turns
    <2> QED
      BY <2>1, <2>2, <2>3
  <1>3. CASE Crash
    <2>1. UNCHANGED <<attempts, raw>> /\ turn' = "idle"
      BY <1>3 DEF Crash
    <2>2. turn' \notin Turns
      BY <2>1 DEF Turns
    <2>3. CASE Waiting
      <3>1. PICK billed \in 0..1 : calls' = [calls EXCEPT ![Len(calls)].billed = billed]
        BY <1>3, <2>3 DEF Crash
      <3>2. \E c : Becomes(c)
        BY <2>3, <3>1, LostCall
      <3> QED
        BY <2>1, <2>2, <2>3, <3>2
    <2> QED
      BY <1>3, <2>2, <2>3 DEF Crash
  <1>4. CASE Unanswered \/ AgentAnswers \/ AgentRejected \/ AgentEmpty \/ UserAnswers
    <2>1. Waiting /\ UNCHANGED <<attempts, raw>>
      BY <1>4 DEF Unanswered, AgentAnswers, AgentRejected, AgentEmpty, UserAnswers
    <2>2. ASSUME NEW state \in {"completed", "failed"}, NEW retried \in BOOLEAN,
                 Envelope(state, retried)
          PROVE  \E c : Becomes(c) /\ c.state # "started"
      <3>1. PICK billed \in 1..(IF retried THEN 2 ELSE 1) :
                EndCall(state, Status(retried), 1, billed)
        BY <2>2 DEF Envelope
      <3>2. /\ Status(retried) \in {"exact", "partial", "unavailable"} /\ billed \in 0..2
            /\ 1 \in 0..1 /\ 1 <= billed
            /\ Status(retried) = "exact" => billed = 1
        BY <3>1 DEF Status
      <3> QED
        BY <2>1, <3>1, <3>2, TerminalEvent
    <2>3. ASSUME NEW counted \in BOOLEAN, Price(counted)
          PROVE  \E c : Becomes(c) /\ c.state # "started"
      <3>1. CASE counted
        BY <2>1, <2>3, <3>1, TerminalEvent DEF Price
      <3>2. CASE ~counted
        BY <2>1, <2>3, <3>2, TerminalEvent DEF Price
      <3> QED
        BY <3>1, <3>2
    <2>4. CASE Unanswered
      <3>1. PICK billed \in 0..1 : EndCall("failed", "unavailable", 0, billed)
        BY <2>4 DEF Unanswered
      <3>2. billed \in 0..2 /\ 0 \in 0..1 /\ 0 <= billed
        OBVIOUS
      <3>3. \E c : Becomes(c) /\ c.state # "started"
        BY <2>1, <3>1, <3>2, TerminalEvent
      <3> QED
        BY <2>1, <3>3
    <2>5. CASE AgentAnswers \/ AgentRejected \/ AgentEmpty
      <3>1. \E state \in {"completed", "failed"}, retried \in BOOLEAN : Envelope(state, retried)
        BY <2>5 DEF AgentAnswers, AgentRejected, AgentEmpty
      <3>2. \E c : Becomes(c) /\ c.state # "started"
        BY <2>2, <3>1
      <3> QED
        BY <2>1, <3>2
    <2>6. CASE UserAnswers
      <3>1. PICK counted \in BOOLEAN : Price(counted)
        BY <2>6 DEF UserAnswers
      <3>2. \E c : Becomes(c) /\ c.state # "started"
        BY <2>3, <3>1
      <3> QED
        BY <2>1, <3>2
    <2> QED
      BY <1>4, <2>4, <2>5, <2>6
  <1>5. CASE \/ Launch \/ StartAttempt \/ FailAttempt \/ GiveUp \/ Save \/ QueueEnds
             \/ RaiseBetweenCalls \/ CompleteAttempt \/ Seal \/ UNCHANGED vars
    BY <1>5 DEF Launch, StartAttempt, FailAttempt, GiveUp, Save, QueueEnds,
       RaiseBetweenCalls, CompleteAttempt, Seal, Turns, vars
  <1> QED
    BY <1>1, <1>2, <1>3, <1>4, <1>5 DEF Next, Progress

(* An attempt is appended, or the last one of a position ends.             *)
LEMMA AttemptsChange ==
    ASSUME IInv, [Next]_vars
    PROVE  \/ UNCHANGED attempts
           \/ StartAttempt
           \/ /\ FailAttempt \/ CompleteAttempt
              /\ \E state \in State : EndAttempt(state)
              /\ Current \in Position /\ Index \in DOMAIN attempts[Current]
  <1>1. CASE FailAttempt \/ CompleteAttempt
    <2>1. \E state \in State : EndAttempt(state)
      BY <1>1 DEF FailAttempt, CompleteAttempt, State
    <2>2. turn \in Working
      BY <1>1 DEF FailAttempt, CompleteAttempt, Working, Turns
    <2>3. Current \in Position /\ Index >= 1
      BY <2>2, CurrentIsOpen DEF IInv, WorkerInv
    <2>4. attempts[Current] \in Seq(State)
      BY <2>3 DEF IInv, TypeInv
    <2>5. Index \in DOMAIN attempts[Current]
      BY <2>3, <2>4 DEF Index
    <2> QED
      BY <1>1, <2>1, <2>3, <2>5
  <1>2. CASE \/ Launch \/ GiveUp \/ Save \/ QueueEnds \/ StartCall \/ LoseCall \/ Unanswered
             \/ AgentAnswers \/ AgentRejected \/ AgentEmpty \/ UserAnswers
             \/ RaiseBetweenCalls \/ Seal \/ Crash \/ UNCHANGED vars
    BY <1>2 DEF Launch, GiveUp, Save, QueueEnds, StartCall, LoseCall, Unanswered,
       AgentAnswers, AgentRejected, AgentEmpty, UserAnswers, RaiseBetweenCalls, Seal, Crash, vars
  <1> QED
    BY <1>1, <1>2 DEF Next, Progress

(* What was attempted is never forgotten.                                  *)
LEMMA AttemptsGrow ==
    ASSUME IInv, [Next]_vars
    PROVE  /\ attempts' \in [Position -> Seq(State)]
           /\ \A p \in Position : Len(attempts[p]) <= Len(attempts'[p]) /\ Len(attempts'[p]) <= Limit
  <1>0. /\ attempts \in [Position -> Seq(State)]
        /\ \A p \in Position : Len(attempts[p]) <= Limit /\ Len(attempts[p]) \in Nat
    BY DEF IInv, TypeInv, TypeOK
  <1>1. CASE UNCHANGED attempts
    BY <1>0, <1>1
  <1>2. CASE StartAttempt
    <2>1. /\ Open # {} /\ Index < Limit
          /\ attempts' = [attempts EXCEPT ![Current] = Append(@, "started")]
      BY <1>2 DEF StartAttempt, Remaining
    <2>2. Current \in Position
      BY <2>1, CurrentIsOpen
    <2>3. /\ Append(attempts[Current], "started") \in Seq(State)
          /\ Len(Append(attempts[Current], "started")) = Index + 1
      BY <1>0, <2>2 DEF State, Index
    <2> HIDE DEF Current
    <2>4. Index \in Nat
      BY <1>0, <2>2 DEF Index
    <2> QED
      BY <1>0, <2>1, <2>2, <2>3, <2>4, CountAssumption DEF Index
  <1>3. CASE /\ \E state \in State : EndAttempt(state)
             /\ Current \in Position /\ Index \in DOMAIN attempts[Current]
    <2>1. PICK state \in State : EndAttempt(state)
      BY <1>3
    <2> DEFINE s == attempts[Current]
               t == [s EXCEPT ![Index] = state]
    <2>2. s \in Seq(State) /\ attempts' = [attempts EXCEPT ![Current] = t]
      BY <1>0, <1>3, <2>1 DEF EndAttempt
    <2>3. t \in Seq(State) /\ Len(t) = Len(s)
      <3>1. Len(s) \in Nat /\ s \in [1..Len(s) -> State]
        BY <2>2
      <3>2. t \in [1..Len(s) -> State]
        BY <3>1
      <3> HIDE DEF t, s
      <3> QED
        BY <3>1, <3>2
    <2> HIDE DEF t
    <2> QED
      BY <1>0, <1>3, <2>2, <2>3
  <1> QED
    BY <1>1, <1>2, <1>3, AttemptsChange

-----------------------------------------------------------------------------
(* The invariant, conjunct by conjunct.                                    *)

(* How the worker moves, seen from outside an attempt.                     *)
LEMMA WorkerStep ==
    ASSUME IInv, [Next]_vars
    PROVE  WorkerInv'
  <1>1. CASE Launch \/ QueueEnds \/ GiveUp \/ Save \/ FailAttempt \/ Seal \/ Crash
    <2>1. turn' \notin Working
      BY <1>1 DEF Launch, QueueEnds, GiveUp, Save, FailAttempt, Seal, Crash, Working, Turns
    <2>2. account' # Unsealed => turn' = "done"
      BY <1>1 DEF Launch, QueueEnds, GiveUp, Save, FailAttempt, Seal, Crash, IInv, WorkerInv
    <2> QED
      BY <2>1, <2>2 DEF WorkerInv
  <1>2. CASE StartAttempt
    <2>1. /\ Open # {} /\ turn' = "user" /\ turn = "next" /\ UNCHANGED <<raw, account>>
          /\ attempts' = [attempts EXCEPT ![Current] = Append(@, "started")]
      BY <1>2 DEF StartAttempt
    <2>2. Current \in Position /\ Open' = Open /\ Current' = Current
      BY <2>1, CurrentIsOpen DEF Open, Current
    <2>3. attempts \in [Position -> Seq(State)] /\ account = Unsealed
      BY <2>1 DEF IInv, TypeInv, WorkerInv
    <2> DEFINE s == Append(attempts[Current], "started")
    <2>4. Len(s) = Len(attempts[Current]) + 1 /\ s[Len(s)] = "started" /\ Len(attempts[Current]) \in Nat
      BY <2>2, <2>3
    <2>5. attempts'[Current] = s
      BY <2>1, <2>2, <2>3
    <2>6. Index' = Len(s)
      BY <2>2, <2>5 DEF Index
    <2> HIDE DEF s
    <2>7. Index' >= 1 /\ attempts'[Current'][Index'] = "started"
      BY <2>2, <2>4, <2>5, <2>6
    <2> QED
      BY <2>1, <2>2, <2>3, <2>7 DEF WorkerInv
  <1>3. CASE \/ StartCall \/ LoseCall \/ Unanswered \/ AgentAnswers \/ AgentRejected
             \/ AgentEmpty \/ UserAnswers \/ RaiseBetweenCalls
    <2>1. turn \in Turns /\ turn' \in Turns \cup {"raise"} /\ UNCHANGED <<attempts, raw, account>>
      BY <1>3 DEF StartCall, LoseCall, Unanswered, AgentAnswers, AgentRejected, AgentEmpty,
         UserAnswers, RaiseBetweenCalls, Waiting, AfterEmpty, AfterUser, Turns
    <2>2. Open' = Open /\ Current' = Current /\ Index' = Index
      BY <2>1 DEF Open, Current, Index
    <2>3. turn \in Working /\ turn # "save" /\ turn' # "save"
      BY <2>1 DEF Working, Turns
    <2> QED
      BY <2>1, <2>2, <2>3 DEF WorkerInv, IInv
  <1>4. CASE CompleteAttempt
    <2>1. turn \in Turns /\ turn' = "save" /\ UNCHANGED <<raw, account>> /\ EndAttempt("completed")
      BY <1>4 DEF CompleteAttempt, Turns
    <2>2. Open' = Open /\ Current' = Current
      BY <2>1 DEF Open, Current
    <2>3. Open # {} /\ Index >= 1 /\ account = Unsealed
      BY <2>1 DEF IInv, WorkerInv, Working
    <2>4. Current \in Position /\ attempts \in [Position -> Seq(State)]
      BY <2>3, CurrentIsOpen DEF IInv, TypeInv
    <2>5. attempts'[Current] = [attempts[Current] EXCEPT ![Index] = "completed"]
      BY <2>1, <2>4 DEF EndAttempt
    <2>6. Len(attempts'[Current]) = Index /\ attempts'[Current][Index] = "completed"
      <3> DEFINE s == attempts[Current]
      <3>1. s \in Seq(State) /\ Index = Len(s) /\ Index \in 1..Len(s)
        BY <2>3, <2>4 DEF Index
      <3> HIDE DEF s
      <3>2. /\ Len([s EXCEPT ![Index] = "completed"]) = Index
            /\ [s EXCEPT ![Index] = "completed"][Index] = "completed"
        BY <3>1
      <3> QED
        BY <2>5, <3>2 DEF s
    <2>7. Index' = Index
      BY <2>2, <2>6 DEF Index
    <2> QED
      BY <2>1, <2>2, <2>3, <2>6, <2>7 DEF WorkerInv
  <1>5. CASE UNCHANGED vars
    BY <1>5 DEF vars, IInv, WorkerInv, Open, Current, Index
  <1> QED
    BY <1>1, <1>2, <1>3, <1>4, <1>5 DEF Next, Progress

(* Every call is and stays what the ledgers say of it.                     *)
LEMMA PriceStep ==
    ASSUME IInv, [Next]_vars
    PROVE  PriceInv' /\ calls' \in Seq(Call)
  <1>0. calls \in Seq(Call) /\ \A i \in DOMAIN calls : Priced(calls[i])
    BY DEF IInv, TypeInv, PriceInv
  <1>1. CASE UNCHANGED calls
    BY <1>0, <1>1 DEF PriceInv
  <1>2. ASSUME NEW c \in Call, Priced(c), calls' = Append(calls, c)
        PROVE  PriceInv' /\ calls' \in Seq(Call)
    <2>1. calls' \in Seq(Call) /\ DOMAIN calls' = 1..Len(calls) + 1
      BY <1>0, <1>2
    <2>2. \A i \in DOMAIN calls' : calls'[i] = c \/ (i \in DOMAIN calls /\ calls'[i] = calls[i])
      BY <1>0, <1>2
    <2>3. \A i \in DOMAIN calls' : Priced(calls'[i])
      BY <1>0, <1>2, <2>2
    <2> QED
      BY <2>1, <2>3 DEF PriceInv, Priced
  <1>3. ASSUME NEW c, Becomes(c)
        PROVE  PriceInv' /\ calls' \in Seq(Call)
    <2>1. c \in Call /\ Priced(c) /\ calls' = [calls EXCEPT ![Len(calls)] = c]
      BY <1>3 DEF Becomes
    <2>2. Len(calls) \in Nat /\ calls \in [1..Len(calls) -> Call]
      BY <1>0
    <2>3. DOMAIN calls' = 1..Len(calls)
          /\ \A i \in DOMAIN calls' : calls'[i] = c \/ (i \in DOMAIN calls /\ calls'[i] = calls[i])
      BY <2>1, <2>2
    <2>4. calls' \in [1..Len(calls) -> Call]
      BY <2>1, <2>2
    <2>5. calls' \in Seq(Call)
      BY <2>2, <2>4
    <2>6. \A i \in DOMAIN calls' : Priced(calls'[i])
      BY <1>0, <2>1, <2>3
    <2> QED
      BY <2>5, <2>6 DEF PriceInv, Priced
  <1> QED
    BY <1>1, <1>2, <1>3, CallsChange

(* Only the last call of the attempt under way is waited for.              *)
LEMMA WaitingStep ==
    ASSUME IInv, [Next]_vars
    PROVE  WaitingInv'
  <1>0. /\ calls \in Seq(Call) /\ calls' \in Seq(Call)
        /\ \A i \in DOMAIN calls : calls[i].attempt <= Len(attempts[calls[i].position])
        /\ attempts \in [Position -> Seq(State)] /\ attempts' \in [Position -> Seq(State)]
        /\ \A p \in Position : Len(attempts[p]) <= Len(attempts'[p])
    BY PriceStep, AttemptsGrow DEF IInv, TypeInv, WaitingInv
  <1>1. \A c \in Call : /\ c.position \in Position /\ c.attempt \in Nat
                       /\ Len(attempts[c.position]) \in Nat
                       /\ Len(attempts'[c.position]) \in Nat
    BY <1>0, CountAssumption DEF Call
  <1>2. ASSUME NEW c \in Call, c.attempt <= Len(attempts[c.position])
        PROVE  c.attempt <= Len(attempts'[c.position])
    BY <1>0, <1>1, <1>2
  <1>3. CASE UNCHANGED calls /\ (turn' \in Turns => StartAttempt \/ UNCHANGED vars)
    <2>1. \A i \in DOMAIN calls' : calls'[i].attempt <= Len(attempts'[calls'[i].position])
      BY <1>0, <1>2, <1>3
    <2>2. CASE turn' \notin Turns
      BY <2>1, <2>2 DEF WaitingInv
    <2>3. CASE UNCHANGED vars
      BY <2>3 DEF vars, IInv, WaitingInv, OfAttempt, Current, Index, Open
    <2>4. CASE StartAttempt
      <3>1. /\ Open # {} /\ UNCHANGED raw
            /\ attempts' = [attempts EXCEPT ![Current] = Append(@, "started")]
        BY <2>4 DEF StartAttempt
      <3>2. Current \in Position /\ Current' = Current
        BY <3>1, CurrentIsOpen DEF Open, Current
      <3>3. Index' = Len(attempts[Current]) + 1
        BY <1>0, <3>1, <3>2 DEF Index
      <3>4. \A i \in DOMAIN calls :
                calls[i].position = Current => calls[i].attempt < Index'
        BY <1>0, <1>1, <3>2, <3>3
      <3>5. OfAttempt(Current, Index)' = {}
        BY <1>0, <1>1, <1>3, <3>2, <3>3, <3>4 DEF OfAttempt
      <3> QED
        BY <2>1, <3>5 DEF WaitingInv
    <2> QED
      BY <1>3, <2>2, <2>3, <2>4
  <1>4. ASSUME turn \in Turns, ~Waiting, UNCHANGED <<turn, attempts, raw>>,
               NEW c \in Call, c.position = Current, c.attempt = Index,
               calls' = Append(calls, c)
        PROVE  WaitingInv'
    <2>1. /\ DOMAIN calls' = 1..Len(calls') /\ Len(calls') = Len(calls) + 1 /\ Len(calls) \in Nat
          /\ \A i \in DOMAIN calls' :
                (i = Len(calls') /\ calls'[i] = c) \/ (i \in DOMAIN calls /\ calls'[i] = calls[i])
      BY <1>0, <1>4
    <2>2. c.attempt <= Len(attempts[c.position])
      BY <1>1, <1>4 DEF Index
    <2>3. \A i \in DOMAIN calls' : calls'[i].attempt <= Len(attempts'[calls'[i].position])
      BY <1>0, <1>4, <2>1, <2>2
    <2>4. Current' = Current /\ Index' = Index
      BY <1>4 DEF Current, Open, Index
    <2>5. \A i \in OfAttempt(Current, Index) : calls[i].state # "started"
      BY <1>4 DEF Waiting
    <2>6. \A i \in OfAttempt(Current, Index)' : calls'[i].state = "started" => i = Len(calls')
      BY <2>1, <2>4, <2>5 DEF OfAttempt
    <2> QED
      BY <2>3, <2>6 DEF WaitingInv
  <1>5. ASSUME Waiting, UNCHANGED <<attempts, raw>>,
               NEW c, Becomes(c), turn' \in Turns => c.state # "started"
        PROVE  WaitingInv'
    <2>1. /\ c \in Call /\ c.position = Current /\ c.attempt = Index
          /\ calls' = [calls EXCEPT ![Len(calls)] = c]
      BY <1>5 DEF Becomes
    <2>2. /\ DOMAIN calls' = DOMAIN calls
          /\ \A i \in DOMAIN calls' :
                (i = Len(calls) /\ calls'[i] = c) \/ (i \in DOMAIN calls /\ calls'[i] = calls[i])
      BY <1>0, <2>1
    <2>3. c.attempt <= Len(attempts[c.position])
      BY <1>1, <2>1 DEF Index
    <2>4. \A i \in DOMAIN calls' : calls'[i].attempt <= Len(attempts'[calls'[i].position])
      BY <1>0, <1>5, <2>2, <2>3
    <2>5. Current' = Current /\ Index' = Index
      BY <1>5 DEF Current, Open, Index
    <2>6. turn \in Turns /\ \A i \in OfAttempt(Current, Index) : calls[i].state = "started" => i = Len(calls)
      BY <1>5 DEF Waiting, IInv, WaitingInv
    <2>7. Len(calls) \in DOMAIN calls
      BY <1>5, LastWaits
    <2>8. calls'[Len(calls)] = c
      BY <2>1, <2>7
    <2>9. ASSUME turn' \in Turns
          PROVE  \A i \in OfAttempt(Current, Index)' : calls'[i].state # "started"
      BY <1>5, <2>2, <2>5, <2>6, <2>8, <2>9 DEF OfAttempt
    <2> QED
      BY <2>4, <2>9 DEF WaitingInv
  <1> QED
    BY <1>3, <1>4, <1>5, CallsChange

(* The interrupted attempts of a position can be counted.                  *)
LEMMA InterruptedFinite ==
    ASSUME IInv, NEW p \in Position
    PROVE  /\ IsFiniteSet(Interrupted(p)) /\ Cardinality(Interrupted(p)) \in Nat
           /\ DOMAIN attempts[p] = 1..Len(attempts[p]) /\ Len(attempts[p]) \in Nat
           /\ IsFiniteSet(DOMAIN attempts[p])
           /\ Cardinality(DOMAIN attempts[p]) = Len(attempts[p])
  <1>1. attempts[p] \in Seq(State)
    BY DEF IInv, TypeInv
  <1>2. DOMAIN attempts[p] = 1..Len(attempts[p]) /\ Len(attempts[p]) \in Nat
    BY <1>1
  <1> DEFINE n == Len(attempts[p])
  <1>3. IsFiniteSet(1..n) /\ Cardinality(1..n) = n
    <2>1. n \in Nat /\ 1 \in Int
      BY <1>2
    <2> HIDE DEF n
    <2>2. IsFiniteSet(1..n) /\ Cardinality(1..n) = IF 1 > n THEN 0 ELSE n - 1 + 1
      BY <2>1, FS_Interval
    <2> QED
      BY <2>1, <2>2
  <1>4. Interrupted(p) \subseteq 1..n
    BY <1>2 DEF Interrupted
  <1>5. IsFiniteSet(Interrupted(p)) /\ Cardinality(Interrupted(p)) \in Nat
    BY <1>3, <1>4, FS_Subset, FS_CardinalityType
  <1> QED
    BY <1>2, <1>3, <1>5

(* One more interruption, one more attempt that neither failed nor has its *)
(* result.                                                                 *)
LEMMA CrashStep ==
    ASSUME IInv, [Next]_vars
    PROVE  CrashInv'
  <1> DEFINE Bound(q) == crashes + IF turn \in Working /\ q = Current THEN 1 ELSE 0
  <1>0. /\ CrashInv /\ WorkerInv /\ crashes \in Nat
        /\ attempts \in [Position -> Seq(State)] /\ raw \in [Position -> Int]
        /\ \A p \in Position : raw[p] = Nothing \/ raw[p] = Infra =>
              Cardinality(Interrupted(p)) <= Bound(p)
        /\ \A p \in Position : Cardinality(Interrupted(p)) \in Nat
    BY InterruptedFinite, CountAssumption DEF IInv, TypeInv, TypeOK, CrashInv
  <1>1. CASE StartAttempt
    <2>1. /\ Open # {} /\ turn = "next" /\ turn' = "user" /\ UNCHANGED <<raw, crashes>>
          /\ attempts' = [attempts EXCEPT ![Current] = Append(@, "started")]
      BY <1>1 DEF StartAttempt
    <2>2. Current \in Position /\ Current' = Current /\ raw[Current] = Nothing
      BY <2>1, CurrentIsOpen DEF Open, Current
    <2>3. turn \notin Working /\ turn' \in Working
      BY <2>1 DEF Working, Turns
    <2>4. ASSUME NEW p \in Position, p # Current
          PROVE  attempts'[p] = attempts[p] /\ Interrupted(p)' = Interrupted(p)
      BY <1>0, <2>1, <2>2, <2>4 DEF Interrupted
    <2>5. Cardinality(Interrupted(Current)') = Cardinality(Interrupted(Current)) + 1
      <3> DEFINE n == Len(attempts[Current])
                 I == Interrupted(Current)
      <3>1. n \in Nat /\ DOMAIN attempts[Current] = 1..n /\ IsFiniteSet(I)
        BY <2>2, InterruptedFinite
      <3>2. /\ DOMAIN attempts'[Current] = 1..(n + 1) /\ attempts'[Current][n + 1] = "started"
            /\ \A k \in 1..n : attempts'[Current][k] = attempts[Current][k]
        BY <1>0, <2>1, <2>2, <3>1
      <3>3. Interrupted(Current)' = I \cup {n + 1}
        BY <2>2, <3>1, <3>2 DEF Interrupted
      <3>4. n + 1 \notin I
        BY <3>1 DEF Interrupted
      <3> HIDE DEF I, n
      <3>5. Cardinality(I \cup {n + 1}) = Cardinality(I) + 1
        BY <3>1, <3>4, FS_AddElement
      <3> QED
        BY <3>3, <3>5 DEF I
    <2>6. Cardinality(Interrupted(Current)) <= crashes
      BY <1>0, <2>2, <2>3
    <2>7. raw[Current] # Infra
      BY <2>2 DEF Nothing, Infra
    <2>8. ASSUME NEW p \in Position
          PROVE  /\ raw'[p] = Nothing \/ raw'[p] = Infra =>
                       Cardinality(Interrupted(p)') <=
                           crashes' + IF turn' \in Working /\ p = Current' THEN 1 ELSE 0
                 /\ raw'[p] = Infra => Len(attempts'[p]) = Limit
      <3>1. CASE p = Current
        BY <1>0, <2>1, <2>2, <2>3, <2>5, <2>6, <2>7, <3>1
      <3>2. CASE p # Current
        BY <1>0, <2>1, <2>2, <2>3, <2>4, <3>2 DEF CrashInv
      <3> QED
        BY <3>1, <3>2
    <2> QED
      BY <2>8 DEF CrashInv
  <1>2. CASE FailAttempt \/ CompleteAttempt
    <2>1. /\ turn \in Working /\ turn # "save" /\ UNCHANGED <<raw, crashes>>
          /\ turn' \in Working <=> CompleteAttempt
          /\ turn' \in Working <=> turn' # "next"
      BY <1>2 DEF FailAttempt, CompleteAttempt, Working, Turns
    <2>2. /\ Open # {} /\ Index >= 1 /\ attempts[Current][Index] = "started"
      BY <1>0, <2>1 DEF WorkerInv
    <2>3. Current \in Position /\ Current' = Current /\ raw[Current] = Nothing
      BY <2>1, <2>2, CurrentIsOpen DEF Open, Current
    <2> DEFINE s == attempts[Current]
               I == Interrupted(Current)
    <2>4. PICK state : EndAttempt(state) /\ state = IF CompleteAttempt THEN "completed" ELSE "failed"
      BY <1>2 DEF FailAttempt, CompleteAttempt, Turns
    <2>5. attempts' = [attempts EXCEPT ![Current] = [s EXCEPT ![Index] = state]]
      BY <2>4 DEF EndAttempt
    <2>6. ASSUME NEW p \in Position, p # Current
          PROVE  attempts'[p] = attempts[p] /\ Interrupted(p)' = Interrupted(p)
      BY <1>0, <2>3, <2>5, <2>6 DEF Interrupted
    <2>7. Index \in DOMAIN s /\ Index \in I /\ IsFiniteSet(I)
      <3>1. DOMAIN s = 1..Len(s) /\ Len(s) \in Nat /\ IsFiniteSet(I)
        BY <2>3, InterruptedFinite
      <3> QED
        BY <2>2, <3>1 DEF Index, Interrupted
    <2>8. ASSUME NEW p \in Position, p = Current
          PROVE  Interrupted(p)' = IF CompleteAttempt THEN I ELSE I \ {Index}
      <3>1. /\ DOMAIN attempts'[Current] = DOMAIN s /\ attempts'[Current][Index] = state
            /\ \A k \in DOMAIN s : k # Index => attempts'[Current][k] = s[k]
        BY <1>0, <2>3, <2>5, <2>7
      <3> QED
        BY <2>4, <2>7, <2>8, <3>1 DEF Interrupted
    <2>9. /\ Cardinality(I) <= crashes + 1 /\ Cardinality(I) \in Nat
          /\ Cardinality(I \ {Index}) = Cardinality(I) - 1
      <3>1. Cardinality(I) <= crashes + 1 /\ Cardinality(I) \in Nat
        BY <1>0, <2>1, <2>3
      <3> HIDE DEF I
      <3>2. Cardinality(I \ {Index}) = Cardinality(I) - 1
        BY <2>7, FS_RemoveElement
      <3> QED
        BY <3>1, <3>2
    <2> HIDE DEF I
    <2>10. ASSUME NEW p \in Position
           PROVE  /\ raw'[p] = Nothing \/ raw'[p] = Infra =>
                        Cardinality(Interrupted(p)') <=
                            crashes' + IF turn' \in Working /\ p = Current' THEN 1 ELSE 0
                  /\ raw'[p] = Infra => Len(attempts'[p]) = Limit
      <3>1. CASE p = Current
        <4>1. raw'[p] # Infra
          BY <2>1, <2>3, <3>1 DEF Nothing, Infra
        <4>2. CASE CompleteAttempt
          BY <1>0, <2>1, <2>3, <2>8, <2>9, <3>1, <4>1, <4>2
        <4>3. CASE ~CompleteAttempt
          <5>1. Interrupted(p)' = I \ {Index}
            BY <2>8, <3>1, <4>3
          <5>2. turn' \notin Working /\ crashes' = crashes
            BY <2>1, <4>3
          <5>3. Cardinality(Interrupted(p)') <= crashes
            BY <1>0, <2>9, <5>1
          <5> QED
            BY <1>0, <4>1, <5>2, <5>3
        <4> QED
          BY <4>2, <4>3
      <3>2. CASE p # Current
        BY <1>0, <2>1, <2>3, <2>6, <3>2 DEF CrashInv
      <3> QED
        BY <3>1, <3>2
    <2> QED
      BY <2>10 DEF CrashInv
  <1>3. ASSUME UNCHANGED attempts, crashes' \in Nat,
               NEW p \in Position, raw'[p] = raw[p],
               Bound(p) <= crashes' + IF turn' \in Working /\ p = Current' THEN 1 ELSE 0
        PROVE  /\ raw'[p] = Nothing \/ raw'[p] = Infra =>
                     Cardinality(Interrupted(p)') <=
                         crashes' + IF turn' \in Working /\ p = Current' THEN 1 ELSE 0
               /\ raw'[p] = Infra => Len(attempts'[p]) = Limit
    <2>1. Interrupted(p)' = Interrupted(p)
      BY <1>3 DEF Interrupted
    <2>2. Bound(p) \in Nat
      BY <1>0
    <2>3. Len(attempts'[p]) = Len(attempts[p])
      BY <1>3
    <2> HIDE DEF Bound
    <2> QED
      BY <1>0, <1>3, <2>1, <2>2, <2>3 DEF CrashInv
  <1>4. CASE \/ Launch \/ QueueEnds \/ Seal \/ UNCHANGED vars
             \/ StartCall \/ LoseCall \/ Unanswered \/ AgentAnswers \/ AgentRejected
             \/ AgentEmpty \/ UserAnswers \/ RaiseBetweenCalls \/ Crash
    <2>1. UNCHANGED <<attempts, raw>>
      BY <1>4 DEF Launch, QueueEnds, Seal, vars, StartCall, LoseCall, Unanswered, AgentAnswers,
         AgentRejected, AgentEmpty, UserAnswers, RaiseBetweenCalls, Crash
    <2>2. crashes' = crashes \/ crashes' = crashes + 1
      BY <1>4 DEF Launch, QueueEnds, Seal, vars, StartCall, LoseCall, Unanswered, AgentAnswers,
         AgentRejected, AgentEmpty, UserAnswers, RaiseBetweenCalls, Crash
    <2>3. crashes' = crashes => (turn \in Working => turn' \in Working)
      <3>1. CASE Crash
        BY <1>0, <3>1 DEF Crash
      <3>2. CASE Launch \/ QueueEnds \/ Seal \/ UNCHANGED vars
        BY <3>2 DEF Launch, QueueEnds, Seal, vars, Working, Turns
      <3>3. CASE StartCall \/ RaiseBetweenCalls \/ LoseCall \/ Unanswered \/ AgentRejected
        BY <3>3 DEF StartCall, RaiseBetweenCalls, LoseCall, Unanswered, AgentRejected,
           Working, Turns
      <3>4. CASE AgentAnswers \/ AgentEmpty \/ UserAnswers
        BY <3>4 DEF AgentAnswers, AgentEmpty, UserAnswers, AfterEmpty, AfterUser, Working, Turns
      <3> QED
        BY <1>4, <3>1, <3>2, <3>3, <3>4
    <2>4. Current' = Current
      BY <2>1 DEF Current, Open
    <2>5. ASSUME NEW p \in Position
          PROVE  Bound(p) <= crashes' + IF turn' \in Working /\ p = Current' THEN 1 ELSE 0
      BY <1>0, <2>2, <2>3, <2>4
    <2>6. crashes' \in Nat
      BY <1>0, <2>2
    <2> HIDE DEF Bound
    <2> QED
      BY <1>3, <2>1, <2>5, <2>6 DEF CrashInv
  <1>5. CASE GiveUp \/ Save
    <2>1. /\ UNCHANGED <<attempts, crashes>> /\ turn' \notin Working
          /\ turn \in Working => Save
      BY <1>5 DEF GiveUp, Save, Working, Turns
    <2>2. Current \in Position
      BY <1>0, <1>5, CurrentIsOpen DEF GiveUp, Save, WorkerInv, Working
    <2>3. raw' = [raw EXCEPT ![Current] = IF GiveUp THEN Infra ELSE Index]
      BY <1>5 DEF GiveUp, Save
    <2>4. ASSUME NEW p \in Position, p # Current
          PROVE  raw'[p] = raw[p] /\ Bound(p) <= crashes' + 0
      BY <1>0, <2>1, <2>2, <2>3, <2>4
    <2>5. ASSUME NEW p \in Position
          PROVE  /\ raw'[p] = Nothing \/ raw'[p] = Infra =>
                        Cardinality(Interrupted(p)') <=
                            crashes' + IF turn' \in Working /\ p = Current' THEN 1 ELSE 0
                 /\ raw'[p] = Infra => Len(attempts'[p]) = Limit
      <3>1. CASE p # Current
        <4> HIDE DEF Bound
        <4> QED
          BY <1>0, <1>3, <2>1, <2>4, <3>1
      <3>2. CASE p = Current /\ GiveUp
        <4>1. turn = "next" /\ Open # {} /\ Index = Limit
          BY <3>2 DEF GiveUp
        <4>2. raw[p] = Nothing /\ turn \notin Working
          BY <3>2, <4>1, CurrentIsOpen DEF Working, Turns
        <4>3. Cardinality(Interrupted(p)) <= crashes
          BY <1>0, <4>2
        <4>4. Interrupted(p)' = Interrupted(p) /\ Len(attempts'[p]) = Limit
          BY <2>1, <3>2, <4>1 DEF Interrupted, Index
        <4> QED
          BY <2>1, <4>3, <4>4, <1>0
      <3>3. CASE p = Current /\ ~GiveUp
        <4>1. turn \in Working
          BY <1>5, <3>3 DEF Save, Working
        <4>2. Index >= 1 /\ Index \in Nat
          BY <1>0, <2>2, <4>1 DEF WorkerInv, Index
        <4>3. raw'[p] = Index
          BY <1>0, <2>2, <2>3, <3>3
        <4> QED
          BY <4>2, <4>3 DEF Nothing, Infra
      <3> QED
        BY <3>1, <3>2, <3>3
    <2> QED
      BY <2>5 DEF CrashInv
  <1> QED
    BY <1>1, <1>2, <1>4, <1>5 DEF Next, Progress

-----------------------------------------------------------------------------
(* The record.                                                             *)

(* What is known of calls never exceeds their bill, and is the bill of     *)
(* those that are exact.                                                   *)
LEMMA KnownIsBilled ==
    ASSUME IInv, NEW S \in SUBSET DOMAIN calls
    PROVE  /\ IsFiniteSet(DOMAIN calls) /\ IsFiniteSet(S)
           /\ Known(S) \in Nat /\ Bill(S) \in Nat /\ Known(S) <= Bill(S)
           /\ (\A i \in S : calls[i].status = "exact") => Known(S) = Bill(S)
           /\ \A A \in SUBSET S :
                 (\A i \in A : calls[i].state = "completed") => Cardinality(A) <= Bill(S)
           /\ \A A \in SUBSET S : \A B \in SUBSET S :
                 A \cap B = {} =>
                     /\ Known(A \cup B) = Known(A) + Known(B)
                     /\ Bill(A \cup B) = Bill(A) + Bill(B)
  <1>1. calls \in Seq(Call) /\ \A i \in DOMAIN calls : Priced(calls[i])
    BY DEF IInv, TypeInv, PriceInv
  <1>2. IsFiniteSet(DOMAIN calls)
    <2>1. DOMAIN calls = 1..Len(calls) /\ Len(calls) \in Nat
      BY <1>1
    <2> DEFINE n == Len(calls)
    <2>2. n \in Nat /\ 1 \in Int
      BY <2>1
    <2> HIDE DEF n
    <2>3. IsFiniteSet(1..n)
      BY <2>2, FS_Interval
    <2> QED
      BY <2>1, <2>3 DEF n
  <1>3. IsFiniteSet(S)
    BY <1>2, FS_Subset
  <1>4. PICK f, h : /\ f = [i \in DOMAIN calls |-> calls[i].cost]
                    /\ h = [i \in DOMAIN calls |-> calls[i].billed]
    OBVIOUS
  <1>5. \A T : Known(T) = Sum(f, T) /\ Bill(T) = Sum(h, T)
    BY <1>4 DEF Known, Bill, Sum
  <1>6. \A x \in S : f[x] \in Nat /\ h[x] \in Nat /\ f[x] <= h[x]
    <2> TAKE x \in S
    <2>1. calls[x] \in Call /\ Priced(calls[x])
      BY <1>1
    <2> QED
      BY <1>4, <2>1 DEF Call, Priced
  <1>7. \A x \in S : calls[x].status = "exact" => f[x] = h[x]
    BY <1>1, <1>4 DEF Priced
  <1>7a. \A x \in S : calls[x].state = "completed" => h[x] >= 1
    BY <1>1, <1>4 DEF Priced
  <1>8. S \in SUBSET S
    OBVIOUS
  <1>9. Known(S) \in Nat /\ Bill(S) \in Nat /\ Known(S) <= Bill(S)
    <2>1. Sum(f, S) \in Nat
      BY <1>3, <1>6, <1>8, SumType
    <2>2. Sum(h, S) \in Nat
      BY <1>3, <1>6, <1>8, SumType
    <2>3. Sum(f, S) <= Sum(h, S)
      BY <1>3, <1>6, <1>8, SumGrows
    <2> QED
      BY <1>5, <2>1, <2>2, <2>3
  <1>10. ASSUME \A i \in S : calls[i].status = "exact" PROVE Known(S) = Bill(S)
    <2>1. \A x \in S : f[x] \in Nat /\ h[x] = f[x]
      BY <1>6, <1>7, <1>10
    <2>2. Sum(f, S) = Sum(h, S)
      BY <1>3, <1>8, <2>1, SumAgrees
    <2> QED
      BY <1>5, <2>2
  <1>11. ASSUME NEW A \in SUBSET S, \A i \in A : calls[i].state = "completed"
         PROVE  Cardinality(A) <= Bill(S)
    <2>1. \A x \in A : h[x] >= 1
      BY <1>7a, <1>11
    <2>2. Cardinality(A) <= Sum(h, S)
      BY <1>3, <1>6, <2>1, SumCounts
    <2> QED
      BY <1>5, <2>2
  <1>12. ASSUME NEW A \in SUBSET S, NEW B \in SUBSET S, A \cap B = {}
         PROVE  /\ Known(A \cup B) = Known(A) + Known(B)
                /\ Bill(A \cup B) = Bill(A) + Bill(B)
    <2>1. Sum(f, A \cup B) = Sum(f, A) + Sum(f, B)
      BY <1>3, <1>6, <1>12, SumUnion
    <2>2. Sum(h, A \cup B) = Sum(h, A) + Sum(h, B)
      BY <1>3, <1>6, <1>12, SumUnion
    <2> QED
      BY <1>5, <2>1, <2>2
  <1> QED
    BY <1>2, <1>3, <1>9, <1>10, <1>11, <1>12

(* Max of two numbers.                                                     *)
LEMMA LargerOfTwo ==
    ASSUME NEW a \in Nat, NEW b \in Nat
    PROVE  Max({a, b}) \in {a, b} /\ a <= Max({a, b}) /\ b <= Max({a, b})
  <1>1. \E x \in {a, b} : \A y \in {a, b} : x >= y
    <2>1. CASE a >= b
      BY <2>1
    <2>2. CASE b >= a
      BY <2>2
    <2> QED
      BY <2>1, <2>2
  <1>2. Max({a, b}) \in {a, b} /\ \A y \in {a, b} : Max({a, b}) >= y
    BY <1>1 DEF Max
  <1> QED
    BY <1>2

(* The calls a result rests on are in the ledgers.                         *)
LEMMA OwnedCalls ==
    ASSUME NEW positions
    PROVE  Owned(positions) \in SUBSET DOMAIN calls
  BY DEF Owned, Own, OfAttempt

(* The total lies between what the ledgers know and what was billed.       *)
LEMMA TotalBounds ==
    ASSUME IInv
    PROVE  /\ LowerBound \in Nat /\ Known(DOMAIN calls) <= LowerBound
           /\ DisplayPrice <= 1 => LowerBound <= Bill(DOMAIN calls)
  <1>1. PICK D, A, U : D = DOMAIN calls /\ A = On("agent", D) /\ U = On("user", D)
    OBVIOUS
  <1>2. D \in SUBSET D /\ A \in SUBSET D /\ U \in SUBSET D /\ A \cap U = {} /\ A \cup U = D
    <2>1. \A i \in D : calls[i].channel = "agent" \/ calls[i].channel = "user"
      BY <1>1 DEF IInv, TypeInv, TypeOK, Call, Channel
    <2> QED
      BY <1>1, <2>1 DEF On
  <1>3. /\ Known(D) = Known(A) + Known(U) /\ Bill(D) = Bill(A) + Bill(U)
        /\ Known(A) \in Nat /\ Known(U) \in Nat /\ Bill(A) \in Nat /\ Bill(U) \in Nat
        /\ Known(A) <= Bill(A) /\ Known(U) <= Bill(U)
    <2>1. Known(A \cup U) = Known(A) + Known(U) /\ Bill(A \cup U) = Bill(A) + Bill(U)
      <3>1. DOMAIN calls \in SUBSET DOMAIN calls
        OBVIOUS
      <3>2. \A S \in SUBSET DOMAIN calls : \A T \in SUBSET DOMAIN calls :
                S \cap T = {} => /\ Known(S \cup T) = Known(S) + Known(T)
                                /\ Bill(S \cup T) = Bill(S) + Bill(T)
        <4> TAKE S \in SUBSET DOMAIN calls
        <4> TAKE T \in SUBSET DOMAIN calls
        <4> HAVE S \cap T = {}
        <4> QED
          BY <3>1, KnownIsBilled
      <3> QED
        BY <1>1, <1>2, <3>2
    <2>2. Known(A) \in Nat /\ Bill(A) \in Nat /\ Known(A) <= Bill(A)
      BY <1>1, <1>2, KnownIsBilled
    <2>3. Known(U) \in Nat /\ Bill(U) \in Nat /\ Known(U) <= Bill(U)
      BY <1>1, <1>2, KnownIsBilled
    <2> QED
      BY <1>2, <2>1, <2>2, <2>3
  <1>4. PICK E : E = {i \in On("user", Owned(Valid)) : calls[i].state = "completed"}
    OBVIOUS
  <1>5. Cardinality(E) \in Nat /\ Cardinality(E) <= Bill(U)
    <2>1. E \in SUBSET U /\ \A i \in E : calls[i].state = "completed"
      <3>1. Owned(Valid) \in SUBSET D
        BY <1>1, OwnedCalls
      <3> QED
        BY <1>1, <1>4, <3>1 DEF On
    <2>2. Cardinality(E) <= Bill(U) /\ IsFiniteSet(U)
      BY <1>1, <1>2, <2>1, KnownIsBilled
    <2> QED
      BY <2>1, <2>2, FS_Subset, FS_CardinalityType
  <1>6. Displayed = DisplayPrice * Cardinality(E) /\ DisplayPrice \in Nat
    BY <1>4, CountAssumption DEF Displayed
  <1>7. PICK n : n = Cardinality(E)
    OBVIOUS
  <1>8. Displayed \in Nat /\ (DisplayPrice <= 1 => Displayed <= Bill(U))
    <2>1. n \in Nat /\ n <= Bill(U) /\ Displayed = DisplayPrice * n
      BY <1>5, <1>6, <1>7
    <2>2. DisplayPrice * n \in Nat
      BY <1>6, <2>1
    <2>3. CASE DisplayPrice = 0
      BY <1>3, <2>1, <2>3
    <2>4. CASE DisplayPrice = 1
      BY <1>3, <2>1, <2>4
    <2>5. DisplayPrice <= 1 => DisplayPrice = 0 \/ DisplayPrice = 1
      BY <1>6
    <2> QED
      BY <2>1, <2>2, <2>3, <2>4, <2>5
  <1>9. PICK x, y : x = Known(U) /\ y = Displayed
    OBVIOUS
  <1>10. Max({x, y}) \in {x, y} /\ x <= Max({x, y})
    <2>1. x \in Nat /\ y \in Nat
      BY <1>3, <1>8, <1>9
    <2> QED
      BY <2>1, LargerOfTwo
  <1>11. LowerBound = Known(A) + Max({x, y})
    BY <1>1, <1>9 DEF LowerBound
  <1>12. LowerBound \in Nat /\ Known(D) <= LowerBound
    BY <1>3, <1>8, <1>9, <1>10, <1>11
  <1>13. ASSUME DisplayPrice <= 1 PROVE LowerBound <= Bill(D)
    BY <1>3, <1>8, <1>9, <1>10, <1>11, <1>13
  <1> QED
    BY <1>1, <1>12, <1>13

(* The record has its type.                                                *)
LEMMA RecordTyped ==
    ASSUME IInv
    PROVE  Accounting \in [valid : Nat, total : Nat, unresolved : Nat, uncertain : Nat,
                           validStatus : {"exact", "partial", "unavailable"},
                           status : {"exact", "partial", "unavailable"}]
  <1>1. Known(Owned(Valid)) \in Nat
    BY OwnedCalls, KnownIsBilled
  <1>2. LowerBound \in Nat
    BY TotalBounds
  <1>3. \A A \in SUBSET DOMAIN calls : Cardinality(A) \in Nat
    <2>1. IsFiniteSet(DOMAIN calls)
      <3>1. DOMAIN calls \in SUBSET DOMAIN calls
        OBVIOUS
      <3> QED
        BY <3>1, KnownIsBilled
    <2> QED
      BY <2>1, FS_Subset, FS_CardinalityType
  <1>4. /\ Unresolved \in SUBSET DOMAIN calls
        /\ {i \in DOMAIN calls : calls[i].status \in {"partial", "unavailable"}}
                \in SUBSET DOMAIN calls
    BY DEF Unresolved
  <1>5. /\ Cardinality(Unresolved) \in Nat
        /\ Cardinality({i \in DOMAIN calls : calls[i].status \in {"partial", "unavailable"}}) \in Nat
    BY <1>3, <1>4
  <1>6. \A e, k : Grade(e, k) \in {"exact", "partial", "unavailable"}
    BY DEF Grade
  <1> QED
    BY <1>1, <1>2, <1>5, <1>6 DEF Accounting

(* The record is sealed last, and nothing it tells of changes.             *)
LEMMA AccountStep ==
    ASSUME IInv, [Next]_vars
    PROVE  AccountInv'
  <1>1. CASE Seal
    <2>1. account' = IF HasLineage THEN Accounting ELSE Refused
      BY <1>1 DEF Seal
    <2>2. UNCHANGED <<attempts, raw>> /\ UNCHANGED calls
      BY <1>1 DEF Seal
    <2>3. HasLineage' = HasLineage /\ Accounting' = Accounting
      BY <2>2 DEF HasLineage, Accounting, Retained, Valid, FailedAttempts, Owned, Own, OfAttempt,
         Lineage, On, Known, IsExact, AreExact, Displayed, LowerBound, Unresolved
    <2> QED
      BY <2>1, <2>3 DEF AccountInv
  <1>2. CASE UNCHANGED vars
    <2>1. HasLineage' = HasLineage /\ Accounting' = Accounting
      BY <1>2 DEF vars, HasLineage, Accounting, Retained, Valid, FailedAttempts, Owned, Own,
         OfAttempt, Lineage, On, Known, IsExact, AreExact, Displayed, LowerBound, Unresolved
    <2> QED
      BY <1>2, <2>1 DEF vars, IInv, AccountInv
  <1>3. CASE [Next]_vars /\ ~Seal /\ ~UNCHANGED vars
    <2>1. account' = account
      BY <1>3 DEF Next, Progress, Launch, StartAttempt, FailAttempt, GiveUp, Save, QueueEnds,
         StartCall, LoseCall, Unanswered, AgentAnswers, AgentRejected, AgentEmpty, UserAnswers,
         RaiseBetweenCalls, CompleteAttempt, Crash
    <2>2. account = Unsealed
      <3>1. turn # "done" \/ account = Unsealed
        BY <1>3 DEF Next, Progress, Launch, StartAttempt, FailAttempt, GiveUp, Save, QueueEnds,
           StartCall, LoseCall, Unanswered, AgentAnswers, AgentRejected, AgentEmpty, UserAnswers,
           RaiseBetweenCalls, CompleteAttempt, Crash, Waiting, Turns
      <3> QED
        BY <3>1 DEF IInv, WorkerInv
    <2> QED
      BY <2>1, <2>2 DEF AccountInv
  <1> QED
    BY <1>1, <1>2, <1>3

(* Types.                                                                  *)
LEMMA TypeStep ==
    ASSUME IInv, [Next]_vars
    PROVE  TypeInv'
  <1>0. /\ raw \in [Position -> Int]
        /\ \A p \in Position : raw[p] \in {Infra, Nothing} \cup DOMAIN attempts[p]
        /\ attempts \in [Position -> Seq(State)] /\ attempts' \in [Position -> Seq(State)]
        /\ \A p \in Position : Len(attempts[p]) <= Len(attempts'[p]) /\ Len(attempts'[p]) <= Limit
        /\ calls' \in Seq(Call)
    BY AttemptsGrow, PriceStep DEF IInv, TypeInv, TypeOK
  <1>1. raw' = raw \/ (Current \in Position /\ UNCHANGED attempts
                         /\ \E r \in {Infra} \cup DOMAIN attempts[Current] :
                                raw' = [raw EXCEPT ![Current] = r])
    <2>1. CASE GiveUp \/ Save
      <3>1. Open # {} /\ (Save => Index >= 1)
        BY <2>1 DEF GiveUp, Save, IInv, WorkerInv, Working
      <3>2. Current \in Position
        BY <3>1, CurrentIsOpen
      <3>3. Save => Index \in DOMAIN attempts[Current]
        BY <1>0, <3>1, <3>2 DEF Index
      <3> QED
        BY <2>1, <3>2, <3>3 DEF GiveUp, Save
    <2>2. CASE [Next]_vars /\ ~GiveUp /\ ~Save
      BY <2>2 DEF Next, Progress, Launch, StartAttempt, FailAttempt, QueueEnds, StartCall,
         LoseCall, Unanswered, AgentAnswers, AgentRejected, AgentEmpty, UserAnswers,
         RaiseBetweenCalls, CompleteAttempt, Seal, Crash, vars
    <2> QED
      BY <2>1, <2>2
  <1>2. \A p \in Position : DOMAIN attempts[p] \subseteq DOMAIN attempts'[p]
    <2> TAKE p \in Position
    <2>1. /\ attempts[p] \in Seq(State) /\ attempts'[p] \in Seq(State)
          /\ Len(attempts[p]) <= Len(attempts'[p])
      BY <1>0
    <2> QED
      BY <2>1
  <1>3. /\ raw' \in [Position -> Int]
        /\ \A p \in Position : raw'[p] \in {Infra, Nothing} \cup DOMAIN attempts'[p]
    <2>1. CASE raw' = raw
      BY <1>0, <1>2, <2>1
    <2>2. ASSUME Current \in Position, UNCHANGED attempts,
                 NEW r \in {Infra} \cup DOMAIN attempts[Current],
                 raw' = [raw EXCEPT ![Current] = r]
          PROVE  /\ raw' \in [Position -> Int]
                 /\ \A p \in Position : raw'[p] \in {Infra, Nothing} \cup DOMAIN attempts'[p]
      <3>1. attempts[Current] \in Seq(State)
        BY <1>0, <2>2
      <3>2. r \in Int
        BY <3>1 DEF Infra
      <3> QED
        BY <1>0, <2>2, <3>2
    <2> QED
      BY <1>1, <2>1, <2>2
  <1>4. /\ stopped' \in BOOLEAN
        /\ turn' \in Turns \cup {"idle", "next", "raise", "save", "done"}
        /\ troubles' \in 0..MaxTroubles /\ crashes' \in 0..MaxCrashes
    <2>0. /\ stopped \in BOOLEAN /\ turn \in Turns \cup {"idle", "next", "raise", "save", "done"}
          /\ troubles \in 0..MaxTroubles /\ crashes \in 0..MaxCrashes
      BY DEF IInv, TypeInv, TypeOK
    <2>1. CASE \/ Launch \/ StartAttempt \/ FailAttempt \/ GiveUp \/ Save \/ QueueEnds
               \/ Seal \/ UNCHANGED vars
      BY <2>0, <2>1 DEF Launch, StartAttempt, FailAttempt, GiveUp, Save, QueueEnds, Seal, vars, Turns
    <2>2. CASE \/ StartCall \/ LoseCall \/ Unanswered \/ RaiseBetweenCalls \/ CompleteAttempt
               \/ AgentAnswers \/ AgentRejected \/ AgentEmpty \/ UserAnswers \/ Crash
      <3>1. /\ stopped' = stopped
            /\ troubles' = troubles \/ Trouble
            /\ crashes' = crashes \/ (crashes < MaxCrashes /\ crashes' = crashes + 1)
        BY <2>2 DEF StartCall, LoseCall, Unanswered, RaiseBetweenCalls, CompleteAttempt,
           AgentAnswers, AgentRejected, AgentEmpty, UserAnswers, Crash
      <3>2. turn' \in Turns \cup {"idle", "next", "raise", "save", "done"}
        <4>1. CASE StartCall \/ LoseCall \/ Unanswered \/ RaiseBetweenCalls \/ CompleteAttempt \/ Crash
          BY <2>0, <4>1 DEF StartCall, LoseCall, Unanswered, RaiseBetweenCalls, CompleteAttempt, Crash
        <4>2. CASE AgentAnswers \/ AgentRejected \/ AgentEmpty \/ UserAnswers
          BY <4>2 DEF AgentAnswers, AgentRejected, AgentEmpty, UserAnswers, Turns, AfterEmpty, AfterUser
        <4> QED
          BY <2>2, <4>1, <4>2
      <3>3. troubles' \in 0..MaxTroubles
        BY <2>0, <3>1, CountAssumption DEF Trouble
      <3>4. crashes' \in 0..MaxCrashes
        BY <2>0, <3>1, CountAssumption
      <3> QED
        BY <2>0, <3>1, <3>2, <3>3, <3>4
    <2> QED
      BY <2>1, <2>2 DEF Next, Progress
  <1>5. account' = account \/ account' = Refused \/ account' = Accounting
    BY DEF Next, Progress, Launch, StartAttempt, FailAttempt, GiveUp, Save, QueueEnds,
       StartCall, LoseCall, Unanswered, AgentAnswers, AgentRejected, AgentEmpty, UserAnswers,
       RaiseBetweenCalls, CompleteAttempt, Crash, Seal, vars
  <1>6. account' \in {Unsealed, Refused}
           \cup [valid : Nat, total : Nat, unresolved : Nat, uncertain : Nat,
                 validStatus : {"exact", "partial", "unavailable"},
                 status : {"exact", "partial", "unavailable"}]
    BY <1>5, RecordTyped DEF IInv, TypeInv, TypeOK
  <1>7. \A p \in Position :
            \A k \in DOMAIN attempts'[p] : attempts'[p][k] \in {"started", "failed", "completed"}
    BY <1>0 DEF State
  <1>8. \A i \in DOMAIN calls' : calls'[i] \in Call
    BY <1>0
  <1> QED
    BY <1>0, <1>3, <1>4, <1>6, <1>7, <1>8 DEF TypeInv, TypeOK, Call

(* Nothing is attempted, paid or sealed.                                   *)
LEMMA InitIInv == Init => IInv
  <1> SUFFICES ASSUME Init PROVE IInv
    OBVIOUS
  <1>1. calls = <<>> /\ DOMAIN calls = {} /\ calls \in Seq(Call)
    BY DEF Init
  <1>2. /\ attempts \in [Position -> Seq(State)] /\ raw \in [Position -> Int]
        /\ \A p \in Position : attempts[p] = <<>> /\ raw[p] = Nothing /\ Len(attempts[p]) = 0
    BY DEF Init, Nothing
  <1>3. turn = "idle" /\ account = Unsealed /\ crashes = 0 /\ troubles = 0 /\ stopped = FALSE
    BY DEF Init
  <1>4. turn \notin Turns /\ turn \notin Working
    BY <1>3 DEF Turns, Working
  <1>5. TypeInv
    <2>1. \A p \in Position : DOMAIN attempts[p] = {}
      BY <1>2
    <2>2. turn \in Turns \cup {"idle", "next", "raise", "save", "done"} /\ stopped \in BOOLEAN
      BY <1>3
    <2>3. troubles \in 0..MaxTroubles /\ crashes \in 0..MaxCrashes /\ 0 <= Limit
      BY <1>3, CountAssumption
    <2>4. \A p \in Position :
              /\ Len(attempts[p]) <= Limit /\ raw[p] \in {Infra, Nothing} \cup DOMAIN attempts[p]
              /\ \A k \in DOMAIN attempts[p] : attempts[p][k] \in {"started", "failed", "completed"}
      BY <1>2, <2>1, <2>3
    <2>5. \A i \in DOMAIN calls : calls[i] \in Call
      BY <1>1
    <2> QED
      BY <1>1, <1>2, <1>3, <2>2, <2>3, <2>4, <2>5 DEF TypeInv, TypeOK
  <1>6. WorkerInv /\ WaitingInv /\ PriceInv /\ AccountInv
    BY <1>1, <1>3, <1>4 DEF WorkerInv, WaitingInv, PriceInv, AccountInv
  <1>7. CrashInv
    <2>1. \A p \in Position : Interrupted(p) = {} /\ raw[p] # Infra
      BY <1>2 DEF Interrupted, Nothing, Infra
    <2>2. Cardinality({}) = 0
      BY FS_EmptySet
    <2>3. \A p \in Position : Cardinality(Interrupted(p)) = 0
      BY <2>1, <2>2
    <2> QED
      BY <1>3, <1>4, <2>1, <2>3 DEF CrashInv
  <1> QED
    BY <1>5, <1>6, <1>7 DEF IInv

(* The inductive invariant, for any number of positions, attempts, calls   *)
(* and troubles, and any number of deaths of the process at any step.      *)
THEOREM Invariant == Spec => []IInv
  <1>1. IInv /\ [Next]_vars => IInv'
    BY TypeStep, WorkerStep, WaitingStep, PriceStep, CrashStep, AccountStep DEF IInv
  <1> QED
    BY InitIInv, <1>1, PTL DEF Spec

(* Every variable keeps its type.                                          *)
THEOREM TypeCorrect == Spec => []TypeOK
  <1>1. IInv => TypeOK
    BY DEF IInv, TypeInv
  <1> QED
    BY Invariant, <1>1, PTL

(* Complete evidence is priced with what it was billed, to the unit        *)
(* (valid_cost_status; batch.py, hold reasons), and "exact" is true of the *)
(* retained attempts (ledger.py:785-798).                                  *)
THEOREM CompleteStaysPriced == Spec => []CompleteIsPriced
  <1>1. ASSUME IInv, Sealed PROVE account = Accounting
    BY <1>1 DEF IInv, AccountInv, Sealed
  <1>2. ASSUME IInv, NEW positions, AreExact(positions)
        PROVE  Known(Owned(positions)) = Bill(Owned(positions))
    <2>1. \A i \in DOMAIN calls : calls[i].channel \in Channel
      BY <1>2 DEF IInv, TypeInv, TypeOK, Call
    <2>2. \A i \in Owned(positions) : calls[i].status = "exact"
      <3> TAKE i \in Owned(positions)
      <3>1. PICK p \in positions : i \in Own(p)
        BY DEF Owned
      <3>2. i \in On(calls[i].channel, Own(p)) /\ calls[i].channel \in Channel
        BY <2>1, <3>1 DEF On, Own, OfAttempt
      <3> QED
        BY <1>2, <3>2 DEF AreExact, IsExact
    <2> QED
      BY <1>2, <2>2, OwnedCalls, KnownIsBilled
  <1>3. \A e, k : Grade(e, k) = "exact" => e
    BY DEF Grade
  <1>4. ASSUME IInv PROVE CompleteIsPriced
    <2> SUFFICES ASSUME Sealed
                 PROVE  /\ Holds \/ account.valid = Bill(Owned(Position))
                        /\ account.status = "exact" =>
                              Known(Owned(Retained)) = Bill(Owned(Retained))
      BY DEF CompleteIsPriced
    <2>1. account = Accounting
      BY <1>1, <1>4
    <2>2. /\ account.valid = Known(Owned(Valid))
          /\ account.validStatus = Grade(AreExact(Valid), Known(Owned(Valid)))
          /\ account.status = Grade(AreExact(Retained), LowerBound)
      BY <2>1 DEF Accounting
    <2>3. CASE ~Holds
      <3>1. Valid = Position /\ AreExact(Valid)
        BY <1>3, <2>2, <2>3 DEF Holds
      <3> QED
        BY <1>2, <1>3, <1>4, <2>2, <3>1
    <2> QED
      BY <1>2, <1>3, <1>4, <2>2, <2>3
  <1> QED
    BY Invariant, <1>4, PTL

(* The total is what was billed at most, and less only if the record says  *)
(* that something is open or uncertain (total_cost_lower_bound_usd).       *)
THEOREM TotalStaysBelow == Spec => []TotalIsLowerBound
  <1>1. ASSUME IInv PROVE TotalIsLowerBound
    <2> SUFFICES ASSUME Sealed
                 PROVE  /\ DisplayPrice <= 1 => account.total <= Bill(DOMAIN calls)
                        /\ account.total < Bill(DOMAIN calls) =>
                              account.unresolved + account.uncertain > 0
      BY DEF TotalIsLowerBound
    <2> DEFINE D == DOMAIN calls
               open == Unresolved
               unsure == {i \in DOMAIN calls : calls[i].status \in {"partial", "unavailable"}}
    <2>1. account = Accounting
      BY <1>1 DEF IInv, AccountInv, Sealed
    <2>2. /\ account.total = LowerBound /\ account.unresolved = Cardinality(open)
          /\ account.uncertain = Cardinality(unsure)
      BY <2>1 DEF Accounting
    <2>3. /\ LowerBound \in Nat /\ Known(D) <= LowerBound
          /\ DisplayPrice <= 1 => LowerBound <= Bill(D)
      BY <1>1, TotalBounds
    <2>4. D \in SUBSET D /\ open \in SUBSET D /\ unsure \in SUBSET D
      BY DEF Unresolved
    <2>5. /\ IsFiniteSet(open) /\ IsFiniteSet(unsure)
          /\ Known(D) \in Nat /\ Bill(D) \in Nat
          /\ (\A i \in D : calls[i].status = "exact") => Known(D) = Bill(D)
      BY <1>1, <2>4, KnownIsBilled, FS_Subset
    <2>6. ASSUME LowerBound < Bill(D)
          PROVE  Cardinality(open) + Cardinality(unsure) > 0
      <3>1. \E i \in D : calls[i].status # "exact"
        BY <2>3, <2>5, <2>6
      <3>2. \A i \in D : calls[i].status \in {"pending", "exact", "partial", "unavailable"}
        BY <1>1 DEF IInv, TypeInv, TypeOK, Call
      <3>3. open # {} \/ unsure # {}
        BY <3>1, <3>2 DEF Unresolved
      <3> HIDE DEF unsure, D
      <3>4. /\ Cardinality(open) \in Nat /\ Cardinality(unsure) \in Nat
            /\ Cardinality(open) = 0 => open = {}
            /\ Cardinality(unsure) = 0 => unsure = {}
        BY <2>5, FS_CardinalityType, FS_EmptySet
      <3> QED
        BY <3>3, <3>4
    <2> QED
      BY <2>2, <2>3, <2>6
  <1> QED
    BY Invariant, <1>1, PTL

(* The costs cannot be sealed only after as many interruptions as a        *)
(* position has attempts ("no completed task-attempt lineage").            *)
THEOREM SealNeedsCrashes == Spec => []SealNeedsFewCrashes
  <1>1. ASSUME IInv PROVE SealNeedsFewCrashes
    <2> SUFFICES ASSUME account = Refused PROVE crashes >= Limit
      BY DEF SealNeedsFewCrashes
    <2>1. account # Unsealed
      BY DEF Refused, Unsealed
    <2>2. turn \notin Working
      BY <1>1, <2>1 DEF IInv, WorkerInv
    <2>3. ~HasLineage
      <3>1. Accounting # Refused
        BY DEF Accounting, Refused
      <3> QED
        BY <1>1, <2>1, <3>1 DEF IInv, AccountInv
    <2>4. PICK p \in Position : raw[p] = Infra /\ FailedAttempts(p) = {}
      BY <2>3 DEF HasLineage, Retained
    <2>5. /\ Cardinality(Interrupted(p)) <= crashes + 0 /\ Len(attempts[p]) = Limit
      BY <1>1, <2>2, <2>4 DEF IInv, CrashInv
    <2>6. Interrupted(p) = DOMAIN attempts[p]
      BY <2>4 DEF Interrupted, FailedAttempts
    <2>7. Cardinality(Interrupted(p)) = Limit
      BY <1>1, <2>5, <2>6, InterruptedFinite
    <2>8. crashes \in Nat
      BY <1>1, CountAssumption DEF IInv, TypeInv, TypeOK
    <2> QED
      BY <2>5, <2>7, <2>8, CountAssumption
  <1> QED
    BY Invariant, <1>1, PTL
=============================================================================
