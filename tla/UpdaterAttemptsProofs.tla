----------------------- MODULE UpdaterAttemptsProofs -----------------------
(***************************************************************************)
(* Why a candidate never comes from an attempt of which anything is open,  *)
(* for any number of attempts, calls and requests, any interleaving of the *)
(* process with the request threads, and death at any point.  The counts   *)
(* are read when the server accepts nothing any more, so a request that is *)
(* not pending then stays as it is, and one whose usage was found then is  *)
(* settled for good.  And why a cost reported as exact is the whole bill:  *)
(* the usage found then adds up to what the requests of the attempt cost,  *)
(* and no request of an attempt that was accounted for costs any more.     *)
(***************************************************************************)
EXTENDS UpdaterAttempts, TLAPS, FiniteSetTheorems, SequenceTheorems, WellFoundedInduction

Stages == {"sent", "accepted", "refused", "forwarded", "recorded", "done"}
Call == [state : {"open", "completed", "failed"}, tries : Nat, usage : Nat]
Request == [attempt : Nat, call : Nat, at : Stages, bill : Nat, got : Nat]

\* usage is found in a response that was billed, and only there; what was not
\* forwarded is not billed
Truthful(r) ==
    /\ r.got # 0 => r.got = r.bill /\ r.at \in {"recorded", "done"}
    /\ r.bill # 0 => r.at \in {"forwarded", "recorded", "done"}

Sequence(s) ==
    /\ Len(s) \in Nat /\ DOMAIN s = 1..Len(s)
    /\ s = [i \in DOMAIN s |-> s[i]]

DataInv ==
    /\ Sequence(attempts) /\ \A a \in DOMAIN attempts : "disk" \in DOMAIN attempts[a]
    /\ calls \in Seq(Call)
    /\ req \in Seq(Request) /\ \A i \in DOMAIN req : Truthful(req[i])

\* what is known of the requests of an attempt: none waits at the port, none is
\* in the hands of a thread, each is refused or fully accounted for
Shut(a) == \A i \in DOMAIN req : req[i].attempt = a => req[i].at # "sent"
Quiet(a) == \A i \in DOMAIN req : req[i].attempt = a => req[i].at \in {"refused", "done"}
Settled(a) ==
    \A i \in DOMAIN req :
        req[i].attempt = a => req[i].at = "refused" \/ (req[i].at = "done" /\ req[i].got # 0)

UnderWay == {"launch", "running", "closing", "closed", "counted", "sealing"}

PhaseInv ==
    /\ pc \in {"made"} \union UnderWay =>
          Attempt >= 1 /\ attempts[Attempt].disk # "terminal"
    /\ pc \in {"closed", "counted", "sealing"} => Shut(Attempt)
    /\ pc \in {"counted", "sealing"} /\ count.pending = 0 => Quiet(Attempt)
    /\ pc = "sealing" /\ count.pending = 0 /\ usage # Unknown => Settled(Attempt)

SealedInv ==
    \A a \in DOMAIN attempts :
        attempts[a].disk = "terminal" /\ attempts[a].exit = "ok" =>
            attempts[a].status = "exact" /\ attempts[a].unresolved = 0 /\ Settled(a)

UpdaterInv == DataInv /\ PhaseInv /\ SealedInv

-----------------------------------------------------------------------------
(* Sums.                                                                   *)

(* A set of numbers that holds 0 and with a number the next holds them all.*)
LEMMA Induction ==
    ASSUME NEW S \in SUBSET Nat, 0 \in S, \A n \in S : n + 1 \in S
    PROVE  S = Nat
  <1> DEFINE T == Nat \ S
             R == OpToRel(<, Nat)
  <1> SUFFICES ASSUME T # {} PROVE FALSE
    OBVIOUS
  <1>1. IsWellFoundedOn(R, Nat)
    BY NatLessThanWellFounded
  <1>2. T \subseteq Nat /\ T # {}
    OBVIOUS
  <1>3. PICK x \in T : \A y \in T : ~ (<<y, x>> \in R)
    BY <1>1, <1>2, WFMin
  <1>4. x # 0 /\ x - 1 \in Nat /\ <<x - 1, x>> \in R
    BY <1>3 DEF OpToRel
  <1>5. x - 1 \in S
    BY <1>3, <1>4
  <1>6. x \in Nat /\ x \notin S
    BY <1>3
  <1> HIDE DEF T, R
  <1>7. (x - 1) + 1 = x
    BY <1>6
  <1> QED
    BY <1>5, <1>6, <1>7

Pick(s) == CHOOSE x \in s : TRUE

(* How a sum goes through the subsets of S.                                *)
Adds(g, f, S) ==
    g = [s \in SUBSET S |-> IF s = {} THEN 0 ELSE f[Pick(s)] + g[s \ {Pick(s)}]]

(* The subsets with at most n elements.                                    *)
Small(S, n) == {s \in SUBSET S : Cardinality(s) <= n}

(* Taking the picked element out of a finite set leaves one less.          *)
LEMMA Picking ==
    ASSUME NEW S, IsFiniteSet(S), NEW s \in SUBSET S, s # {}
    PROVE  /\ Pick(s) \in s /\ s \ {Pick(s)} \in SUBSET S
           /\ Cardinality(s) \in Nat /\ Cardinality(s \ {Pick(s)}) \in Nat
           /\ Cardinality(s) = Cardinality(s \ {Pick(s)}) + 1
  <1>1. Pick(s) \in s
    BY DEF Pick
  <1>2. IsFiniteSet(s)
    BY FS_Subset
  <1> DEFINE t == s \ {Pick(s)}
  <1>3. IsFiniteSet(t) /\ t \in SUBSET S
    BY <1>2, FS_Subset
  <1>4. Cardinality(t) = Cardinality(s) - 1
    BY <1>1, <1>2, FS_RemoveElement
  <1>5. Cardinality(s) \in Nat /\ Cardinality(t) \in Nat
    BY <1>2, <1>3, FS_CardinalityType
  <1> QED
    BY <1>1, <1>3, <1>4, <1>5

(* There is such a function, built up by the size of the subsets.          *)
LEMMA AddsExists ==
    ASSUME NEW f, NEW S, IsFiniteSet(S)
    PROVE  \E g : Adds(g, f, S)
  <1> DEFINE Fits(g, n) ==
               g = [s \in Small(S, n) |-> IF s = {} THEN 0 ELSE f[Pick(s)] + g[s \ {Pick(s)}]]
             N == {n \in Nat : \E g : Fits(g, n)}
  <1>0. \A s \in SUBSET S : IsFiniteSet(s) /\ Cardinality(s) \in Nat
    BY FS_Subset, FS_CardinalityType
  <1>1. 0 \in N
    <2> DEFINE g == [s \in Small(S, 0) |-> 0]
    <2>1. \A s \in Small(S, 0) : s = {}
      BY <1>0, FS_EmptySet DEF Small
    <2>2. Fits(g, 0)
      BY <2>1
    <2> HIDE DEF g, Fits
    <2>3. \E h : Fits(h, 0)
      BY <2>2
    <2> QED
      BY <2>3
  <1>2. ASSUME NEW n \in N PROVE n + 1 \in N
    <2>1. PICK g : Fits(g, n)
      OBVIOUS
    <2> DEFINE h == [s \in Small(S, n + 1) |->
                        IF s = {} THEN 0 ELSE f[Pick(s)] + g[s \ {Pick(s)}]]
    <2>2. \A s \in Small(S, n) : s \in Small(S, n + 1) /\ h[s] = g[s]
      <3>1. \A s \in Small(S, n) : s \in Small(S, n + 1)
        BY <1>0 DEF Small
      <3>2. \A s \in Small(S, n) : g[s] = IF s = {} THEN 0 ELSE f[Pick(s)] + g[s \ {Pick(s)}]
        BY <2>1
      <3> QED
        BY <3>1, <3>2
    <2>3. \A s \in Small(S, n + 1) : s # {} => s \ {Pick(s)} \in Small(S, n)
      BY Picking DEF Small
    <2>4. Fits(h, n + 1)
      <3> DEFINE k == [s \in Small(S, n + 1) |->
                        IF s = {} THEN 0 ELSE f[Pick(s)] + h[s \ {Pick(s)}]]
      <3>1. \A s \in Small(S, n + 1) : h[s] = k[s]
        <4> TAKE s \in Small(S, n + 1)
        <4>1. CASE s = {}
          BY <4>1
        <4>2. CASE s # {}
          <5>1. h[s \ {Pick(s)}] = g[s \ {Pick(s)}]
            BY <4>2, <2>2, <2>3
          <5> QED
            BY <4>2, <5>1
        <4> QED
          BY <4>1, <4>2
      <3>2. h = k
        BY <3>1
      <3> QED
        BY <3>2
    <2> HIDE DEF h, Fits
    <2>5. \E e : Fits(e, n + 1)
      BY <2>4
    <2> QED
      BY <2>5
  <1>3. \A n \in Nat : \E g : Fits(g, n)
    <2> HIDE DEF Fits
    <2>1. N \in SUBSET Nat
      OBVIOUS
    <2> HIDE DEF N
    <2>2. N = Nat
      BY ONLY <1>1, <1>2, <2>1, Induction
    <2> QED
      BY <2>2 DEF N
  <1>4. PICK g : Fits(g, Cardinality(S))
    <2> HIDE DEF Fits, N
    <2> QED
      BY <1>0, <1>3
  <1>5. Small(S, Cardinality(S)) = SUBSET S
    BY FS_Subset DEF Small
  <1>6. Adds(g, f, S)
    BY <1>4, <1>5 DEF Adds
  <1> QED
    BY <1>6

(* All that are such functions agree, on whatever sets.                    *)
LEMMA AddsUnique ==
    ASSUME NEW f, NEW S, IsFiniteSet(S), NEW T \in SUBSET S,
           NEW g, Adds(g, f, S), NEW h, Adds(h, f, T)
    PROVE  \A s \in SUBSET T : g[s] = h[s]
  <1> DEFINE N == {n \in Nat : \A s \in SUBSET T : Cardinality(s) = n => g[s] = h[s]}
  <1>0. \A s \in SUBSET S : IsFiniteSet(s) /\ Cardinality(s) \in Nat
    BY FS_Subset, FS_CardinalityType
  <1>1. \A s \in SUBSET T :
            /\ g[s] = IF s = {} THEN 0 ELSE f[Pick(s)] + g[s \ {Pick(s)}]
            /\ h[s] = IF s = {} THEN 0 ELSE f[Pick(s)] + h[s \ {Pick(s)}]
    BY DEF Adds
  <1>2. 0 \in N
    <2>1. \A s \in SUBSET T : Cardinality(s) = 0 => s = {}
      BY <1>0, FS_EmptySet
    <2> QED
      BY <1>1, <2>1
  <1>3. ASSUME NEW n \in N PROVE n + 1 \in N
    <2> SUFFICES ASSUME NEW s \in SUBSET T, Cardinality(s) = n + 1 PROVE g[s] = h[s]
      OBVIOUS
    <2>1. s # {}
      BY FS_EmptySet
    <2>2. Cardinality(s \ {Pick(s)}) = n /\ s \ {Pick(s)} \in SUBSET T
      BY <2>1, Picking
    <2>3. g[s \ {Pick(s)}] = h[s \ {Pick(s)}]
      BY <2>2
    <2> QED
      BY <1>1, <2>1, <2>3
  <1>4. N \in SUBSET Nat
    OBVIOUS
  <1> HIDE DEF N
  <1>5. N = Nat
    BY ONLY <1>2, <1>3, <1>4, Induction
  <1> QED
    BY <1>0, <1>5 DEF N

Sum(f, S) == SumFunctionOnSet(f, S)

(* A sum is one of the picked element and the rest.                        *)
LEMMA SumStep ==
    ASSUME NEW f, NEW S, IsFiniteSet(S)
    PROVE  Sum(f, S) = IF S = {} THEN 0 ELSE f[Pick(S)] + Sum(f, S \ {Pick(S)})
  <1> DEFINE F(T) == CHOOSE g : Adds(g, f, T)
  <1>1. \A T : Sum(f, T) = F(T)[T]
    BY DEF SumFunctionOnSet, FoldFunctionOnSet, MapThenFoldSet, Adds, Pick, Sum
  <1>2. \A T \in SUBSET S : Adds(F(T), f, T)
    <2> SUFFICES ASSUME NEW T \in SUBSET S PROVE \E g : Adds(g, f, T)
      OBVIOUS
    <2> QED
      BY AddsExists, FS_Subset
  <1> HIDE DEF F
  <1>3. F(S)[S] = IF S = {} THEN 0 ELSE f[Pick(S)] + F(S)[S \ {Pick(S)}]
    BY <1>2 DEF Adds
  <1> DEFINE T == S \ {Pick(S)}
  <1>4. F(S)[T] = F(T)[T]
    <2>1. T \in SUBSET S /\ Adds(F(T), f, T) /\ Adds(F(S), f, S)
      BY <1>2
    <2> DEFINE g == F(S)
               h == F(T)
    <2>2. Adds(g, f, S) /\ Adds(h, f, T)
      BY <2>1
    <2> HIDE DEF T, g, h
    <2>3. \A s \in SUBSET T : g[s] = h[s]
      BY <2>1, <2>2, AddsUnique
    <2>4. g[T] = h[T]
      BY <2>3
    <2> QED
      BY <2>4 DEF g, h
  <1> QED
    BY <1>1, <1>3, <1>4

(* What holds of {} and of a set with one element more holds of a finite   *)
(* set: G are the sets it holds of.                                        *)
LEMMA SubsetInduction ==
    ASSUME NEW S, IsFiniteSet(S), NEW G, {} \in G,
           \A T \in SUBSET S : T # {} /\ T \ {Pick(T)} \in G => T \in G
    PROVE  \A T \in SUBSET S : T \in G
  <1> DEFINE N == {n \in Nat : \A T \in SUBSET S : Cardinality(T) = n => T \in G}
  <1>0. \A T \in SUBSET S : IsFiniteSet(T) /\ Cardinality(T) \in Nat
    BY FS_Subset, FS_CardinalityType
  <1>1. 0 \in N
    <2>1. \A T \in SUBSET S : Cardinality(T) = 0 => T = {}
      BY <1>0, FS_EmptySet
    <2> QED
      BY <2>1
  <1>2. ASSUME NEW n \in N PROVE n + 1 \in N
    <2> SUFFICES ASSUME NEW T \in SUBSET S, Cardinality(T) = n + 1 PROVE T \in G
      OBVIOUS
    <2>1. T # {}
      BY FS_EmptySet
    <2>2. Cardinality(T \ {Pick(T)}) = n /\ T \ {Pick(T)} \in SUBSET S
      BY <2>1, Picking
    <2> QED
      BY <2>1, <2>2
  <1>3. N \in SUBSET Nat
    OBVIOUS
  <1> HIDE DEF N
  <1>4. N = Nat
    BY ONLY <1>1, <1>2, <1>3, Induction
  <1> QED
    BY <1>0, <1>4 DEF N

(* A sum of numbers is a number.                                           *)
LEMMA SumType ==
    ASSUME NEW S, IsFiniteSet(S), NEW f, \A x \in S : f[x] \in Nat
    PROVE  \A T \in SUBSET S : Sum(f, T) \in Nat
  <1> DEFINE G == {T \in SUBSET S : Sum(f, T) \in Nat}
  <1>0. \A T \in SUBSET S : Sum(f, T) = IF T = {} THEN 0 ELSE f[Pick(T)] + Sum(f, T \ {Pick(T)})
    BY SumStep, FS_Subset
  <1>1. {} \in G
    <2>1. {} \in SUBSET S /\ Sum(f, {}) = 0
      BY SumStep, FS_EmptySet
    <2> QED
      BY <2>1
  <1>2. ASSUME NEW T \in SUBSET S, T # {}, T \ {Pick(T)} \in G PROVE T \in G
    BY <1>0, <1>2, Picking
  <1> HIDE DEF G
  <1>3. \A T \in SUBSET S : T \in G
    BY <1>1, <1>2, SubsetInduction
  <1> QED
    BY <1>3 DEF G

(* It does not matter which element is taken out.                          *)
LEMMA SumSplits ==
    ASSUME NEW S, IsFiniteSet(S), NEW f, \A x \in S : f[x] \in Nat
    PROVE  \A T \in SUBSET S : \A x \in T : Sum(f, T) = f[x] + Sum(f, T \ {x})
  <1> DEFINE G == {T \in SUBSET S : \A x \in T : Sum(f, T) = f[x] + Sum(f, T \ {x})}
             R(T) == T \ {Pick(T)}
  <1>0. \A T \in SUBSET S : Sum(f, T) = IF T = {} THEN 0 ELSE f[Pick(T)] + Sum(f, R(T))
    BY SumStep, FS_Subset
  <1>1. \A T \in SUBSET S : Sum(f, T) \in Nat
    BY SumType
  <1> DEFINE N == {n \in Nat : \A T \in SUBSET S : Cardinality(T) = n => T \in G}
  <1>2. 0 \in N
    <2>1. \A T \in SUBSET S : Cardinality(T) = 0 => T = {}
      BY FS_EmptySet, FS_Subset
    <2> QED
      BY <2>1
  <1>3. ASSUME NEW n \in N PROVE n + 1 \in N
    <2> SUFFICES ASSUME NEW T \in SUBSET S, Cardinality(T) = n + 1, NEW x \in T
                 PROVE  Sum(f, T) = f[x] + Sum(f, T \ {x})
      OBVIOUS
    <2> DEFINE y == Pick(T)
    <2>1. y \in T /\ R(T) \in SUBSET S /\ Cardinality(R(T)) = n
      BY Picking
    <2>2. Sum(f, T) = f[y] + Sum(f, T \ {y})
      BY <1>0, <2>1
    <2>3. T \ {x} \in SUBSET S /\ Cardinality(T \ {x}) = n
      <3>1. IsFiniteSet(T)
        BY FS_Subset
      <3>2. Cardinality(T \ {x}) = Cardinality(T) - 1
        BY <3>1, FS_RemoveElement
      <3> QED
        BY <3>2
    <2>4. CASE x = y
      BY <2>2, <2>4
    <2>5. CASE x # y
      <3>1. Sum(f, T \ {y}) = f[x] + Sum(f, (T \ {y}) \ {x})
        BY <2>1, <2>5
      <3>2. Sum(f, T \ {x}) = f[y] + Sum(f, (T \ {x}) \ {y})
        BY <2>1, <2>3, <2>5
      <3>3. (T \ {y}) \ {x} = (T \ {x}) \ {y}
        OBVIOUS
      <3> HIDE DEF y
      <3>4. Sum(f, (T \ {x}) \ {y}) \in Nat /\ f[x] \in Nat /\ f[y] \in Nat
        BY <1>1, <2>1
      <3> QED
        BY <2>2, <3>1, <3>2, <3>3, <3>4
    <2> QED
      BY <2>4, <2>5
  <1>4. N \in SUBSET Nat
    OBVIOUS
  <1>5. N = Nat
    <2> HIDE DEF N
    <2> QED
      BY ONLY <1>2, <1>3, <1>4, Induction
  <1> QED
    BY <1>5, FS_Subset, FS_CardinalityType

(* Addends that are no larger make no larger sum.                          *)
LEMMA SumGrows ==
    ASSUME NEW S, IsFiniteSet(S), NEW f, NEW h,
           \A x \in S : f[x] \in Nat /\ h[x] \in Nat /\ f[x] <= h[x]
    PROVE  \A T \in SUBSET S : Sum(f, T) <= Sum(h, T)
  <1> DEFINE G == {T \in SUBSET S : Sum(f, T) <= Sum(h, T)}
  <1>0. \A T \in SUBSET S :
            /\ Sum(f, T) = IF T = {} THEN 0 ELSE f[Pick(T)] + Sum(f, T \ {Pick(T)})
            /\ Sum(h, T) = IF T = {} THEN 0 ELSE h[Pick(T)] + Sum(h, T \ {Pick(T)})
    BY SumStep, FS_Subset
  <1>1. \A T \in SUBSET S : Sum(f, T) \in Nat /\ Sum(h, T) \in Nat
    BY SumType
  <1>2. {} \in G
    <2>1. {} \in SUBSET S /\ Sum(f, {}) = 0 /\ Sum(h, {}) = 0
      BY SumStep, FS_EmptySet
    <2> QED
      BY <2>1
  <1>3. ASSUME NEW T \in SUBSET S, T # {}, T \ {Pick(T)} \in G PROVE T \in G
    <2> DEFINE x == Pick(T)
               R == T \ {x}
    <2>1. x \in S /\ R \in SUBSET S
      BY <1>3, Picking
    <2>2. Sum(f, T) = f[x] + Sum(f, R) /\ Sum(h, T) = h[x] + Sum(h, R)
      BY <1>0, <1>3
    <2>3. Sum(f, R) <= Sum(h, R)
      BY <1>3
    <2>4. /\ f[x] \in Nat /\ h[x] \in Nat /\ f[x] <= h[x]
          /\ Sum(f, R) \in Nat /\ Sum(h, R) \in Nat
      BY <1>1, <2>1
    <2> HIDE DEF x, R
    <2>5. Sum(f, T) <= Sum(h, T)
      BY <2>2, <2>3, <2>4
    <2> QED
      BY <2>5
  <1> HIDE DEF G
  <1>4. \A T \in SUBSET S : T \in G
    BY <1>2, <1>3, SubsetInduction
  <1> QED
    BY <1>4 DEF G

(* The same addends make the same sum.                                     *)
LEMMA SumAgrees ==
    ASSUME NEW S, IsFiniteSet(S), NEW f, NEW h, \A x \in S : f[x] \in Nat /\ h[x] = f[x]
    PROVE  \A T \in SUBSET S : Sum(f, T) = Sum(h, T)
  <1>1. \A x \in S : /\ f[x] \in Nat /\ h[x] \in Nat
                   /\ f[x] <= h[x] /\ h[x] <= f[x]
    OBVIOUS
  <1>2. \A T \in SUBSET S : Sum(f, T) <= Sum(h, T)
    BY <1>1, SumGrows
  <1>3. \A T \in SUBSET S : Sum(h, T) <= Sum(f, T)
    BY <1>1, SumGrows
  <1>4. \A T \in SUBSET S : Sum(f, T) \in Nat /\ Sum(h, T) \in Nat
    BY <1>1, SumType
  <1> QED
    BY <1>2, <1>3, <1>4

(* Two sums in one.                                                        *)
LEMMA SumUnion ==
    ASSUME NEW S, IsFiniteSet(S), NEW f, \A x \in S : f[x] \in Nat,
           NEW A \in SUBSET S
    PROVE  \A B \in SUBSET S : A \cap B = {} => Sum(f, A \cup B) = Sum(f, A) + Sum(f, B)
  <1> DEFINE G == {B \in SUBSET S : A \cap B = {} => Sum(f, A \cup B) = Sum(f, A) + Sum(f, B)}
  <1>0. \A T \in SUBSET S : \A y \in T : Sum(f, T) = f[y] + Sum(f, T \ {y})
    <2> HIDE DEF G
    <2> TAKE T \in SUBSET S
    <2> TAKE y \in T
    <2> QED
      BY SumSplits
  <1>1. \A T \in SUBSET S : Sum(f, T) \in Nat
    BY SumType
  <1>2. {} \in G
    <2>1. {} \in SUBSET S /\ Sum(f, {}) = 0
      BY SumStep, FS_EmptySet
    <2>2. A \cup {} = A
      OBVIOUS
    <2>3. Sum(f, A \cup {}) = Sum(f, A) + Sum(f, {})
      BY <1>1, <2>1, <2>2
    <2> QED
      BY <2>1, <2>3
  <1>3. ASSUME NEW B \in SUBSET S, B # {}, B \ {Pick(B)} \in G PROVE B \in G
    <2> SUFFICES ASSUME A \cap B = {} PROVE Sum(f, A \cup B) = Sum(f, A) + Sum(f, B)
      OBVIOUS
    <2> DEFINE x == Pick(B)
               R == B \ {x}
    <2>1. x \in B /\ R \in SUBSET S
      BY <1>3, Picking
    <2>2. Sum(f, A \cup R) = Sum(f, A) + Sum(f, R)
      BY <1>3
    <2> HIDE DEF x
    <2>3. Sum(f, B) = f[x] + Sum(f, R)
      BY <1>0, <2>1
    <2>4. Sum(f, A \cup B) = f[x] + Sum(f, A \cup R)
      <3>1. A \cup B \in SUBSET S /\ x \in A \cup B /\ (A \cup B) \ {x} = A \cup R
        BY <2>1
      <3> QED
        BY <1>0, <3>1
    <2>5. /\ f[x] \in Nat /\ Sum(f, A) \in Nat /\ Sum(f, R) \in Nat
      BY <1>1, <2>1
    <2> QED
      BY <2>2, <2>3, <2>4, <2>5
  <1> HIDE DEF G
  <1>4. \A B \in SUBSET S : B \in G
    BY <1>2, <1>3, SubsetInduction
  <1> QED
    BY <1>4 DEF G

(* Nothing added.                                                          *)
LEMMA SumNothing ==
    ASSUME NEW S, IsFiniteSet(S), NEW f, \A x \in S : f[x] = 0
    PROVE  Sum(f, S) = 0
  <1> DEFINE G == {T \in SUBSET S : Sum(f, T) = 0}
  <1>1. {} \in G
    <2>1. {} \in SUBSET S /\ Sum(f, {}) = 0
      BY SumStep, FS_EmptySet
    <2> QED
      BY <2>1
  <1>2. ASSUME NEW T \in SUBSET S, T # {}, T \ {Pick(T)} \in G PROVE T \in G
    <2>1. Pick(T) \in S
      BY <1>2, Picking
    <2>2. Sum(f, T) = f[Pick(T)] + Sum(f, T \ {Pick(T)})
      BY <1>2, SumStep, FS_Subset
    <2>3. Sum(f, T) = 0
      BY <1>2, <2>1, <2>2
    <2> QED
      BY <2>3
  <1> HIDE DEF G
  <1>3. \A T \in SUBSET S : T \in G
    BY <1>1, <1>2, SubsetInduction
  <1> QED
    BY <1>3 DEF G

Owned(S, owner, A) == {x \in S : owner[x] \in A}
Shares(k, f, S, owner, n) == \A a \in 1..n : k[a] = Sum(f, Owned(S, owner, {a}))

(* A sum over what the first n owners have is one of what each of them has. *)
LEMMA SumByOwner ==
    ASSUME NEW S, IsFiniteSet(S), NEW f, \A x \in S : f[x] \in Nat, NEW owner, NEW n \in Nat,
           NEW k, Shares(k, f, S, owner, n)
    PROVE  Sum(f, Owned(S, owner, 1..n)) = Sum(k, 1..n)
  <1> DEFINE Have(a) == {x \in S : owner[x] \in {a}}
             All(m) == {x \in S : owner[x] \in 1..m}
             N == {m \in Nat : m <= n => Sum(f, All(m)) = Sum(k, 1..m)}
  <1>0. \A T \in SUBSET S : Sum(f, T) \in Nat
    BY SumType
  <1>1. \A a \in 1..n : k[a] = Sum(f, Have(a)) /\ k[a] \in Nat
    BY <1>0 DEF Owned, Shares
  <1>2. IsFiniteSet(1..n)
    BY FS_Interval
  <1> DEFINE D == 1..n
  <1>a. \A T \in SUBSET D : \A a \in T : Sum(k, T) = k[a] + Sum(k, T \ {a})
    <2>1. IsFiniteSet(D) /\ \A a \in D : k[a] \in Nat
      BY <1>1, <1>2
    <2> HIDE DEF D, N, All, Have
    <2> TAKE T \in SUBSET D
    <2> TAKE a \in T
    <2> QED
      BY <2>1, SumSplits
  <1>3. 0 \in N
    <2>1. All(0) = {} /\ 1..0 = {}
      OBVIOUS
    <2>2. Sum(f, {}) = 0 /\ Sum(k, {}) = 0
      BY SumStep, FS_EmptySet
    <2> QED
      BY <2>1, <2>2
  <1>4. ASSUME NEW m \in N PROVE m + 1 \in N
    <2> SUFFICES ASSUME m + 1 <= n PROVE Sum(f, All(m + 1)) = Sum(k, 1..(m + 1))
      <3> HIDE DEF All
      <3>1. m + 1 \in Nat
        OBVIOUS
      <3> QED
        BY <3>1
    <2>1. All(m + 1) = All(m) \cup Have(m + 1) /\ All(m) \cap Have(m + 1) = {}
      <3>1. \A a : a \in 1..(m + 1) <=> a \in 1..m \/ a = m + 1
        OBVIOUS
      <3>2. m + 1 \notin 1..m
        OBVIOUS
      <3> QED
        BY <3>1, <3>2
    <2>2. All(m) \in SUBSET S /\ Have(m + 1) \in SUBSET S
      OBVIOUS
    <2>3. Sum(f, All(m + 1)) = Sum(f, All(m)) + Sum(f, Have(m + 1))
      <3> DEFINE A == All(m)
                 B == Have(m + 1)
      <3>1. A \in SUBSET S /\ B \in SUBSET S /\ A \cap B = {} /\ All(m + 1) = A \cup B
        BY <2>1, <2>2
      <3> HIDE DEF A, B, All, Have
      <3>2. IsFiniteSet(S) /\ \A x \in S : f[x] \in Nat
        OBVIOUS
      <3>3. Sum(f, A \cup B) = Sum(f, A) + Sum(f, B)
        BY ONLY <3>1, <3>2, SumUnion
      <3> QED
        BY <3>1, <3>3 DEF A, B
    <2>4. Sum(k, 1..(m + 1)) = k[m + 1] + Sum(k, 1..m)
      <3>1. /\ 1..(m + 1) \in SUBSET (1..n) /\ m + 1 \in 1..(m + 1)
            /\ (1..(m + 1)) \ {m + 1} = 1..m
        OBVIOUS
      <3> QED
        BY <1>a, <3>1
    <2>5. Sum(f, All(m)) = Sum(k, 1..m) /\ k[m + 1] = Sum(f, Have(m + 1))
      BY <1>1
    <2>6. Sum(f, All(m)) \in Nat /\ Sum(f, Have(m + 1)) \in Nat
      BY <1>0, <2>2
    <2> QED
      BY <2>3, <2>4, <2>5, <2>6
  <1>5. N \in SUBSET Nat
    OBVIOUS
  <1>6. N = Nat
    <2> HIDE DEF N
    <2> QED
      BY ONLY <1>3, <1>4, <1>5, Induction
  <1>7. Sum(f, All(n)) = Sum(k, 1..n)
    <2> HIDE DEF All
    <2>1. n \in N
      BY <1>6
    <2> QED
      BY <2>1
  <1> QED
    BY <1>7 DEF Owned

-----------------------------------------------------------------------------
(* Sequences of whatever elements.                                         *)

(* A sequence with its elements in S is in Seq(S).                         *)
LEMMA SequenceIsSeq ==
    ASSUME NEW s, Sequence(s), NEW S, \A i \in DOMAIN s : s[i] \in S
    PROVE  s \in Seq(S)
  BY DEF Sequence

(* An element of Seq(S) is a sequence.                                     *)
LEMMA SeqIsSequence ==
    ASSUME NEW S, NEW s \in Seq(S)
    PROVE  Sequence(s)
  BY DEF Sequence

(* Appending keeps a sequence, its earlier elements and adds the last.     *)
LEMMA SequenceAppend ==
    ASSUME NEW s, Sequence(s), NEW e
    PROVE  /\ Sequence(Append(s, e)) /\ Len(Append(s, e)) = Len(s) + 1
           /\ \A i \in 1..Len(s) : Append(s, e)[i] = s[i]
           /\ Append(s, e)[Len(s) + 1] = e
  <1> DEFINE S == {s[i] : i \in DOMAIN s} \union {e}
  <1>1. s \in Seq(S) /\ e \in S
    BY SequenceIsSeq
  <1> HIDE DEF S
  <1>2. /\ Append(s, e) \in Seq(S) /\ Len(Append(s, e)) = Len(s) + 1
        /\ \A i \in 1..Len(s) : Append(s, e)[i] = s[i]
        /\ Append(s, e)[Len(s) + 1] = e
    BY <1>1, AppendProperties
  <1>3. Sequence(Append(s, e))
    BY <1>2, SeqIsSequence
  <1> QED
    BY <1>2, <1>3

(* A function with the domain of a sequence is a sequence of that length.  *)
LEMMA SequenceMap ==
    ASSUME NEW s, Sequence(s), NEW t, t = [i \in DOMAIN s |-> t[i]]
    PROVE  Sequence(t) /\ Len(t) = Len(s)
  <1> DEFINE S == {t[i] : i \in DOMAIN s}
  <1>1. DOMAIN t = 1..Len(s) /\ Len(s) \in Nat
    BY DEF Sequence
  <1>2. t \in [1..Len(s) -> S]
    BY <1>1
  <1> HIDE DEF S
  <1>3. t \in Seq(S) /\ Len(t) = Len(s)
    BY <1>1, <1>2
  <1> QED
    BY <1>3, SeqIsSequence

-----------------------------------------------------------------------------
(* Requests.                                                               *)

\* what a step makes of one request
Onward(r, s) ==
    /\ s \in Request /\ Truthful(s) /\ s.attempt = r.attempt
    /\ r.at \in {"refused", "done"} => s.at = r.at /\ s.got = r.got
    /\ r.at # "sent" => s.at # "sent"
    /\ r.bill # 0 => s.bill = r.bill

OnwardStep ==
    /\ DOMAIN req' = DOMAIN req /\ req' \in Seq(Request)
    /\ \A i \in DOMAIN req : Onward(req[i], req'[i])

(* A step that replaces one request.                                       *)
LEMMA OneOnward ==
    ASSUME DataInv, NEW i \in DOMAIN req, NEW r, Onward(req[i], r),
           req' = [req EXCEPT ![i] = r]
    PROVE  OnwardStep
  <1>1. req \in Seq(Request) /\ \A k \in DOMAIN req : req[k] \in Request /\ Truthful(req[k])
    BY DEF DataInv
  <1>2. \A k \in DOMAIN req : Onward(req[k], req[k])
    BY <1>1 DEF Onward
  <1>3. req' \in Seq(Request) /\ DOMAIN req' = DOMAIN req
    BY <1>1 DEF Onward
  <1> QED
    BY <1>1, <1>2, <1>3 DEF OnwardStep

(* One thread moves one request, and the provider's bill comes once.       *)
LEMMA ProxyOnward ==
    ASSUME DataInv, Proxy
    PROVE  OnwardStep
  <1>0. \A i \in DOMAIN req : req[i] \in Request /\ Truthful(req[i])
    BY DEF DataInv
  <1>1. CASE Accept
    <2>1. PICK i \in DOMAIN req : Move(i, "sent", "accepted")
      BY <1>1 DEF Accept
    <2>2. Onward(req[i], [req[i] EXCEPT !.at = "accepted"])
      BY <2>1, <1>0 DEF Move, Onward, Truthful, Request, Stages
    <2> QED
      BY <2>1, <2>2, OneOnward DEF Move
  <1>2. CASE Refuse
    <2>1. PICK i \in DOMAIN req : Move(i, "accepted", "refused")
      BY <1>2 DEF Refuse
    <2>2. Onward(req[i], [req[i] EXCEPT !.at = "refused"])
      BY <2>1, <1>0 DEF Move, Onward, Truthful, Request, Stages
    <2> QED
      BY <2>1, <2>2, OneOnward DEF Move
  <1>3. CASE Forward
    <2>1. PICK i \in DOMAIN req : Move(i, "accepted", "forwarded")
      BY <1>3 DEF Forward
    <2>2. Onward(req[i], [req[i] EXCEPT !.at = "forwarded"])
      BY <2>1, <1>0 DEF Move, Onward, Truthful, Request, Stages
    <2> QED
      BY <2>1, <2>2, OneOnward DEF Move
  <1>4. CASE Bill
    <2>1. PICK i \in DOMAIN req, u \in Usage :
              /\ req[i].at \in {"forwarded", "recorded", "done"}
              /\ req[i].bill = 0
              /\ req' = [req EXCEPT ![i].bill = u]
      BY <1>4 DEF Bill
    <2>2. u \in Nat
      BY UsageAssumption
    <2>3. Onward(req[i], [req[i] EXCEPT !.bill = u])
      BY <2>1, <2>2, <1>0 DEF Onward, Truthful, Request, Stages
    <2> QED
      BY <2>1, <2>3, OneOnward
  <1>5. CASE Relay
    <2>1. PICK i \in DOMAIN req : \E got \in {0, req[i].bill} :
              /\ req[i].at = "forwarded"
              /\ req' = [req EXCEPT ![i].at = "recorded", ![i].got = got]
      BY <1>5 DEF Relay
    <2>2. PICK got \in {0, req[i].bill} :
              /\ req[i].at = "forwarded"
              /\ req' = [req EXCEPT ![i].at = "recorded", ![i].got = got]
      BY <2>1
    <2>3. Onward(req[i], [req[i] EXCEPT !.at = "recorded", !.got = got])
      BY <2>2, <1>0 DEF Onward, Truthful, Request, Stages
    <2>4. req' = [req EXCEPT ![i] = [req[i] EXCEPT !.at = "recorded", !.got = got]]
      BY <2>2, <1>0 DEF Request
    <2> QED
      BY <2>3, <2>4, OneOnward
  <1>6. CASE EndThread
    <2>1. PICK i \in DOMAIN req : Move(i, "recorded", "done")
      BY <1>6 DEF EndThread
    <2>2. Onward(req[i], [req[i] EXCEPT !.at = "done"])
      BY <2>1, <1>0 DEF Move, Onward, Truthful, Request, Stages
    <2> QED
      BY <2>1, <2>2, OneOnward DEF Move
  <1> QED
    BY <1>1, <1>2, <1>3, <1>4, <1>5, <1>6 DEF Proxy

(* Closing the server and leaving the command only refuse and end.         *)
LEMMA LeaveOnward ==
    ASSUME DataInv, CloseProxy \/ Leave
    PROVE  OnwardStep
  <1>1. req \in Seq(Request) /\ \A i \in DOMAIN req : req[i] \in Request /\ Truthful(req[i])
    BY DEF DataInv
  <1>2. \A i \in DOMAIN req : Onward(req[i], Dropped(req[i])) /\ Onward(req[i], Gone(req[i]))
    BY <1>1 DEF Onward, Dropped, Gone, Truthful, Request, Stages
  <1>3. \/ req' = [i \in DOMAIN req |-> Dropped(req[i])]
        \/ req' = [i \in DOMAIN req |-> Gone(req[i])]
    BY DEF CloseProxy, Leave
  <1> QED
    BY <1>1, <1>2, <1>3 DEF OnwardStep, Onward

(* What is known of the requests of an attempt stays known.                *)
LEMMA KnownStays ==
    ASSUME OnwardStep, NEW a
    PROVE  (Shut(a) => Shut(a)') /\ (Quiet(a) => Quiet(a)') /\ (Settled(a) => Settled(a)')
  BY DEF OnwardStep, Onward, Shut, Quiet, Settled, Request

(* Requests that go onward stay typed and truthful.                        *)
LEMMA RequestsTyped ==
    ASSUME OnwardStep
    PROVE  req' \in Seq(Request) /\ \A i \in DOMAIN req' : Truthful(req'[i])
  BY DEF OnwardStep, Onward

-----------------------------------------------------------------------------
(* The steps.                                                              *)

(* No attempt, no call, no request.                                        *)
LEMMA InitUpdater == Init => UpdaterInv
  BY DEF Init, UpdaterInv, DataInv, PhaseInv, SealedInv, Sequence, UnderWay, NoCount, Attempt

(* The request threads add to what is known and take nothing away,         *)
(* whatever the process is doing meanwhile (credential_proxy.py:113-195).  *)
LEMMA ProxyKeeps ==
    ASSUME UpdaterInv, Proxy
    PROVE  UpdaterInv'
  <1>1. UNCHANGED <<attempts, calls, pc, exit, count, usage>>
    BY DEF Proxy, Accept, Refuse, Forward, Bill, Relay, EndThread, KeepProcess
  <1>2. OnwardStep
    BY ProxyOnward DEF UpdaterInv
  <1>3. DataInv'
    BY <1>1, <1>2, RequestsTyped DEF UpdaterInv, DataInv, Sequence
  <1>4. PhaseInv'
    <2>1. Attempt' = Attempt
      BY <1>1 DEF Attempt
    <2>2. /\ Shut(Attempt) => Shut(Attempt)'
          /\ Quiet(Attempt) => Quiet(Attempt)'
          /\ Settled(Attempt) => Settled(Attempt)'
      BY <1>2, <2>1, KnownStays DEF Shut, Quiet, Settled
    <2> QED
      BY <1>1, <2>1, <2>2 DEF UpdaterInv, PhaseInv
  <1>5. SealedInv'
    BY <1>1, <1>2, KnownStays DEF UpdaterInv, SealedInv
  <1> QED
    BY <1>3, <1>4, <1>5 DEF UpdaterInv

(* The command leaves, by itself or not: what was sealed is settled.       *)
LEMMA LeaveKeeps ==
    ASSUME UpdaterInv, EndCommand \/ Die \/ TearTerminal
    PROVE  UpdaterInv'
  <1>1. Leave
    BY DEF EndCommand, Die, TearTerminal
  <1>2. OnwardStep
    BY <1>1, LeaveOnward DEF UpdaterInv
  <1>3. pc' = "off" /\ calls' = <<>>
    BY <1>1 DEF Leave, Forget
  <1>4. /\ Sequence(attempts') /\ DOMAIN attempts' = DOMAIN attempts
        /\ \A a \in DOMAIN attempts :
              /\ "disk" \in DOMAIN attempts'[a]
              /\ attempts'[a] = attempts[a] \/ attempts'[a].disk = "torn"
    <2>1. CASE attempts' = attempts
      BY <2>1 DEF UpdaterInv, DataInv, Sequence
    <2>2. CASE attempts' = [attempts EXCEPT ![Attempt].disk = "torn"]
      <3>1. Sequence(attempts) /\ \A a \in DOMAIN attempts : "disk" \in DOMAIN attempts[a]
        BY DEF UpdaterInv, DataInv
      <3>2. attempts' = [a \in DOMAIN attempts |-> attempts'[a]]
        BY <2>2
      <3>3. Sequence(attempts')
        BY <3>1, <3>2, SequenceMap
      <3> QED
        BY <2>2, <3>1, <3>3
    <2> QED
      BY <2>1, <2>2 DEF EndCommand, Die, TearTerminal
  <1>5. DataInv'
    BY <1>2, <1>3, <1>4, RequestsTyped DEF DataInv, Sequence
  <1>6. PhaseInv'
    BY <1>3 DEF PhaseInv, UnderWay
  <1>7. SealedInv'
    BY <1>2, <1>4, KnownStays DEF UpdaterInv, SealedInv
  <1> QED
    BY <1>5, <1>6, <1>7 DEF UpdaterInv

(* The closed server has dropped what waited at its port.                  *)
LEMMA CloseProxyKeeps ==
    ASSUME UpdaterInv, CloseProxy
    PROVE  UpdaterInv'
  <1>1. /\ pc = "closing" /\ pc' = "closed" /\ req' = [i \in DOMAIN req |-> Dropped(req[i])]
        /\ UNCHANGED <<attempts, calls, exit, count, usage>>
    BY DEF CloseProxy, Go
  <1>2. OnwardStep
    BY LeaveOnward DEF UpdaterInv
  <1>3. DataInv'
    BY <1>1, <1>2, RequestsTyped DEF UpdaterInv, DataInv, Sequence
  <1>4. PhaseInv'
    <2>1. \A i \in DOMAIN req : req[i] \in Request
      BY DEF UpdaterInv, DataInv
    <2>2. \A i \in DOMAIN req' : req'[i].at # "sent"
      BY <1>1, <2>1 DEF Dropped, Request
    <2> QED
      BY <1>1, <2>2 DEF UpdaterInv, PhaseInv, UnderWay, Attempt, Shut
  <1>5. SealedInv'
    BY <1>1, <1>2, KnownStays DEF UpdaterInv, SealedInv
  <1> QED
    BY <1>3, <1>4, <1>5 DEF UpdaterInv

(* No request is pending when the counts say so: none is pending later.    *)
LEMMA ReadCountsKeeps ==
    ASSUME UpdaterInv, ReadCounts
    PROVE  UpdaterInv'
  <1>1. /\ pc = "closed" /\ pc' = "counted" /\ count'.pending = Cardinality(Pending)
        /\ UNCHANGED <<attempts, calls, req, exit, usage>>
    BY DEF ReadCounts, Go
  <1>2. DataInv' /\ SealedInv'
    BY <1>1 DEF UpdaterInv, DataInv, SealedInv, Settled, Sequence
  <1>3. ASSUME count'.pending = 0 PROVE Quiet(Attempt)
    <2>1. req \in Seq(Request)
      BY DEF UpdaterInv, DataInv
    <2>2. IsFiniteSet(DOMAIN req)
      <3>1. DOMAIN req = 1..Len(req) /\ Len(req) \in Int
        BY <2>1
      <3> QED
        BY <3>1, FS_Interval
    <2>3. IsFiniteSet(Pending)
      BY <2>2, FS_Subset DEF Pending, Of
    <2>4. Pending = {}
      BY <1>1, <1>3, <2>3, FS_EmptySet
    <2>5. Shut(Attempt)
      BY <1>1 DEF UpdaterInv, PhaseInv
    <2>6. \A i \in DOMAIN req : req[i] \in Request
      BY <2>1
    <2>7. \A i \in DOMAIN req : req[i].at \in Stages
      BY <2>6 DEF Request
    <2> QED
      BY <2>4, <2>5, <2>7 DEF Quiet, Shut, Pending, Of, Stages
  <1>4. PhaseInv'
    BY <1>1, <1>3 DEF UpdaterInv, PhaseInv, UnderWay, Attempt, Shut, Quiet
  <1> QED
    BY <1>2, <1>4 DEF UpdaterInv

(* Nor has one gone without usage, if the usage is known at all.           *)
LEMMA ReadUsageKeeps ==
    ASSUME UpdaterInv, ReadUsage
    PROVE  UpdaterInv'
  <1>1. /\ pc = "counted" /\ pc' = "sealing" /\ usage' = UsageTotals
        /\ UNCHANGED <<attempts, calls, req, exit, count>>
    BY DEF ReadUsage, Go
  <1>2. DataInv' /\ SealedInv'
    BY <1>1 DEF UpdaterInv, DataInv, SealedInv, Settled, Sequence
  <1>3. Shut(Attempt) /\ (count.pending = 0 => Quiet(Attempt))
    BY <1>1 DEF UpdaterInv, PhaseInv
  <1>4. ASSUME count.pending = 0, usage' # Unknown PROVE Settled(Attempt)
    <2>1. \A i \in Recorded : req[i].got # 0
      BY <1>1, <1>4 DEF UsageTotals
    <2> QED
      BY <1>3, <1>4, <2>1 DEF Settled, Quiet, Recorded, Of
  <1>5. PhaseInv'
    BY <1>1, <1>3, <1>4 DEF UpdaterInv, PhaseInv, UnderWay, Attempt, Shut, Quiet, Settled
  <1> QED
    BY <1>2, <1>5 DEF UpdaterInv

(* An attempt that ends well was compared with all its requests.           *)
LEMMA SealKeeps ==
    ASSUME UpdaterInv, Seal
    PROVE  UpdaterInv'
  <1>1. /\ pc = "sealing" /\ attempts' = [attempts EXCEPT ![Attempt] = Terminal]
        /\ pc' \in {"ready", "ending"} /\ calls' = <<>> /\ UNCHANGED req
    BY DEF Seal, Forget
  <1>2. Sequence(attempts) /\ \A a \in DOMAIN attempts : "disk" \in DOMAIN attempts[a]
    BY DEF UpdaterInv, DataInv
  <1>3. DataInv'
    <2>1. attempts' = [a \in DOMAIN attempts |-> attempts'[a]]
      BY <1>1
    <2>2. Sequence(attempts')
      BY <1>2, <2>1, SequenceMap
    <2>3. "disk" \in DOMAIN Terminal
      BY DEF Terminal
    <2> QED
      BY <1>1, <1>2, <2>2, <2>3 DEF UpdaterInv, DataInv
  <1>4. PhaseInv'
    BY <1>1 DEF PhaseInv, UnderWay
  <1>5. ASSUME Terminal.exit = "ok"
        PROVE  Terminal.status = "exact" /\ Terminal.unresolved = 0 /\ Settled(Attempt)
    <2>1. /\ Gap = 0 /\ count.pending = 0 /\ LedgerExact /\ usage # Unknown
          /\ Terminal.status = "exact" /\ Terminal.unresolved = Unresolved + 0 + 0
      BY <1>5 DEF Terminal
    <2>2. CallsIn({"open"}) = {}
      BY <2>1 DEF LedgerExact, CallsIn
    <2>3. Unresolved = 0
      BY <2>2, FS_EmptySet DEF Unresolved
    <2> QED
      BY <1>1, <2>1, <2>3 DEF UpdaterInv, PhaseInv
  <1>6. SealedInv'
    <2> SUFFICES ASSUME NEW a \in DOMAIN attempts,
                        attempts'[a].disk = "terminal", attempts'[a].exit = "ok"
                 PROVE  attempts'[a].status = "exact" /\ attempts'[a].unresolved = 0
                        /\ Settled(a)
      BY <1>1 DEF SealedInv, Settled
    <2>1. CASE a = Attempt
      BY <1>1, <1>5, <2>1
    <2>2. CASE a # Attempt
      BY <1>1, <2>2 DEF UpdaterInv, SealedInv
    <2> QED
      BY <2>1, <2>2
  <1> QED
    BY <1>3, <1>4, <1>6 DEF UpdaterInv

(* A new attempt, with a name and then a start on disk.                    *)
LEMMA BeginKeeps ==
    ASSUME UpdaterInv, MakeDirectory \/ WriteStarted
    PROVE  UpdaterInv'
  <1>1. Sequence(attempts) /\ \A a \in DOMAIN attempts : "disk" \in DOMAIN attempts[a]
    BY DEF UpdaterInv, DataInv
  <1>2. CASE MakeDirectory
    <2>1. /\ pc' = "made" /\ attempts' = Append(attempts, NewAttempt)
          /\ UNCHANGED <<calls, req, exit, count, usage>>
      BY <1>2 DEF MakeDirectory, Go
    <2>2. /\ Sequence(attempts') /\ Len(attempts') = Len(attempts) + 1
          /\ \A a \in 1..Len(attempts) : attempts'[a] = attempts[a]
          /\ attempts'[Len(attempts) + 1] = NewAttempt
      BY <1>1, <2>1, SequenceAppend
    <2>3. DOMAIN attempts = 1..Len(attempts) /\ Len(attempts) \in Nat
          /\ DOMAIN attempts' = 1..(Len(attempts) + 1)
      BY <1>1, <2>2 DEF Sequence
    <2>4. "disk" \in DOMAIN NewAttempt /\ NewAttempt.disk = "made"
      BY DEF NewAttempt
    <2>5. \A a \in DOMAIN attempts' : a \in DOMAIN attempts \/ a = Len(attempts) + 1
      BY <2>3
    <2>6. DataInv'
      BY <1>1, <2>1, <2>2, <2>3, <2>4, <2>5 DEF UpdaterInv, DataInv
    <2>7. PhaseInv'
      BY <2>1, <2>2, <2>3, <2>4 DEF PhaseInv, UnderWay, Attempt
    <2>8. SealedInv'
      BY <2>1, <2>2, <2>3, <2>4, <2>5 DEF UpdaterInv, SealedInv, Settled
    <2> QED
      BY <2>6, <2>7, <2>8 DEF UpdaterInv
  <1>3. CASE WriteStarted
    <2>1. /\ pc = "made" /\ pc' = "launch"
          /\ attempts' = [attempts EXCEPT ![Attempt].disk = "started"]
          /\ UNCHANGED <<calls, req, exit, count, usage>>
      BY <1>3 DEF WriteStarted, Go
    <2>2. attempts' = [a \in DOMAIN attempts |-> attempts'[a]]
      BY <2>1
    <2>3. Sequence(attempts') /\ Len(attempts') = Len(attempts)
      BY <1>1, <2>2, SequenceMap
    <2>4. Attempt \in DOMAIN attempts
      BY <1>1, <2>1 DEF UpdaterInv, PhaseInv, Sequence, Attempt
    <2>5. \A a \in DOMAIN attempts :
              /\ "disk" \in DOMAIN attempts'[a]
              /\ IF a = Attempt THEN attempts'[a].disk = "started"
                                ELSE attempts'[a] = attempts[a]
      BY <1>1, <2>1
    <2>6. DataInv'
      BY <2>1, <2>2, <2>3, <2>5 DEF UpdaterInv, DataInv
    <2>7. PhaseInv'
      BY <2>1, <2>3, <2>4, <2>5 DEF UpdaterInv, PhaseInv, UnderWay, Attempt
    <2>8. SealedInv'
      BY <2>1, <2>2, <2>5 DEF UpdaterInv, SealedInv, Settled
    <2> QED
      BY <2>6, <2>7, <2>8 DEF UpdaterInv
  <1> QED
    BY <1>2, <1>3

(* Steps of the command that only move it on.                              *)
LEMMA MoveKeeps ==
    ASSUME UpdaterInv,
           StartCommand \/ Launch \/ LaunchFails \/ ProcessEnds \/ ProcessKilled
    PROVE  UpdaterInv'
  <1>1. /\ UNCHANGED <<attempts, calls, req, count, usage>>
        /\ pc' = "ready" \/ (pc \in UnderWay /\ pc' \in {"running", "closing"})
    BY DEF StartCommand, Launch, LaunchFails, ProcessEnds, ProcessKilled, Go, UnderWay
  <1>2. DataInv' /\ SealedInv'
    BY <1>1 DEF UpdaterInv, DataInv, SealedInv, Settled, Sequence
  <1>3. PhaseInv'
    BY <1>1 DEF UpdaterInv, PhaseInv, UnderWay, Attempt
  <1> QED
    BY <1>2, <1>3 DEF UpdaterInv

(* A request of the attempt under way is none of a sealed one.             *)
LEMMA ArriveKeeps ==
    ASSUME UpdaterInv, pc \in {"running", "closing"}, NEW c \in Nat, Arrive(c)
    PROVE  /\ req' \in Seq(Request) /\ \A i \in DOMAIN req' : Truthful(req'[i])
           /\ \A a \in DOMAIN attempts : a # Attempt /\ Settled(a) => Settled(a)'
  <1> DEFINE r == [attempt |-> Attempt, call |-> c, at |-> "sent", bill |-> 0, got |-> 0]
  <1>1. req \in Seq(Request) /\ \A i \in DOMAIN req : Truthful(req[i])
    BY DEF UpdaterInv, DataInv
  <1>2. r \in Request /\ Truthful(r)
    BY DEF UpdaterInv, DataInv, Sequence, Request, Stages, Truthful, Attempt
  <1>3. r.attempt = Attempt
    OBVIOUS
  <1> HIDE DEF r
  <1>4. /\ req' \in Seq(Request) /\ Len(req') = Len(req) + 1
        /\ \A i \in 1..Len(req) : req'[i] = req[i]
        /\ req'[Len(req) + 1] = r
    BY <1>1, <1>2, AppendProperties DEF Arrive, r
  <1>5. DOMAIN req = 1..Len(req) /\ Len(req) \in Nat /\ DOMAIN req' = 1..(Len(req) + 1)
    BY <1>1, <1>4
  <1>6. \A i \in DOMAIN req' : i \in DOMAIN req \/ i = Len(req) + 1
    BY <1>5
  <1> QED
    BY <1>1, <1>2, <1>3, <1>4, <1>5, <1>6 DEF Settled

(* What the updater started speaks only to a server that is not yet shut   *)
(* down, so its requests belong to an attempt that is not yet sealed.      *)
LEMMA ProcessKeeps ==
    ASSUME UpdaterInv, StartCall \/ SendRequest \/ SendUnrecorded \/ CompleteCall \/ FailCall
    PROVE  UpdaterInv'
  <1>1. pc \in {"running", "closing"} /\ UNCHANGED <<attempts, pc, exit, count, usage>>
    BY DEF StartCall, SendRequest, SendUnrecorded, CompleteCall, FailCall, KeepCommand, Serving
  <1>2. calls \in Seq(Call) /\ req \in Seq(Request)
    BY DEF UpdaterInv, DataInv
  <1>3. calls' \in Seq(Call)
    <2>0. \A c \in DOMAIN calls : calls[c] \in Call
      BY <1>2
    <2>1. CASE StartCall
      <3>1. [state |-> "open", tries |-> 0, usage |-> 0] \in Call
        BY DEF Call
      <3> QED
        BY <1>2, <2>1, <3>1, AppendProperties DEF StartCall
    <2>2. CASE SendRequest
      <3>1. PICK c \in DOMAIN calls : calls' = [calls EXCEPT ![c].tries = @ + 1]
        BY <2>2 DEF SendRequest, CallsIn
      <3>2. [calls[c] EXCEPT !.tries = @ + 1] \in Call
        BY <2>0 DEF Call
      <3> QED
        BY <1>2, <3>1, <3>2, ExceptSeq
    <2>3. CASE SendUnrecorded
      BY <1>2, <2>3 DEF SendUnrecorded
    <2>4. CASE CompleteCall
      <3>1. PICK i \in DOMAIN req :
                /\ req[i].call \in DOMAIN calls
                /\ calls' = [calls EXCEPT ![req[i].call].state = "completed",
                                          ![req[i].call].usage = req[i].bill]
        BY <2>4 DEF CompleteCall, CallsIn
      <3>2. req[i].bill \in Nat
        <4>1. req[i] \in Request
          BY <1>2
        <4> QED
          BY <4>1 DEF Request
      <3>3. [calls[req[i].call] EXCEPT !.state = "completed", !.usage = req[i].bill] \in Call
        BY <2>0, <3>1, <3>2 DEF Call
      <3>4. calls' = [calls EXCEPT ![req[i].call] =
                         [calls[req[i].call] EXCEPT !.state = "completed", !.usage = req[i].bill]]
        <4> DEFINE k == req[i].call
        <4>1. calls' = [calls EXCEPT ![k].state = "completed", ![k].usage = req[i].bill]
          BY <3>1
        <4> HIDE DEF k
        <4>2. calls[k] \in Call
          BY <2>0, <3>1 DEF k
        <4>3. calls' = [calls EXCEPT ![k] =
                           [calls[k] EXCEPT !.state = "completed", !.usage = req[i].bill]]
          BY <4>1, <4>2 DEF Call
        <4> QED
          BY <4>3 DEF k
      <3> QED
        BY <1>2, <3>1, <3>3, <3>4, ExceptSeq
    <2>5. CASE FailCall
      <3>1. PICK c \in DOMAIN calls : calls' = [calls EXCEPT ![c].state = "failed"]
        BY <2>5 DEF FailCall, CallsIn
      <3>2. [calls[c] EXCEPT !.state = "failed"] \in Call
        BY <2>0 DEF Call
      <3> QED
        BY <1>2, <3>1, <3>2, ExceptSeq
    <2> QED
      BY <2>1, <2>2, <2>3, <2>4, <2>5
  <1>4. \/ UNCHANGED req
        \/ \E c \in Nat : Arrive(c)
    <2>1. \A c \in DOMAIN calls : c \in Nat
      BY <1>2
    <2> QED
      BY <2>1 DEF StartCall, SendRequest, SendUnrecorded, CompleteCall, FailCall, CallsIn
  <1>5. /\ req' \in Seq(Request) /\ \A i \in DOMAIN req' : Truthful(req'[i])
        /\ \A a \in DOMAIN attempts : a # Attempt /\ Settled(a) => Settled(a)'
    <2>1. CASE UNCHANGED req
      BY <2>1 DEF UpdaterInv, DataInv, Settled
    <2> QED
      BY <1>1, <1>4, <2>1, ArriveKeeps
  <1>6. DataInv'
    BY <1>1, <1>3, <1>5 DEF UpdaterInv, DataInv, Sequence
  <1>7. PhaseInv'
    BY <1>1 DEF UpdaterInv, PhaseInv, UnderWay, Attempt
  <1>8. SealedInv'
    <2>1. attempts[Attempt].disk # "terminal"
      BY <1>1 DEF UpdaterInv, PhaseInv, UnderWay
    <2> QED
      BY <1>1, <1>5, <2>1 DEF UpdaterInv, SealedInv
  <1> QED
    BY <1>6, <1>7, <1>8 DEF UpdaterInv

(* What the command knows at each stage of an attempt, and what a sealed   *)
(* attempt rests on, for any number of attempts, calls and requests.       *)
THEOREM UpdaterInvariance == Spec => []UpdaterInv
  <1>1. ASSUME UpdaterInv, Next PROVE UpdaterInv'
    BY <1>1, ProxyKeeps, LeaveKeeps, CloseProxyKeeps, ReadCountsKeeps, ReadUsageKeeps,
       SealKeeps, BeginKeeps, MoveKeeps, ProcessKeeps DEF Next, Command, Process
  <1>2. ASSUME UpdaterInv, UNCHANGED vars PROVE UpdaterInv'
    BY <1>2 DEF vars, UpdaterInv, DataInv, PhaseInv, SealedInv, Sequence, Attempt, Shut,
                Quiet, Settled
  <1>3. UpdaterInv /\ [Next]_vars => UpdaterInv'
    BY <1>1, <1>2
  <1> QED
    BY InitUpdater, <1>3, PTL DEF Spec

(* No candidate comes from an attempt of which anything is open (propose,  *)
(* ahe.py:794-812; _reconcile_proxy_counts and usage_mismatch, :402-421).  *)
THEOREM AcceptedStaysAccounted == Spec => []AcceptedIsAccounted
  <1>1. ASSUME UpdaterInv PROVE AcceptedIsAccounted
    BY <1>1 DEF UpdaterInv, DataInv, SealedInv, AcceptedIsAccounted, Settled, Truthful
  <1> QED
    BY UpdaterInvariance, <1>1, PTL

-----------------------------------------------------------------------------
(* What an attempt cost.                                                   *)

Own(a) == {i \in DOMAIN req : req[i].attempt = a}

\* every request belongs to an attempt that was started
OwnerInv ==
    /\ \A i \in DOMAIN req :
          req[i].attempt \in DOMAIN attempts /\ attempts[req[i].attempt].disk # "made"
    /\ pc \in UnderWay => attempts[Attempt].disk = "started"

\* what is known was billed; it is all that was billed if it is exact
CostInv ==
    \A a \in DOMAIN attempts :
        /\ attempts[a].disk # "terminal" => attempts[a].known = 0
        /\ attempts[a].known <= BilledFor(a)
        /\ attempts[a].disk = "terminal" /\ attempts[a].status = "exact" =>
              Settled(a) /\ attempts[a].known = BilledFor(a)

\* so is what the proxy found, if nothing was pending when it was asked
TotalsInv ==
    pc = "sealing" /\ usage # Unknown =>
        /\ usage \in Nat /\ usage <= BilledFor(Attempt)
        /\ count.pending = 0 => usage = BilledFor(Attempt)

BillInv == OwnerInv /\ CostInv /\ TotalsInv

(* The requests of an attempt are finitely many, and so is their bill.     *)
LEMMA BillType ==
    ASSUME req \in Seq(Request)
    PROVE  /\ IsFiniteSet(DOMAIN req) /\ \A i \in DOMAIN req : Bills[i] \in Nat
           /\ Billed \in Nat /\ \A a : BilledFor(a) \in Nat
  <1>1. IsFiniteSet(DOMAIN req)
    <2>1. DOMAIN req = 1..Len(req) /\ Len(req) \in Int
      OBVIOUS
    <2> QED
      BY <2>1, FS_Interval
  <1>2. \A i \in DOMAIN req : Bills[i] \in Nat
    <2>1. \A i \in DOMAIN req : req[i] \in Request
      OBVIOUS
    <2> QED
      BY <2>1 DEF Bills, Request
  <1> DEFINE D == DOMAIN req
  <1>3. \A T \in SUBSET D : Sum(Bills, T) \in Nat
    <2>1. IsFiniteSet(D) /\ \A i \in D : Bills[i] \in Nat
      BY <1>1, <1>2
    <2> HIDE DEF D
    <2> QED
      BY <2>1, SumType
  <1>4. Billed \in Nat
    BY <1>3 DEF Billed, Sum
  <1>5. \A a : BilledFor(a) \in Nat
    BY <1>3 DEF BilledFor, Sum
  <1> QED
    BY <1>1, <1>2, <1>4, <1>5

(* Requests that go onward are billed no less; settled ones are billed.    *)
LEMMA BillsGrow ==
    ASSUME DataInv, OnwardStep, NEW a
    PROVE  /\ BilledFor(a) \in Nat /\ BilledFor(a)' \in Nat /\ BilledFor(a) <= BilledFor(a)'
           /\ Settled(a) => BilledFor(a)' = BilledFor(a)
  <1>0. PICK S, f, h : S = Own(a) /\ f = Bills /\ h = Bills'
    OBVIOUS
  <1>1. /\ req \in Seq(Request) /\ req' \in Seq(Request) /\ DOMAIN req' = DOMAIN req
        /\ \A i \in DOMAIN req : Onward(req[i], req'[i]) /\ Truthful(req[i])
    BY DEF DataInv, OnwardStep
  <1>2. \A i \in DOMAIN req : req[i] \in Request /\ req'[i] \in Request
    BY <1>1
  <1>3. IsFiniteSet(S)
    <2>1. IsFiniteSet(DOMAIN req) /\ Own(a) \subseteq DOMAIN req
      BY <1>1, BillType DEF Own
    <2> QED
      BY <1>0, <2>1, FS_Subset
  <1>4. Own(a)' = Own(a)
    BY <1>1 DEF Own, Onward
  <1>5. \A i \in S : /\ f[i] \in Nat /\ h[i] \in Nat /\ f[i] <= h[i]
                   /\ (Settled(a) => h[i] = f[i])
    <2> SUFFICES ASSUME NEW i \in DOMAIN req, req[i].attempt = a
                 PROVE  /\ f[i] \in Nat /\ h[i] \in Nat /\ f[i] <= h[i]
                        /\ Settled(a) => h[i] = f[i]
      BY <1>0 DEF Own
    <2>1. f[i] = req[i].bill /\ h[i] = req'[i].bill
      BY <1>0, <1>1 DEF Bills
    <2>2. f[i] \in Nat /\ h[i] \in Nat
      BY <1>2, <2>1 DEF Request
    <2>3. f[i] <= h[i]
      BY <1>1, <2>1, <2>2 DEF Onward
    <2>4. ASSUME Settled(a) PROVE h[i] = f[i]
      <3>1. CASE req[i].at = "refused"
        BY <1>1, <2>1, <3>1 DEF Onward, Truthful
      <3>2. CASE req[i].at = "done" /\ req[i].got # 0
        BY <1>1, <2>1, <3>2 DEF Onward, Truthful
      <3> QED
        BY <2>4, <3>1, <3>2 DEF Settled
    <2> QED
      BY <2>2, <2>3, <2>4
  <1>6. BilledFor(a) = Sum(f, S) /\ BilledFor(a)' = Sum(h, S)
    BY <1>0, <1>4 DEF BilledFor, Own, Sum
  <1>7. Sum(f, S) <= Sum(h, S)
    BY <1>3, <1>5, SumGrows
  <1>8. ASSUME Settled(a) PROVE Sum(f, S) = Sum(h, S)
    <2>1. \A i \in S : f[i] \in Nat /\ h[i] = f[i]
      BY <1>5, <1>8
    <2> QED
      BY <1>3, <2>1, SumAgrees
  <1>9. Sum(f, S) \in Nat /\ Sum(h, S) \in Nat
    BY <1>3, <1>5, SumType
  <1> QED
    BY <1>6, <1>7, <1>8, <1>9

(* What the proxy found was billed to the attempt; all of it, if no        *)
(* request is in the hands of a thread.                                    *)
LEMMA TotalsAreBilled ==
    ASSUME DataInv, UsageTotals # Unknown
    PROVE  /\ UsageTotals \in Nat /\ UsageTotals <= BilledFor(Attempt)
           /\ Quiet(Attempt) => UsageTotals = BilledFor(Attempt)
  <1>0. PICK S, R, f, h : /\ S = Own(Attempt) /\ R = Recorded /\ h = Bills
                          /\ f = [i \in DOMAIN req |-> req[i].got]
    OBVIOUS
  <1>1. /\ req \in Seq(Request)
        /\ \A i \in DOMAIN req : req[i] \in Request /\ Truthful(req[i])
    BY DEF DataInv
  <1>2. /\ Recorded = Started /\ \A i \in Recorded : req[i].got # 0
        /\ UsageTotals = SumFunctionOnSet(f, R)
    BY <1>0 DEF UsageTotals
  <1>3. R \subseteq S /\ S \subseteq DOMAIN req
    BY <1>0 DEF Recorded, Of, Own
  <1>4. IsFiniteSet(S) /\ IsFiniteSet(R) /\ \A i \in S : h[i] \in Nat
    BY <1>0, <1>1, <1>3, BillType, FS_Subset
  <1>5. \A i \in R : h[i] \in Nat /\ f[i] = h[i]
    <2> SUFFICES ASSUME NEW i \in R PROVE h[i] \in Nat /\ f[i] = h[i]
      OBVIOUS
    <2>1. i \in DOMAIN req /\ req[i].got # 0
      BY <1>0, <1>2, <1>3
    <2> QED
      BY <1>0, <1>1, <2>1, <1>3, <1>4 DEF Truthful, Bills
  <1>6. Sum(h, R) = Sum(f, R)
    BY <1>4, <1>5, SumAgrees
  <1>7. /\ Sum(h, S) = Sum(h, R) + Sum(h, S \ R)
        /\ Sum(h, R) \in Nat /\ Sum(h, S \ R) \in Nat
    <2>1. PICK Q : Q = S \ R
      OBVIOUS
    <2>2. R \in SUBSET S /\ Q \in SUBSET S /\ R \cap Q = {} /\ R \cup Q = S
      BY <1>3, <2>1
    <2>3. Sum(h, R \cup Q) = Sum(h, R) + Sum(h, Q)
      BY <1>4, <2>2, SumUnion
    <2>4. Sum(h, R) \in Nat /\ Sum(h, Q) \in Nat
      BY <1>4, <2>2, SumType
    <2> QED
      BY <2>1, <2>2, <2>3, <2>4
  <1>8. UsageTotals = Sum(h, R) /\ BilledFor(Attempt) = Sum(h, S)
    BY <1>0, <1>2, <1>6 DEF BilledFor, Own, Sum
  <1>9. ASSUME Quiet(Attempt) PROVE Sum(h, S \ R) = 0
    <2>1. PICK Q : Q = S \ R
      OBVIOUS
    <2>2. \A i \in Q : h[i] = 0
      <3> SUFFICES ASSUME NEW i \in DOMAIN req, req[i].attempt = Attempt, i \notin Recorded
                   PROVE  req[i].bill = 0
        BY <1>0, <2>1 DEF Own, Bills
      <3>1. req[i].at \in {"refused", "done"}
        BY <1>9 DEF Quiet
      <3>2. req[i].at # "done"
        BY DEF Recorded, Of
      <3> QED
        BY <1>1, <3>1, <3>2 DEF Truthful
    <2>3. IsFiniteSet(Q)
      BY <1>4, <2>1, FS_Subset
    <2>4. Sum(h, Q) = 0
      BY <2>2, <2>3, SumNothing
    <2> QED
      BY <2>1, <2>4
  <1> QED
    BY <1>7, <1>8, <1>9

-----------------------------------------------------------------------------
(* Types.                                                                  *)

Record ==
    [disk : {"made", "started", "terminal", "torn"},
     status : {"none", "exact", "partial", "unavailable"},
     known : Nat, unresolved : Nat, exit : {"ok", "failed"}]
ModelCall ==
    [state : {"open", "completed", "failed"}, tries : 0..Tries, usage : Usage \union {0}]
Sent ==
    [attempt : 1..MaxAttempts, call : 0..MaxCalls, at : Stages,
     bill : Usage \union {0}, got : Usage \union {0}]

TypeInv ==
    /\ attempts \in Seq(Record) /\ Len(attempts) <= MaxAttempts
    /\ calls \in Seq(ModelCall) /\ Len(calls) <= MaxCalls
    /\ req \in Seq(Sent)
    /\ pc \in Threads \union {"off", "ready", "made", "launch"}
    /\ exit \in {"ok", "failed"}
    /\ count \in [started : Nat, pending : Nat]
    /\ usage \in Nat \union {Unknown}

(* The bounds are numbers.                                                 *)
LEMMA Bounds ==
    /\ Tries \in Nat /\ MaxAttempts \in Nat /\ MaxRequests \in Nat /\ MaxCalls \in Nat
    /\ MaxAttempts >= 1 /\ Tries >= 1
  BY BoundAssumption

(* A sequence of requests keeps its type if each keeps its own.            *)
LEMMA RequestsKept ==
    ASSUME TypeInv, NEW r, DOMAIN r = DOMAIN req, r = [i \in DOMAIN req |-> r[i]],
           \A i \in DOMAIN req : r[i] \in Sent
    PROVE  r \in Seq(Sent)
  <1>1. Len(req) \in Nat /\ DOMAIN req = 1..Len(req)
    BY DEF TypeInv
  <1>2. r \in [1..Len(req) -> Sent]
    BY <1>1
  <1> QED
    BY <1>1, <1>2

(* The steps of the threads and of the provider.                           *)
LEMMA ProxyTyped ==
    ASSUME TypeInv, Proxy
    PROVE  TypeInv'
  <1>1. UNCHANGED <<attempts, calls, pc, exit, count, usage>>
    BY DEF Proxy, Accept, Refuse, Forward, Bill, Relay, EndThread, KeepProcess
  <1>2. \A i \in DOMAIN req : req[i] \in Sent
    BY DEF TypeInv
  <1>3. ASSUME NEW i \in DOMAIN req, NEW from, NEW to \in Stages, Move(i, from, to)
        PROVE  req' \in Seq(Sent)
    <2>1. req' = [req EXCEPT ![i].at = to]
      BY <1>3 DEF Move
    <2>2. \A k \in DOMAIN req : req'[k] \in Sent
      BY <1>2, <2>1 DEF Sent
    <2> QED
      BY <2>1, <2>2, RequestsKept
  <1>4. req' \in Seq(Sent)
    <2>1. CASE Accept \/ Refuse \/ Forward \/ EndThread
      BY <1>3, <2>1 DEF Accept, Refuse, Forward, EndThread, Stages
    <2>2. CASE Bill
      <3>1. PICK i \in DOMAIN req, u \in Usage : req' = [req EXCEPT ![i].bill = u]
        BY <2>2 DEF Bill
      <3>2. \A k \in DOMAIN req : req'[k] \in Sent
        BY <1>2, <3>1 DEF Sent
      <3> QED
        BY <3>1, <3>2, RequestsKept
    <2>3. CASE Relay
      <3>1. PICK i \in DOMAIN req : \E got \in {0, req[i].bill} :
                req' = [req EXCEPT ![i].at = "recorded", ![i].got = got]
        BY <2>3 DEF Relay
      <3>2. PICK got \in {0, req[i].bill} :
                req' = [req EXCEPT ![i].at = "recorded", ![i].got = got]
        BY <3>1
      <3>3. req[i] \in Sent /\ got \in Usage \union {0}
        BY <1>2 DEF Sent
      <3>4. \A k \in DOMAIN req : req'[k] \in Sent
        BY <1>2, <3>2, <3>3 DEF Sent, Stages
      <3> QED
        BY <3>2, <3>4, RequestsKept
    <2> QED
      BY <2>1, <2>2, <2>3 DEF Proxy
  <1> QED
    BY <1>1, <1>4 DEF TypeInv

(* Closing the server, and leaving the command.                            *)
LEMMA LeaveTyped ==
    ASSUME TypeInv, CloseProxy \/ EndCommand \/ Die \/ TearTerminal
    PROVE  TypeInv'
  <1>1. \A i \in DOMAIN req : req[i] \in Sent
    BY DEF TypeInv
  <1>2. req' \in Seq(Sent)
    <2>1. \/ req' = [i \in DOMAIN req |-> Dropped(req[i])]
          \/ req' = [i \in DOMAIN req |-> Gone(req[i])]
      BY DEF CloseProxy, EndCommand, Die, TearTerminal, Leave
    <2>2. \A i \in DOMAIN req : Dropped(req[i]) \in Sent /\ Gone(req[i]) \in Sent
      BY <1>1 DEF Dropped, Gone, Sent, Stages
    <2>3. /\ DOMAIN req' = DOMAIN req /\ req' = [i \in DOMAIN req |-> req'[i]]
          /\ \A i \in DOMAIN req : req'[i] \in Sent
      BY <2>1, <2>2
    <2> QED
      BY <2>3, RequestsKept
  <1>3. attempts' \in Seq(Record) /\ Len(attempts') = Len(attempts)
    <2>1. CASE attempts' = attempts
      BY <2>1 DEF TypeInv
    <2>2. CASE attempts' = [attempts EXCEPT ![Attempt].disk = "torn"]
      <3>1. \A a \in DOMAIN attempts : attempts[a] \in Record
        BY DEF TypeInv
      <3>2. \A a \in DOMAIN attempts : attempts'[a] \in Record
        BY <2>2, <3>1 DEF Record
      <3>3. Len(attempts) \in Nat /\ DOMAIN attempts = 1..Len(attempts)
        BY DEF TypeInv
      <3>4. attempts' \in [1..Len(attempts) -> Record]
        BY <2>2, <3>2, <3>3
      <3> QED
        BY <3>3, <3>4
    <2> QED
      BY <2>1, <2>2 DEF CloseProxy, EndCommand, Die, TearTerminal
  <1>4. CASE CloseProxy
    BY <1>2, <1>4 DEF CloseProxy, Go, TypeInv, Threads, Serving
  <1>5. CASE Leave
    <2>1. /\ pc' = "off" /\ calls' = <<>> /\ exit' = "ok" /\ usage' = 0
          /\ count' = [started |-> 0, pending |-> 0]
      BY <1>5 DEF Leave, Forget, NoCount
    <2>2. calls' \in Seq(ModelCall) /\ Len(calls') <= MaxCalls
      BY <2>1, Bounds
    <2> QED
      BY <1>2, <1>3, <2>1, <2>2 DEF TypeInv
  <1> QED
    BY <1>4, <1>5 DEF EndCommand, Die, TearTerminal

(* The process.                                                            *)
LEMMA ProcessTyped ==
    ASSUME TypeInv, UpdaterInv, StartCall \/ SendRequest \/ SendUnrecorded \/ CompleteCall \/ FailCall
    PROVE  TypeInv'
  <1>1. pc \in {"running", "closing"} /\ UNCHANGED <<attempts, pc, exit, count, usage>>
    BY DEF StartCall, SendRequest, SendUnrecorded, CompleteCall, FailCall, KeepCommand, Serving
  <1>2. /\ calls \in Seq(ModelCall) /\ Len(calls) \in Nat /\ DOMAIN calls = 1..Len(calls)
        /\ Len(calls) <= MaxCalls /\ req \in Seq(Sent)
    BY DEF TypeInv
  <1>3. \A c \in DOMAIN calls : calls[c] \in ModelCall
    BY <1>2
  <1>4. \A c \in DOMAIN calls : c \in 0..MaxCalls
    BY <1>2, Bounds
  <1>5. ASSUME NEW c \in 0..MaxCalls, Arrive(c) PROVE req' \in Seq(Sent)
    <2> DEFINE r == [attempt |-> Attempt, call |-> c, at |-> "sent", bill |-> 0, got |-> 0]
    <2>1. Attempt \in 1..MaxAttempts
      <3>1. Len(attempts) \in Nat /\ Attempt >= 1
        BY <1>1 DEF TypeInv, UpdaterInv, PhaseInv, UnderWay
      <3> QED
        BY <3>1, Bounds DEF TypeInv, Attempt
    <2>2. r \in Sent
      BY <2>1 DEF Sent, Stages
    <2>3. req' = Append(req, r)
      BY <1>5 DEF Arrive
    <2> HIDE DEF r
    <2> QED
      BY <1>2, <2>2, <2>3, AppendProperties
  <1>6. req' \in Seq(Sent)
    <2>1. req' = req \/ \E c \in 0..MaxCalls : Arrive(c)
      BY <1>4, Bounds DEF StartCall, SendRequest, SendUnrecorded, CompleteCall, FailCall, CallsIn
    <2> QED
      BY <1>2, <1>5, <2>1
  <1>7. ASSUME NEW c \in DOMAIN calls, NEW k \in ModelCall, calls' = [calls EXCEPT ![c] = k]
        PROVE  calls' \in Seq(ModelCall) /\ Len(calls') = Len(calls)
    <2>1. calls' \in [1..Len(calls) -> ModelCall]
      BY <1>2, <1>3, <1>7
    <2> QED
      BY <1>2, <2>1
  <1>8. calls' \in Seq(ModelCall) /\ Len(calls') <= MaxCalls
    <2>1. CASE StartCall
      <3> DEFINE k == [state |-> "open", tries |-> 0, usage |-> 0]
      <3>1. k \in ModelCall
        BY Bounds DEF ModelCall
      <3>2. calls' = Append(calls, k) /\ Len(calls) < MaxCalls
        BY <2>1 DEF StartCall
      <3> HIDE DEF k
      <3>3. calls' \in Seq(ModelCall) /\ Len(calls') = Len(calls) + 1
        BY <1>2, <3>1, <3>2, AppendProperties
      <3> QED
        BY <1>2, <3>2, <3>3, Bounds
    <2>2. CASE SendRequest
      <3>1. PICK c \in DOMAIN calls :
                calls[c].tries < Tries /\ calls' = [calls EXCEPT ![c].tries = @ + 1]
        BY <2>2 DEF SendRequest, CallsIn
      <3>2. [calls[c] EXCEPT !.tries = @ + 1] \in ModelCall
        BY <1>3, <3>1, Bounds DEF ModelCall
      <3> QED
        BY <1>2, <1>7, <3>1, <3>2
    <2>3. CASE SendUnrecorded
      BY <1>2, <2>3 DEF SendUnrecorded
    <2>4. CASE CompleteCall
      <3>1. PICK i \in DOMAIN req :
                /\ req[i].call \in DOMAIN calls
                /\ calls' = [calls EXCEPT ![req[i].call].state = "completed",
                                          ![req[i].call].usage = req[i].bill]
        BY <2>4 DEF CompleteCall, CallsIn
      <3>2. PICK c, u : c = req[i].call /\ u = req[i].bill
        OBVIOUS
      <3>3. u \in Usage \union {0}
        <4>1. req[i] \in Sent
          BY <1>2
        <4> QED
          BY <3>2, <4>1 DEF Sent
      <3>4. c \in DOMAIN calls /\ calls' = [calls EXCEPT ![c].state = "completed", ![c].usage = u]
        BY <3>1, <3>2
      <3>5. calls[c] \in ModelCall
        BY <1>3, <3>4
      <3>6. [calls[c] EXCEPT !.state = "completed", !.usage = u] \in ModelCall
        BY <3>3, <3>5 DEF ModelCall
      <3>7. calls' = [calls EXCEPT ![c] = [calls[c] EXCEPT !.state = "completed", !.usage = u]]
        BY <3>4, <3>5 DEF ModelCall
      <3> QED
        BY <1>2, <1>7, <3>4, <3>6, <3>7
    <2>5. CASE FailCall
      <3>1. PICK c \in DOMAIN calls : calls' = [calls EXCEPT ![c].state = "failed"]
        BY <2>5 DEF FailCall, CallsIn
      <3>2. [calls[c] EXCEPT !.state = "failed"] \in ModelCall
        BY <1>3, <3>1 DEF ModelCall
      <3> QED
        BY <1>2, <1>7, <3>1, <3>2
    <2> QED
      BY <2>1, <2>2, <2>3, <2>4, <2>5
  <1> QED
    BY <1>1, <1>6, <1>8 DEF TypeInv

(* What is sealed.  The largest of three numbers is one of them, and the   *)
(* tokens of a ledger are a number.                                        *)
LEMMA TerminalTyped ==
    ASSUME TypeInv
    PROVE  Terminal \in Record
  <1>1. IsFiniteSet(DOMAIN calls) /\ \A c \in DOMAIN calls : calls[c] \in ModelCall
    <2>1. calls \in Seq(ModelCall) /\ DOMAIN calls = 1..Len(calls) /\ Len(calls) \in Int
      BY DEF TypeInv
    <2> QED
      BY <2>1, FS_Interval
  <1>2. Unresolved \in Nat
    <2>1. IsFiniteSet(CallsIn({"open"}))
      BY <1>1, FS_Subset DEF CallsIn
    <2> QED
      BY <2>1, FS_CardinalityType DEF Unresolved
  <1>3. LedgerUsage \in Nat
    <2>1. PICK f, S : S = Terminals /\ f = [c \in DOMAIN calls |-> calls[c].usage]
      OBVIOUS
    <2>2. IsFiniteSet(S)
      BY <1>1, <2>1, FS_Subset DEF Terminals, CallsIn
    <2>3. \A c \in S : f[c] \in Nat
      <3>1. \A c \in S : c \in DOMAIN calls /\ calls[c] \in ModelCall
        BY <1>1, <2>1 DEF Terminals, CallsIn
      <3>2. \A k \in ModelCall : k.usage \in Nat
        <4>1. \A u \in Usage \union {0} : u \in Nat
          BY UsageAssumption
        <4> QED
          BY <4>1 DEF ModelCall
      <3>3. \A c \in S : f[c] = calls[c].usage
        BY <2>1, <3>1
      <3> QED
        BY <3>1, <3>2, <3>3
    <2>4. Sum(f, S) \in Nat
      BY <2>2, <2>3, SumType
    <2> QED
      BY <2>1, <2>4 DEF LedgerUsage, Sum
  <1>4. Gap \in Nat /\ count.pending \in Nat
    <2>1. Len(calls) \in Nat /\ count.started \in Nat /\ count.pending \in Nat
      BY DEF TypeInv
    <2> QED
      BY <2>1 DEF Gap
  <1>5. Max({Gap, count.pending, 1}) \in Nat
    <2>1. PICK g, n : g = Gap /\ n = count.pending
      OBVIOUS
    <2>2. \E x \in {g, n, 1} : \A y \in {g, n, 1} : x >= y
      BY <1>4, <2>1
    <2>3. Max({g, n, 1}) \in {g, n, 1}
      BY <2>2 DEF Max
    <2> QED
      BY <1>4, <2>1, <2>3
  <1>6. PICK u, g, m, l : /\ u = Unresolved /\ g = Gap /\ m = Max({Gap, count.pending, 1})
                          /\ l = LedgerUsage
    OBVIOUS
  <1>7. u \in Nat /\ g \in Nat /\ m \in Nat /\ l \in Nat
    BY <1>2, <1>3, <1>4, <1>5, <1>6
  <1>8. usage \in Nat \union {Unknown} /\ exit \in {"ok", "failed"}
    BY DEF TypeInv
  <1>9. PICK wire \in BOOLEAN, exact \in BOOLEAN :
            Terminal = [disk |-> "terminal",
                        status |-> IF exact THEN "exact"
                                   ELSE IF usage = Unknown THEN "unavailable" ELSE "partial",
                        known |-> IF exact THEN l ELSE IF usage = Unknown THEN 0 ELSE usage,
                        unresolved |-> u + (IF wire THEN m ELSE 0) + (IF exact THEN 0 ELSE 1),
                        exit |-> IF exact THEN exit ELSE "failed"]
    BY <1>6 DEF Terminal
  <1> QED
    BY <1>7, <1>8, <1>9 DEF Record

(* The other steps of the command.                                         *)
LEMMA CommandTyped ==
    ASSUME TypeInv, UpdaterInv,
           \/ StartCommand \/ MakeDirectory \/ WriteStarted \/ Launch \/ LaunchFails
           \/ ProcessEnds \/ ProcessKilled \/ ReadCounts \/ ReadUsage \/ Seal
    PROVE  TypeInv'
  <1>0. /\ attempts \in Seq(Record) /\ Len(attempts) \in Nat /\ DOMAIN attempts = 1..Len(attempts)
        /\ Len(attempts) <= MaxAttempts
    BY DEF TypeInv
  <1>1. CASE StartCommand \/ Launch \/ LaunchFails \/ ProcessEnds \/ ProcessKilled
    BY <1>1 DEF StartCommand, Launch, LaunchFails, ProcessEnds, ProcessKilled, Go, TypeInv,
                Threads, Serving
  <1>2. CASE MakeDirectory
    <2>1. NewAttempt \in Record
      BY DEF NewAttempt, Record
    <2>2. /\ attempts' = Append(attempts, NewAttempt) /\ Len(attempts) < MaxAttempts
          /\ pc' = "made" /\ UNCHANGED <<calls, req, exit, count, usage>>
      BY <1>2 DEF MakeDirectory, Go
    <2>3. attempts' \in Seq(Record) /\ Len(attempts') = Len(attempts) + 1
      BY <1>0, <2>1, <2>2, AppendProperties
    <2>4. Len(attempts') <= MaxAttempts
      BY <1>0, <2>2, <2>3, Bounds
    <2> QED
      BY <2>2, <2>3, <2>4 DEF TypeInv
  <1>3. CASE WriteStarted
    <2>1. /\ attempts' = [attempts EXCEPT ![Attempt].disk = "started"]
          /\ pc' = "launch" /\ UNCHANGED <<calls, req, exit, count, usage>>
      BY <1>3 DEF WriteStarted, Go
    <2>2. \A a \in DOMAIN attempts : attempts[a] \in Record
      BY <1>0
    <2>3. attempts' \in [1..Len(attempts) -> Record]
      BY <1>0, <2>1, <2>2 DEF Record
    <2>4. attempts' \in Seq(Record) /\ Len(attempts') = Len(attempts)
      BY <1>0, <2>3
    <2> QED
      BY <2>1, <2>4 DEF TypeInv
  <1>4. CASE ReadCounts
    <2>1. /\ count' = [started |-> Cardinality(Started), pending |-> Cardinality(Pending)]
          /\ pc' = "counted" /\ UNCHANGED <<attempts, calls, req, exit, usage>>
      BY <1>4 DEF ReadCounts, Go
    <2>2. IsFiniteSet(DOMAIN req)
      BY BillType DEF UpdaterInv, DataInv
    <2>3. IsFiniteSet(Started) /\ IsFiniteSet(Pending)
      BY <2>2, FS_Subset DEF Started, Pending, Of
    <2>4. Cardinality(Started) \in Nat /\ Cardinality(Pending) \in Nat
      BY <2>3, FS_CardinalityType
    <2> QED
      BY <2>1, <2>4 DEF TypeInv, Threads
  <1>5. CASE ReadUsage
    <2>1. usage' = UsageTotals /\ pc' = "sealing" /\ UNCHANGED <<attempts, calls, req, exit, count>>
      BY <1>5 DEF ReadUsage, Go
    <2>2. UsageTotals \in Nat \union {Unknown}
      BY TotalsAreBilled DEF UpdaterInv
    <2> QED
      BY <2>1, <2>2 DEF TypeInv, Threads
  <1>6. CASE Seal
    <2>1. /\ attempts' = [attempts EXCEPT ![Attempt] = Terminal]
          /\ pc' \in {"ready", "ending"} /\ UNCHANGED req
          /\ calls' = <<>> /\ exit' = "ok" /\ count' = NoCount /\ usage' = 0
      BY <1>6 DEF Seal, Forget
    <2>2. attempts' \in [1..Len(attempts) -> Record]
      <3>1. PICK t \in Record : t = Terminal
        BY TerminalTyped
      <3>2. attempts' = [attempts EXCEPT ![Attempt] = t]
        BY <2>1, <3>1
      <3>3. \A a \in 1..Len(attempts) : attempts'[a] \in Record
        BY <1>0, <3>2
      <3> QED
        BY <1>0, <3>2, <3>3
    <2>3. attempts' \in Seq(Record) /\ Len(attempts') = Len(attempts)
      BY <1>0, <2>2
    <2>4. calls' \in Seq(ModelCall) /\ Len(calls') <= MaxCalls
      BY <2>1, Bounds
    <2> QED
      BY <2>1, <2>3, <2>4 DEF TypeInv, Threads, NoCount
  <1> QED
    BY <1>1, <1>2, <1>3, <1>4, <1>5, <1>6

(* Everything has the type the module says it has.                         *)
LEMMA TypeInvariance == Spec => []TypeInv
  <1>1. Init => TypeInv
    <2> SUFFICES ASSUME Init PROVE TypeInv
      OBVIOUS
    <2>1. <<>> \in Seq(Record) /\ <<>> \in Seq(ModelCall) /\ <<>> \in Seq(Sent)
          /\ Len(<<>>) = 0
      OBVIOUS
    <2> QED
      BY <2>1, Bounds DEF Init, TypeInv, NoCount
  <1>2. UpdaterInv /\ TypeInv /\ [Next]_vars => TypeInv'
    <2> SUFFICES ASSUME UpdaterInv, TypeInv, [Next]_vars PROVE TypeInv'
      OBVIOUS
    <2>1. CASE Next
      BY <2>1, ProxyTyped, LeaveTyped, ProcessTyped, CommandTyped DEF Next, Command, Process
    <2>2. CASE UNCHANGED vars
      BY <2>2 DEF vars, TypeInv
    <2> QED
      BY <2>1, <2>2
  <1> QED
    BY UpdaterInvariance, <1>1, <1>2, PTL DEF Spec

(* Type correctness for any sizes, the tokens of an attempt included.      *)
THEOREM TypeCorrect == Spec => []TypeOK
  <1>1. TypeInv => TypeOK
    BY DEF TypeInv, TypeOK, Record, ModelCall, Sent, Stages
  <1> QED
    BY TypeInvariance, <1>1, PTL

-----------------------------------------------------------------------------
(* What is reported is what is billed.                                     *)

(* What was read of the proxy, whatever the record says: exact or not, the *)
(* cost is no more than what was billed.                                   *)
LEMMA TerminalCost ==
    ASSUME UpdaterInv, TypeInv, BillInv, pc = "sealing"
    PROVE  /\ Terminal.disk = "terminal" /\ Terminal.known <= BilledFor(Attempt)
           /\ Terminal.status = "exact" =>
                 Settled(Attempt) /\ Terminal.known = BilledFor(Attempt)
  <1>1. PICK bill, l : bill = BilledFor(Attempt) /\ l = LedgerUsage
    OBVIOUS
  <1>2. bill \in Nat
    BY <1>1, BillType DEF UpdaterInv, DataInv
  <1>3. usage # Unknown => /\ usage \in Nat /\ usage <= bill
                           /\ (count.pending = 0 => usage = bill)
    BY <1>1 DEF BillInv, TotalsInv
  <1>4. count.pending = 0 /\ usage # Unknown => Settled(Attempt)
    BY DEF UpdaterInv, PhaseInv
  <1>5. PICK exact \in BOOLEAN :
            /\ exact => count.pending = 0 /\ usage # Unknown /\ usage = l
            /\ Terminal.disk = "terminal"
            /\ Terminal.status = IF exact THEN "exact"
                                 ELSE IF usage = Unknown THEN "unavailable" ELSE "partial"
            /\ Terminal.known = IF exact THEN l ELSE IF usage = Unknown THEN 0 ELSE usage
    BY <1>1 DEF Terminal
  <1>6. Terminal.status = "exact" => exact
    BY <1>5
  <1> QED
    BY <1>1, <1>2, <1>3, <1>4, <1>5, <1>6

(* Without a request that changes, no bill does.                           *)
LEMMA BillsStay ==
    ASSUME UNCHANGED req, NEW a
    PROVE  BilledFor(a)' = BilledFor(a) /\ Settled(a)' = Settled(a)
  BY DEF BilledFor, Bills, Settled

(* A request that arrives is one of the attempt under way.                 *)
LEMMA ArrivalIsOwn ==
    ASSUME DataInv, NEW c, Arrive(c), Sequence(attempts), NEW a, a # Attempt
    PROVE  BilledFor(a)' = BilledFor(a)
  <1> DEFINE r == [attempt |-> Attempt, call |-> c, at |-> "sent", bill |-> 0, got |-> 0]
  <1>1. req \in Seq(Request) /\ req \in Seq(Request \union {r})
    BY DEF DataInv
  <1>2. r.attempt = Attempt /\ req' = Append(req, r) /\ r \in Request \union {r}
    BY DEF Arrive
  <1> HIDE DEF r
  <1>3. /\ Len(req') = Len(req) + 1 /\ req' \in Seq(Request \union {r})
        /\ \A i \in 1..Len(req) : req'[i] = req[i]
        /\ req'[Len(req) + 1] = r
    BY <1>1, <1>2, AppendProperties
  <1>4. DOMAIN req = 1..Len(req) /\ DOMAIN req' = 1..(Len(req) + 1) /\ Len(req) \in Nat
    BY <1>1, <1>3
  <1>5. PICK S, f, h : S = Own(a) /\ f = Bills /\ h = Bills'
    OBVIOUS
  <1>6. Own(a)' = S
    BY <1>2, <1>3, <1>4, <1>5 DEF Own
  <1>7. \A i \in S : f[i] \in Nat /\ h[i] = f[i]
    <2> SUFFICES ASSUME NEW i \in DOMAIN req PROVE f[i] \in Nat /\ h[i] = f[i]
      BY <1>5 DEF Own
    <2>1. req[i] \in Request /\ i \in DOMAIN req' /\ req'[i] = req[i]
      BY <1>1, <1>3, <1>4
    <2> QED
      BY <1>5, <2>1 DEF Bills, Request
  <1>8. IsFiniteSet(S)
    <2>1. IsFiniteSet(DOMAIN req) /\ S \subseteq DOMAIN req
      BY <1>1, <1>5, BillType DEF Own
    <2> QED
      BY <2>1, FS_Subset
  <1>9. Sum(f, S) = Sum(h, S)
    BY <1>7, <1>8, SumAgrees
  <1> QED
    BY <1>5, <1>6, <1>9 DEF BilledFor, Own, Sum

(* Threads, the provider, the end of the server and of the command: bills  *)
(* that are settled stay, the others may grow.                             *)
LEMMA OnwardBills ==
    ASSUME UpdaterInv, TypeInv, BillInv,
           Proxy \/ CloseProxy \/ EndCommand \/ Die \/ TearTerminal
    PROVE  BillInv'
  <1>1. OnwardStep
    BY ProxyOnward, LeaveOnward DEF UpdaterInv, EndCommand, Die, TearTerminal
  <1>2. /\ DataInv
        /\ \A a : /\ BilledFor(a) \in Nat /\ BilledFor(a)' \in Nat
                  /\ BilledFor(a) <= BilledFor(a)'
                  /\ (Settled(a) => BilledFor(a)' = BilledFor(a))
        /\ \A a : Settled(a) => Settled(a)'
    BY <1>1, BillsGrow, KnownStays DEF UpdaterInv
  <1>3. /\ DOMAIN req' = DOMAIN req
        /\ \A i \in DOMAIN req : req'[i].attempt = req[i].attempt
    BY <1>1 DEF OnwardStep, Onward
  <1>4. \A a \in DOMAIN attempts : attempts[a] \in Record
    BY DEF TypeInv
  <1>5. /\ Len(attempts') = Len(attempts) /\ DOMAIN attempts' = DOMAIN attempts
        /\ \A a \in DOMAIN attempts :
              \/ attempts'[a] = attempts[a]
              \/ /\ attempts[a].disk = "started" /\ attempts'[a].disk = "torn"
                 /\ attempts'[a].known = attempts[a].known
    <2>1. CASE attempts' = attempts
      BY <2>1
    <2>2. CASE pc = "sealing" /\ attempts' = [attempts EXCEPT ![Attempt].disk = "torn"]
      <3>1. attempts[Attempt].disk = "started"
        BY <2>2 DEF BillInv, OwnerInv, UnderWay
      <3>2. Len(attempts') = Len(attempts) /\ DOMAIN attempts' = DOMAIN attempts
        BY <2>2 DEF TypeInv
      <3> QED
        BY <1>4, <2>2, <3>1, <3>2 DEF Record
    <2> QED
      BY <2>1, <2>2 DEF Proxy, Accept, Refuse, Forward, Bill, Relay, EndThread, KeepProcess,
                        CloseProxy, EndCommand, Die, TearTerminal
  <1>6. /\ pc' \in UnderWay => pc \in UnderWay /\ attempts' = attempts
        /\ pc' = "sealing" => pc = "sealing" /\ UNCHANGED <<attempts, count, usage>>
    BY DEF Proxy, Accept, Refuse, Forward, Bill, Relay, EndThread, KeepProcess,
           CloseProxy, EndCommand, Die, TearTerminal, Leave, Go, UnderWay
  <1>7. OwnerInv'
    <2>1. \A i \in DOMAIN req :
              req[i].attempt \in DOMAIN attempts /\ attempts[req[i].attempt].disk # "made"
      BY DEF BillInv, OwnerInv
    <2>2. \A i \in DOMAIN req' : req'[i].attempt \in DOMAIN attempts'
                               /\ attempts'[req'[i].attempt].disk # "made"
      BY <1>3, <1>5, <2>1
    <2>3. pc' \in UnderWay => attempts'[Attempt'].disk = "started"
      BY <1>6 DEF BillInv, OwnerInv, Attempt
    <2> QED
      BY <2>2, <2>3 DEF OwnerInv
  <1>8. CostInv'
    <2> SUFFICES ASSUME NEW a \in DOMAIN attempts
                 PROVE  /\ attempts'[a].disk # "terminal" => attempts'[a].known = 0
                        /\ attempts'[a].known <= BilledFor(a)'
                        /\ attempts'[a].disk = "terminal" /\ attempts'[a].status = "exact" =>
                              Settled(a)' /\ attempts'[a].known = BilledFor(a)'
      BY <1>5 DEF CostInv, BilledFor, Settled
    <2>1. /\ attempts[a].disk # "terminal" => attempts[a].known = 0
          /\ attempts[a].known <= BilledFor(a)
          /\ attempts[a].disk = "terminal" /\ attempts[a].status = "exact" =>
                Settled(a) /\ attempts[a].known = BilledFor(a)
      BY DEF BillInv, CostInv
    <2>2. attempts[a].known \in Nat
      BY <1>4 DEF Record
    <2>3. attempts[a].known <= BilledFor(a)'
      BY <1>2, <2>1, <2>2
    <2> QED
      BY <1>2, <1>5, <2>1, <2>3
  <1>9. TotalsInv'
    <2> SUFFICES ASSUME pc' = "sealing", usage' # Unknown
                 PROVE  /\ usage' \in Nat /\ usage' <= BilledFor(Attempt)'
                        /\ count'.pending = 0 => usage' = BilledFor(Attempt)'
      BY DEF TotalsInv
    <2>1. pc = "sealing" /\ usage' = usage /\ count' = count /\ Attempt' = Attempt
      BY <1>6 DEF Attempt
    <2>2. /\ usage \in Nat /\ usage <= BilledFor(Attempt)
          /\ count.pending = 0 => usage = BilledFor(Attempt) /\ Settled(Attempt)
      BY <2>1 DEF BillInv, TotalsInv, UpdaterInv, PhaseInv
    <2>3. PICK a : a = Attempt
      OBVIOUS
    <2>4. BilledFor(Attempt)' = BilledFor(a)'
      BY <2>1, <2>3 DEF BilledFor
    <2> QED
      BY <1>2, <2>1, <2>2, <2>3, <2>4
  <1> QED
    BY <1>7, <1>8, <1>9 DEF BillInv

(* The start of an attempt costs nothing.                                  *)
LEMMA BeginBills ==
    ASSUME UpdaterInv, TypeInv, BillInv, MakeDirectory \/ WriteStarted
    PROVE  BillInv'
  <1>1. /\ attempts \in Seq(Record) /\ Len(attempts) \in Nat /\ DOMAIN attempts = 1..Len(attempts)
        /\ \A a \in DOMAIN attempts : attempts[a] \in Record
    BY DEF TypeInv
  <1>2. UNCHANGED req /\ pc' \in {"made", "launch"}
    BY DEF MakeDirectory, WriteStarted, Go
  <1>3. \A a : BilledFor(a)' = BilledFor(a) /\ Settled(a)' = Settled(a) /\ BilledFor(a) \in Nat
    BY <1>2, BillsStay, BillType DEF UpdaterInv, DataInv
  <1>4. /\ DOMAIN attempts \subseteq DOMAIN attempts'
        /\ pc' = "launch" => attempts'[Attempt'].disk = "started"
        /\ \A a \in DOMAIN attempts' :
              IF a \in DOMAIN attempts
                THEN \/ attempts'[a] = attempts[a]
                     \/ /\ attempts'[a].disk = "started" /\ attempts[a].disk # "terminal"
                        /\ attempts'[a].known = attempts[a].known
                ELSE attempts'[a].disk = "made" /\ attempts'[a].known = 0
    <2>1. CASE MakeDirectory
      <3>1. NewAttempt \in Record /\ NewAttempt.disk = "made" /\ NewAttempt.known = 0
        BY DEF NewAttempt, Record
      <3>2. attempts' = Append(attempts, NewAttempt) /\ pc' = "made"
        BY <2>1 DEF MakeDirectory, Go
      <3>3. /\ attempts' \in Seq(Record) /\ Len(attempts') = Len(attempts) + 1
            /\ \A a \in 1..Len(attempts) : attempts'[a] = attempts[a]
            /\ attempts'[Len(attempts) + 1] = NewAttempt
        BY <1>1, <3>1, <3>2, AppendProperties
      <3>4. DOMAIN attempts' = 1..(Len(attempts) + 1)
        BY <3>3
      <3>5. \A a \in DOMAIN attempts' : a \in DOMAIN attempts \/ a = Len(attempts) + 1
        BY <1>1, <3>4
      <3>6. DOMAIN attempts \subseteq DOMAIN attempts' /\ Len(attempts) + 1 \notin DOMAIN attempts
        BY <1>1, <3>4
      <3> QED
        BY <1>1, <3>1, <3>2, <3>3, <3>5, <3>6
    <2>2. CASE WriteStarted
      <3>1. attempts' = [attempts EXCEPT ![Attempt].disk = "started"] /\ pc = "made"
        BY <2>2 DEF WriteStarted, Go
      <3>2. Attempt \in DOMAIN attempts /\ attempts[Attempt].disk # "terminal"
        BY <1>1, <3>1 DEF UpdaterInv, PhaseInv, Attempt
      <3>3. Attempt' = Attempt
        BY <1>1, <3>1 DEF Attempt
      <3>4. attempts[Attempt] \in Record
        BY <1>1, <3>2
      <3> QED
        BY <3>1, <3>2, <3>3, <3>4 DEF Record
    <2> QED
      BY <2>1, <2>2
  <1>5. OwnerInv'
    <2>1. \A i \in DOMAIN req :
              req[i].attempt \in DOMAIN attempts /\ attempts[req[i].attempt].disk # "made"
      BY DEF BillInv, OwnerInv
    <2>2. \A i \in DOMAIN req :
              req[i].attempt \in DOMAIN attempts' /\ attempts'[req[i].attempt].disk # "made"
      BY <1>4, <2>1
    <2>3. pc' \in UnderWay => pc' = "launch"
      BY <1>2 DEF UnderWay
    <2> QED
      BY <1>2, <1>4, <2>2, <2>3 DEF OwnerInv
  <1>6. CostInv'
    <2> SUFFICES ASSUME NEW a \in DOMAIN attempts'
                 PROVE  /\ attempts'[a].disk # "terminal" => attempts'[a].known = 0
                        /\ attempts'[a].known <= BilledFor(a)'
                        /\ attempts'[a].disk = "terminal" /\ attempts'[a].status = "exact" =>
                              Settled(a)' /\ attempts'[a].known = BilledFor(a)'
      BY DEF CostInv, BilledFor, Settled
    <2>1. CASE a \in DOMAIN attempts
      <3>1. /\ attempts[a].disk # "terminal" => attempts[a].known = 0
            /\ attempts[a].known <= BilledFor(a)
            /\ attempts[a].disk = "terminal" /\ attempts[a].status = "exact" =>
                  Settled(a) /\ attempts[a].known = BilledFor(a)
        BY <2>1 DEF BillInv, CostInv
      <3> QED
        BY <1>3, <1>4, <2>1, <3>1
    <2>2. CASE a \notin DOMAIN attempts
      BY <1>3, <1>4, <2>2
    <2> QED
      BY <2>1, <2>2
  <1>7. TotalsInv'
    BY <1>2 DEF TotalsInv
  <1> QED
    BY <1>5, <1>6, <1>7 DEF BillInv

(* Reading is asking, and moving on is nothing to anyone's bill.           *)
LEMMA ReadBills ==
    ASSUME UpdaterInv, TypeInv, BillInv,
           \/ StartCommand \/ Launch \/ LaunchFails \/ ProcessEnds \/ ProcessKilled
           \/ ReadCounts \/ ReadUsage
    PROVE  BillInv'
  <1>1. /\ UNCHANGED <<attempts, req>>
        /\ pc' \in UnderWay => pc \in UnderWay
        /\ pc' = "sealing" => ReadUsage
    BY DEF StartCommand, Launch, LaunchFails, ProcessEnds, ProcessKilled, ReadCounts, ReadUsage,
           Go, UnderWay
  <1>2. \A a : BilledFor(a)' = BilledFor(a) /\ Settled(a)' = Settled(a)
    BY <1>1, BillsStay
  <1>3. Attempt' = Attempt /\ BilledFor(Attempt)' = BilledFor(Attempt)
    BY <1>1 DEF Attempt, BilledFor, Bills
  <1>4. OwnerInv'
    BY <1>1, <1>3 DEF BillInv, OwnerInv
  <1>5. CostInv'
    BY <1>1, <1>2 DEF BillInv, CostInv
  <1>6. TotalsInv'
    <2> SUFFICES ASSUME ReadUsage PROVE TotalsInv'
      BY <1>1 DEF TotalsInv
    <2>1. usage' = UsageTotals /\ UNCHANGED count /\ pc = "counted"
      BY DEF ReadUsage, Go
    <2>2. count.pending = 0 => Quiet(Attempt)
      BY <2>1 DEF UpdaterInv, PhaseInv
    <2> QED
      BY <1>3, <2>1, <2>2, TotalsAreBilled DEF UpdaterInv, TotalsInv
  <1> QED
    BY <1>4, <1>5, <1>6 DEF BillInv

(* The record of an attempt says what it cost, or less.                    *)
LEMMA SealBills ==
    ASSUME UpdaterInv, TypeInv, BillInv, Seal
    PROVE  BillInv'
  <1>1. /\ pc = "sealing" /\ attempts' = [attempts EXCEPT ![Attempt] = Terminal]
        /\ pc' \in {"ready", "ending"} /\ UNCHANGED req
    BY DEF Seal
  <1>2. \A a : BilledFor(a)' = BilledFor(a) /\ Settled(a)' = Settled(a)
    BY <1>1, BillsStay
  <1>3. PICK t : t = Terminal
    OBVIOUS
  <1>4. /\ t.disk = "terminal" /\ t.known <= BilledFor(Attempt)
        /\ t.status = "exact" => Settled(Attempt) /\ t.known = BilledFor(Attempt)
    BY <1>1, <1>3, TerminalCost
  <1>5. /\ DOMAIN attempts' = DOMAIN attempts
        /\ \A a \in DOMAIN attempts : attempts'[a] = IF a = Attempt THEN t ELSE attempts[a]
    BY <1>1, <1>3
  <1>6. OwnerInv'
    BY <1>1, <1>4, <1>5 DEF BillInv, OwnerInv, UnderWay
  <1>7. CostInv'
    <2> SUFFICES ASSUME NEW a \in DOMAIN attempts
                 PROVE  /\ attempts'[a].disk # "terminal" => attempts'[a].known = 0
                        /\ attempts'[a].known <= BilledFor(a)
                        /\ attempts'[a].disk = "terminal" /\ attempts'[a].status = "exact" =>
                              Settled(a) /\ attempts'[a].known = BilledFor(a)
      BY <1>2, <1>5 DEF CostInv
    <2>1. /\ attempts[a].disk # "terminal" => attempts[a].known = 0
          /\ attempts[a].known <= BilledFor(a)
          /\ attempts[a].disk = "terminal" /\ attempts[a].status = "exact" =>
                Settled(a) /\ attempts[a].known = BilledFor(a)
      BY DEF BillInv, CostInv
    <2> QED
      BY <1>4, <1>5, <2>1
  <1>8. TotalsInv'
    BY <1>1 DEF TotalsInv
  <1> QED
    BY <1>6, <1>7, <1>8 DEF BillInv

(* The process makes requests of the attempt under way only, of which      *)
(* nothing is known yet.                                                   *)
LEMMA ProcessBills ==
    ASSUME UpdaterInv, UpdaterInv', TypeInv, BillInv,
           StartCall \/ SendRequest \/ SendUnrecorded \/ CompleteCall \/ FailCall
    PROVE  BillInv'
  <1>1. pc \in {"running", "closing"} /\ UNCHANGED <<attempts, pc, exit, count, usage>>
    BY DEF StartCall, SendRequest, SendUnrecorded, CompleteCall, FailCall, KeepCommand, Serving
  <1>2. /\ attempts[Attempt].disk = "started" /\ Attempt \in DOMAIN attempts
        /\ \A a \in DOMAIN attempts : attempts[a] \in Record
        /\ req \in Seq(Request)
    BY <1>1 DEF BillInv, OwnerInv, UnderWay, UpdaterInv, DataInv, PhaseInv, TypeInv, Attempt
  <1>3. CASE UNCHANGED req
    <2>1. \A a : BilledFor(a)' = BilledFor(a) /\ Settled(a)' = Settled(a)
      BY <1>3, BillsStay
    <2> QED
      BY <1>1, <1>3, <2>1 DEF BillInv, OwnerInv, CostInv, TotalsInv, Attempt
  <1>4. ASSUME NEW c \in Nat, Arrive(c) PROVE BillInv'
    <2>1. /\ \A a : a # Attempt => BilledFor(a)' = BilledFor(a)
          /\ \A a \in DOMAIN attempts : a # Attempt /\ Settled(a) => Settled(a)'
      BY <1>1, <1>4, ArrivalIsOwn, ArriveKeeps DEF UpdaterInv, DataInv
    <2>2. BilledFor(Attempt)' \in Nat
      <3>1. PICK S, h : S = Own(Attempt)' /\ h = Bills'
        OBVIOUS
      <3>2. req' \in Seq(Request)
        BY DEF UpdaterInv, DataInv
      <3>3. DOMAIN req' = 1..Len(req') /\ Len(req') \in Int /\ S \subseteq DOMAIN req'
        BY <3>1, <3>2 DEF Own
      <3>4. IsFiniteSet(S)
        BY <3>3, FS_Interval, FS_Subset
      <3>5. \A i \in S : h[i] \in Nat
        <4>1. \A i \in DOMAIN req' : req'[i] \in Request
          BY <3>2
        <4> QED
          BY <3>1, <3>3, <4>1 DEF Bills, Request
      <3>6. Sum(h, S) \in Nat
        BY <3>4, <3>5, SumType
      <3> QED
        BY <3>1, <3>6 DEF BilledFor, Own, Sum
    <2>3. OwnerInv'
      <3> DEFINE r == [attempt |-> Attempt, call |-> c, at |-> "sent", bill |-> 0, got |-> 0]
      <3>1. r.attempt = Attempt /\ req' = Append(req, r)
        BY <1>4 DEF Arrive
      <3> HIDE DEF r
      <3>2. \A i \in DOMAIN req' : req'[i].attempt = Attempt
                                \/ (i \in DOMAIN req /\ req'[i] = req[i])
        BY <1>2, <3>1
      <3> QED
        BY <1>1, <1>2, <3>2 DEF BillInv, OwnerInv, Attempt
    <2>4. CostInv'
      <3> SUFFICES ASSUME NEW a \in DOMAIN attempts
                   PROVE  /\ attempts[a].disk # "terminal" => attempts[a].known = 0
                          /\ attempts[a].known <= BilledFor(a)'
                          /\ attempts[a].disk = "terminal" /\ attempts[a].status = "exact" =>
                                Settled(a)' /\ attempts[a].known = BilledFor(a)'
        BY <1>1 DEF CostInv
      <3>1. /\ attempts[a].disk # "terminal" => attempts[a].known = 0
            /\ attempts[a].known <= BilledFor(a)
            /\ attempts[a].disk = "terminal" /\ attempts[a].status = "exact" =>
                  Settled(a) /\ attempts[a].known = BilledFor(a)
        BY DEF BillInv, CostInv
      <3>2. CASE a = Attempt
        <4>1. BilledFor(a)' \in Nat
          BY <1>1, <2>2, <3>2 DEF BilledFor, Attempt
        <4> QED
          BY <1>2, <3>1, <3>2, <4>1
      <3>3. CASE a # Attempt
        BY <2>1, <3>1, <3>3
      <3> QED
        BY <3>2, <3>3
    <2>5. TotalsInv'
      BY <1>1 DEF TotalsInv
    <2> QED
      BY <2>3, <2>4, <2>5 DEF BillInv
  <1>5. UNCHANGED req \/ \E c \in Nat : Arrive(c)
    <2>1. \A c \in DOMAIN calls : c \in Nat
      BY DEF UpdaterInv, DataInv
    <2> QED
      BY <2>1 DEF StartCall, SendRequest, SendUnrecorded, CompleteCall, FailCall, CallsIn
  <1> QED
    BY <1>3, <1>4, <1>5

(* What is known of the cost of an attempt, while it is under way and when *)
(* it is sealed, for any number of attempts, calls, requests and tokens.   *)
LEMMA BillInvariance == Spec => []BillInv
  <1>1. Init => BillInv
    BY DEF Init, BillInv, OwnerInv, CostInv, TotalsInv, UnderWay
  <1>2. UpdaterInv /\ UpdaterInv' /\ TypeInv /\ BillInv /\ [Next]_vars => BillInv'
    <2> SUFFICES ASSUME UpdaterInv, UpdaterInv', TypeInv, BillInv, [Next]_vars PROVE BillInv'
      OBVIOUS
    <2>1. CASE Next
      BY <2>1, OnwardBills, BeginBills, ReadBills, SealBills, ProcessBills
         DEF Next, Command, Process
    <2>2. CASE UNCHANGED vars
      BY <2>2 DEF vars, BillInv, OwnerInv, CostInv, TotalsInv, Attempt, BilledFor, Bills, Settled
    <2> QED
      BY <2>1, <2>2
  <1> QED
    BY UpdaterInvariance, TypeInvariance, <1>1, <1>2, PTL DEF Spec

(* Attempts that were not started have no requests; if all others are      *)
(* sealed as exact, what is known of the attempts is what all their        *)
(* requests were billed for.                                               *)
LEMMA ExactTotal ==
    ASSUME UpdaterInv, TypeInv, BillInv, ReportedStatus = "exact"
    PROVE  Total = Billed
  <1>1. \A a \in Matched : attempts[a].disk = "terminal" /\ attempts[a].status = "exact"
    BY DEF ReportedStatus
  <1>2. req \in Seq(Request) /\ IsFiniteSet(DOMAIN req) /\ \A i \in DOMAIN req : Bills[i] \in Nat
    BY BillType DEF UpdaterInv, DataInv
  <1>3. Len(attempts) \in Nat /\ DOMAIN attempts = 1..Len(attempts)
    BY DEF TypeInv
  <1>4a. PICK n \in Nat : n = Len(attempts)
    BY <1>3
  <1>4. PICK S, f, owner, k :
            /\ S = DOMAIN req /\ f = Bills /\ owner = [i \in DOMAIN req |-> req[i].attempt]
            /\ n = Len(attempts) /\ k = [a \in DOMAIN attempts |-> attempts[a].known]
    BY <1>4a
  <1>5. \A a \in 1..n : k[a] = Sum(f, Owned(S, owner, {a}))
    <2> SUFFICES ASSUME NEW a \in DOMAIN attempts
                 PROVE  attempts[a].known = BilledFor(a)
      <3>1. \A a \in DOMAIN attempts : BilledFor(a) = Sum(f, Owned(S, owner, {a}))
        <4> TAKE a \in DOMAIN attempts
        <4>1. Owned(S, owner, {a}) = {i \in DOMAIN req : req[i].attempt = a}
          BY <1>4 DEF Owned
        <4> QED
          BY <1>4, <4>1 DEF BilledFor, Sum
      <3> QED
        BY <1>3, <1>4, <3>1
    <2>1. CASE a \in Matched
      BY <1>1, <2>1 DEF BillInv, CostInv
    <2>2. CASE a \notin Matched
      <3>1. attempts[a].disk = "made" /\ attempts[a].known = 0
        BY <2>2 DEF Matched, BillInv, CostInv
      <3>2. {i \in DOMAIN req : req[i].attempt = a} = {}
        BY <3>1 DEF BillInv, OwnerInv
      <3>3. Sum(Bills, {}) = 0
        BY SumStep, FS_EmptySet
      <3> QED
        BY <3>1, <3>2, <3>3 DEF BilledFor, Sum
    <2> QED
      BY <2>1, <2>2
  <1>6. Owned(S, owner, 1..n) = S
    BY <1>3, <1>4 DEF BillInv, OwnerInv, Owned
  <1>7. Sum(f, Owned(S, owner, 1..n)) = Sum(k, 1..n)
    <2>1. IsFiniteSet(S) /\ \A i \in S : f[i] \in Nat
      BY <1>2, <1>4
    <2>2. Shares(k, f, S, owner, n)
      BY <1>5 DEF Shares
    <2> QED
      BY <2>1, <2>2, SumByOwner
  <1> QED
    BY <1>3, <1>4, <1>6, <1>7 DEF Total, Billed, Sum

(* What is reported as the exact cost is the bill, and what is reported as *)
(* known of an attempt was billed for it (_updater_model_cost,             *)
(* orchestrator.py; run and _reconcile_proxy_counts, ahe.py).              *)
THEOREM ExactStaysBilled == Spec => []ExactIsBilled
  <1>1. UpdaterInv /\ TypeInv /\ BillInv => ExactIsBilled
    BY ExactTotal DEF BillInv, CostInv, ExactIsBilled
  <1> QED
    BY UpdaterInvariance, TypeInvariance, BillInvariance, <1>1, PTL
=============================================================================
