---------------------- MODULE CandidateProposalsProofs ----------------------
(***************************************************************************)
(* For every evidence, every updater, any budget and any number of deaths  *)
(* and edits of the trust kernel: what a checked candidate is within, that *)
(* the bundles are served in turn, that the plan holds what was asked for  *)
(* and that the command is blocked only for a cause.                       *)
(***************************************************************************)
EXTENDS CandidateProposals, TLAPS, FiniteSetTheorems, SequenceTheorems, WellFoundedInduction

-----------------------------------------------------------------------------
(* The policy. *)

(* What the invariant needs besides itself: the kernel is frozen before    *)
(* the first proposal, and a draft is a patch of the updater.              *)
FateInv ==
    /\ DOMAIN fate = Id
    /\ \A id \in Id :
          fate[id].is # "none" => fate[id].patch \in DOMAIN Patches

KernelInv ==
    /\ kernel \in {1, 2} /\ frozen \in {0, 1, 2}
    /\ frozen = 0 => \A id \in Id : fate[id].is = "none"
    /\ pc \in {"turn", "propose", "check", "build"} => frozen # 0
    /\ pc = "check" => draft \in DOMAIN Patches

PolicyInv == FateInv /\ KernelInv /\ CheckedIsWithinPolicy

(* The smaller of two limits is a limit of both (mutation/service.py:185). *)
LEMMA SmallerOfTwo ==
    ASSUME NEW a \in Nat, NEW b \in Nat
    PROVE  /\ Min({a, b}) \in Nat
           /\ Min({a, b}) <= a /\ Min({a, b}) <= b
  <1>1. \E x \in {a, b} : \A y \in {a, b} : x <= y
    <2>1. CASE a <= b
      BY <2>1
    <2>2. CASE b < a
      BY <2>2
    <2> QED
      BY <2>1, <2>2
  <1>2. Min({a, b}) \in {a, b} /\ \A y \in {a, b} : Min({a, b}) <= y
    BY <1>1 DEF Min
  <1> QED
    BY <1>2

(* Both budgets are numbers, and no asset a patch may touch is the hook's. *)
LEMMA Limits ==
    ASSUME NEW t \in Types
    PROVE  /\ PolicyLimit.files \in Nat /\ PolicyLimit.lines \in Nat
           /\ BundleLimit[t].files \in Nat /\ BundleLimit[t].lines \in Nat
  BY DEF PolicyLimit, BundleLimit

(* The check of a patch is what WithinPolicy asks for, as long as the      *)
(* kernel is the frozen one (mutation/service.py:104-218).                 *)
LEMMA CheckIsPolicy ==
    ASSUME NEW n \in DOMAIN Patches, NEW t \in Types,
           Registered(n, t).is = "checked"
    PROVE  /\ kernel = frozen
           /\ Patches[n].parses /\ ~Patches[n].leaks
           /\ Patches[n].files \subseteq Families \ {"middleware"}
           /\ "tools" \in Patches[n].files => Patches[n].fits /\ Patches[n].binds
           /\ \A limit \in {PolicyLimit, BundleLimit[t]} :
                 Patches[n].count <= limit.files /\ Patches[n].lines <= limit.lines
  <1> DEFINE p == Patches[n]
  <1>1. ~Rejected(p, t) /\ ~\E f \in p.files : Risk[f] = "H"
    BY DEF Registered
  <1>2. p.parses /\ kernel = frozen /\ ~Unregistered(p) /\ ~Forbidden(p) /\ ~p.leaks
        /\ ~Unbound(p) /\ ~TooLarge(p, t)
    BY <1>1 DEF Rejected
  <1>3. p.files \subseteq Families \ {"middleware"}
    BY <1>1, <1>2 DEF Unregistered, Forbidden, Patchable
  <1>4. p.count \in Nat /\ p.lines \in Nat
    BY PatchAssumption
  <1>5. /\ p.count <= PolicyLimit.files /\ p.count <= BundleLimit[t].files
        /\ p.lines <= PolicyLimit.lines /\ p.lines <= BundleLimit[t].lines
    <2>1. /\ ~(p.count > Min({PolicyLimit.files, BundleLimit[t].files}))
          /\ ~(p.lines > Min({PolicyLimit.lines, BundleLimit[t].lines}))
      BY <1>2 DEF TooLarge
    <2> HIDE DEF p
    <2> QED
      BY <2>1, <1>4, Limits, SmallerOfTwo
  <1> QED
    BY <1>2, <1>3, <1>5 DEF Unbound

(* Before the first command nothing is proposed and no kernel is frozen.   *)
LEMMA InitPolicy == Init => PolicyInv
  BY DEF Init, PolicyInv, FateInv, KernelInv, CheckedIsWithinPolicy, Nobody

(* Only the registration writes a candidate.                               *)
LEMMA RegisterKeeps ==
    ASSUME PolicyInv, Register
    PROVE  PolicyInv'
  <1>1. /\ pc = "check" /\ fate' = [fate EXCEPT ![Current] = Registered(draft, Bundle)]
        /\ pc' = "propose" /\ draft' = "none" /\ UNCHANGED <<frozen, kernel>>
    BY DEF Register
  <1>2. draft \in DOMAIN Patches /\ frozen # 0
    BY <1>1 DEF PolicyInv, KernelInv
  <1>3. ASSUME NEW id \in Id
        PROVE  fate'[id] = IF id = Current THEN Registered(draft, Bundle) ELSE fate[id]
    BY <1>1 DEF PolicyInv, FateInv
  <1>4. Registered(draft, Bundle).patch = draft /\ Registered(draft, Bundle).kernel = kernel
    BY DEF Registered
  <1>5. FateInv'
    <2>1. DOMAIN fate' = Id
      BY <1>1 DEF PolicyInv, FateInv
    <2> QED
      BY <2>1, <1>2, <1>3, <1>4 DEF PolicyInv, FateInv
  <1>6. KernelInv'
    BY <1>1, <1>2 DEF PolicyInv, KernelInv
  <1>7. CheckedIsWithinPolicy'
    <2> SUFFICES ASSUME NEW id \in Id, fate'[id].is = "checked"
                 PROVE  WithinPolicy(id)'
      BY DEF CheckedIsWithinPolicy
    <2>1. CASE id = Current
      <3>1. id[1] = Bundle /\ Bundle \in Types
        BY <2>1 DEF Current, Id
      <3>2. Registered(draft, Bundle).is = "checked"
        BY <1>3, <2>1
      <3>3. fate'[id].patch = draft /\ fate'[id].kernel = kernel
        BY <1>3, <1>4, <2>1
      <3> QED
        BY <1>1, <1>2, <3>1, <3>2, <3>3, CheckIsPolicy DEF WithinPolicy
    <2>2. CASE id # Current
      <3>1. fate'[id] = fate[id]
        BY <1>3, <2>2
      <3>2. WithinPolicy(id)
        BY <3>1 DEF PolicyInv, CheckedIsWithinPolicy
      <3> QED
        BY <1>1, <3>1, <3>2 DEF WithinPolicy
    <2> QED
      BY <2>1, <2>2
  <1> QED
    BY <1>5, <1>6, <1>7 DEF PolicyInv

(* Freezing the kernel finds no candidate, or the kernel frozen before.    *)
LEMMA OpenRegistryKeeps ==
    ASSUME PolicyInv, OpenRegistry
    PROVE  PolicyInv'
  <1>1. /\ frozen' = IF frozen = 0 THEN kernel ELSE frozen
        /\ pc' = "turn" /\ UNCHANGED <<fate, kernel, draft>>
    BY DEF OpenRegistry, local
  <1>2. FateInv'
    BY <1>1 DEF PolicyInv, FateInv
  <1>3. KernelInv'
    BY <1>1 DEF PolicyInv, KernelInv
  <1>4. CheckedIsWithinPolicy'
    <2> SUFFICES ASSUME NEW id \in Id, fate[id].is = "checked"
                 PROVE  WithinPolicy(id)'
      BY <1>1 DEF CheckedIsWithinPolicy
    <2>1. frozen' = frozen
      BY <1>1 DEF PolicyInv, KernelInv
    <2>2. WithinPolicy(id)
      BY DEF PolicyInv, CheckedIsWithinPolicy
    <2> QED
      BY <1>1, <2>1, <2>2 DEF WithinPolicy
  <1> QED
    BY <1>2, <1>3, <1>4 DEF PolicyInv

(* Every other step leaves the candidates and the frozen kernel alone.     *)
LEMMA OthersKeep ==
    ASSUME PolicyInv, [Next]_vars, ~Register, ~OpenRegistry
    PROVE  PolicyInv'
  <1>1. /\ UNCHANGED <<fate, frozen>>
        /\ kernel' = kernel \/ kernel' = 3 - kernel
    BY DEF Next, vars, retained, local, Begin, Diagnose, Refuse, TakeTurn, Exhausted, Known,
           AskUpdater, UpdaterFails, Collect, Build, Finish, Die, EditKernel
  <1>2. /\ pc' \in {"turn", "propose", "check", "build"} =>
              pc \in {"turn", "propose", "check", "build"}
        /\ pc' = "check" => draft' \in DOMAIN Patches
    BY DEF PolicyInv, KernelInv, Next, vars, retained, local, Begin, Diagnose, Refuse,
           TakeTurn, Exhausted, Known, AskUpdater, UpdaterFails, Collect, Build, Finish, Die,
           EditKernel
  <1>3. FateInv' /\ KernelInv'
    BY <1>1, <1>2 DEF PolicyInv, FateInv, KernelInv
  <1>4. CheckedIsWithinPolicy'
    BY <1>1 DEF PolicyInv, CheckedIsWithinPolicy, WithinPolicy
  <1> QED
    BY <1>3, <1>4 DEF PolicyInv

(* Candidates, the frozen trust kernel and the process stay consistent for *)
(* any evidence, any updater, any number of deaths and kernel edits.       *)
THEOREM PolicyInvariance == Spec => []PolicyInv
  <1>1. PolicyInv /\ [Next]_vars => PolicyInv'
    BY RegisterKeeps, OpenRegistryKeeps, OthersKeep
  <1> QED
    BY InitPolicy, <1>1, PTL DEF Spec

(* A checked candidate stays within the policy, both budgets and the       *)
(* frozen trust kernel (mutation/service.py:104-218).                      *)
THEOREM CheckedStaysWithinPolicy == Spec => []CheckedIsWithinPolicy
  BY PolicyInvariance, PTL DEF PolicyInv

-----------------------------------------------------------------------------
(* Numbers, and finite sets of them. *)

(* A set of numbers has a least one.                                       *)
LEMMA Least ==
    ASSUME NEW S \in SUBSET Nat, S # {}
    PROVE  /\ \E x \in S : \A y \in S : x <= y
           /\ Min(S) \in S /\ \A y \in S : Min(S) <= y
  <1> DEFINE less == OpToRel(<, Nat)
  <1>1. IsWellFoundedOn(less, Nat)
    BY NatLessThanWellFounded
  <1>2. PICK x \in S : \A y \in S : ~ (<<y, x>> \in less)
    BY <1>1, WFMin
  <1>3. \A y \in S : x <= y
    <2> TAKE y \in S
    <2>1. x \in Nat /\ y \in Nat /\ ~ (y < x)
      BY <1>2 DEF OpToRel
    <2> QED
      BY <2>1
  <1>4. Min(S) \in S /\ \A y \in S : Min(S) <= y
    BY <1>3 DEF Min
  <1> QED
    BY <1>3, <1>4

(* A set of numbers that holds 0 and with a number the next holds them all.*)
LEMMA Induction ==
    ASSUME NEW S \in SUBSET Nat, 0 \in S, \A n \in S : n + 1 \in S
    PROVE  S = Nat
  <1> SUFFICES ASSUME Nat \ S # {} PROVE FALSE
    OBVIOUS
  <1>1. PICK x \in Nat \ S : \A y \in Nat \ S : x <= y
    BY Least
  <1>2. x # 0 /\ x - 1 \in Nat
    BY <1>1
  <1>3. x - 1 \in S
    BY <1>1, <1>2
  <1>4. (x - 1) + 1 = x
    BY <1>1
  <1> QED
    BY <1>1, <1>3, <1>4

(* A finite set of numbers has a largest one.                              *)
LEMMA Largest ==
    ASSUME NEW S \in SUBSET Nat, IsFiniteSet(S), S # {}
    PROVE  \E x \in S : \A y \in S : y <= x
  <1> DEFINE Has(T) == \E x \in T : \A y \in T : y <= x
             M == {n \in Nat : \A T \in SUBSET S : T # {} /\ Cardinality(T) = n => Has(T)}
  <1>1. 0 \in M
    BY FS_Subset, FS_EmptySet
  <1>2. ASSUME NEW n \in M PROVE n + 1 \in M
    <2> SUFFICES ASSUME NEW T \in SUBSET S, T # {}, Cardinality(T) = n + 1 PROVE Has(T)
      OBVIOUS
    <2>1. PICK x \in T : TRUE
      OBVIOUS
    <2> DEFINE U == T \ {x}
    <2>2. U \in SUBSET S /\ IsFiniteSet(T)
      BY FS_Subset
    <2>3. Cardinality(U) = n
      <3>1. Cardinality(U) = (n + 1) - 1
        BY <2>1, <2>2, FS_RemoveElement
      <3> QED
        BY <3>1
    <2>4. CASE U = {}
      BY <2>1, <2>4
    <2>5. CASE U # {}
      <3>1. PICK z \in U : \A y \in U : y <= z
        BY <2>2, <2>3, <2>5
      <3>2. x \in Nat /\ z \in Nat /\ z \in T
        BY <3>1
      <3>3. CASE z <= x
        <4>1. \A y \in T : y <= x
          <5> TAKE y \in T
          <5>1. y = x \/ y <= z
            BY <3>1
          <5>2. y \in Nat
            OBVIOUS
          <5> QED
            BY <5>1, <5>2, <3>2, <3>3
        <4> QED
          BY <4>1
      <3>4. CASE x < z
        <4>1. \A y \in T : y <= z
          BY <3>1, <3>2, <3>4
        <4> QED
          BY <3>2, <4>1
      <3> QED
        BY <3>2, <3>3, <3>4
    <2> QED
      BY <2>4, <2>5
  <1>3. M \in SUBSET Nat
    OBVIOUS
  <1>4. Cardinality(S) \in Nat
    BY FS_CardinalityType
  <1> HIDE DEF M
  <1>5. M = Nat
    BY ONLY <1>1, <1>2, <1>3, Induction
  <1> QED
    BY <1>4, <1>5 DEF M

Upto(I, x) == {y \in I : y <= x}

(* Larger numbers have more up to them.                                    *)
LEMMA UptoGrows ==
    ASSUME NEW I \in SUBSET Nat, IsFiniteSet(I), NEW x \in I, NEW y \in I, x < y
    PROVE  /\ Cardinality(Upto(I, x)) \in Nat /\ Cardinality(Upto(I, y)) \in Nat
           /\ Cardinality(Upto(I, x)) < Cardinality(Upto(I, y))
  <1>1. IsFiniteSet(Upto(I, x)) /\ IsFiniteSet(Upto(I, y))
    BY FS_Subset DEF Upto
  <1>2. Upto(I, x) \in SUBSET Upto(I, y) /\ y \in Upto(I, y) /\ y \notin Upto(I, x)
    <2>1. y <= y /\ ~ (y <= x) /\ \A z \in I : z <= x => z <= y
      OBVIOUS
    <2> QED
      BY <2>1 DEF Upto
  <1>3. Cardinality(Upto(I, x)) <= Cardinality(Upto(I, y))
        /\ Cardinality(Upto(I, x)) # Cardinality(Upto(I, y))
    BY <1>1, <1>2, FS_Subset
  <1>4. Cardinality(Upto(I, x)) \in Nat /\ Cardinality(Upto(I, y)) \in Nat
    BY <1>1, FS_CardinalityType
  <1> QED
    BY <1>3, <1>4

(* The number at place n has n numbers up to it.                           *)
LEMMA Placing ==
    ASSUME NEW I \in SUBSET Nat, IsFiniteSet(I), NEW n \in 1..Cardinality(I)
    PROVE  Place(I, n) \in I /\ Cardinality(Upto(I, Place(I, n))) = n
  <1> DEFINE A == {x \in I : Cardinality({y \in I : y <= x}) >= n}
             p == Place(I, n)
  <1>0. Cardinality(I) \in Nat /\ I # {}
    BY FS_CardinalityType, FS_EmptySet
  <1>1. PICK m \in I : \A y \in I : y <= m
    BY <1>0, Largest
  <1>2. m \in A
    <2>1. {y \in I : y <= m} = I
      BY <1>1
    <2> QED
      BY <2>1, <1>0
  <1>3. p = Min(A)
    BY DEF Place
  <1>4. A \in SUBSET Nat /\ A # {}
    BY <1>2
  <1>5. p \in A /\ \A y \in A : p <= y
    BY <1>3, <1>4, Least
  <1>6. p \in I /\ Cardinality(Upto(I, p)) >= n
    BY <1>5 DEF Upto
  <1> HIDE DEF p
  <1>7. ASSUME Cardinality(Upto(I, p)) # n PROVE FALSE
    <2> DEFINE B == Upto(I, p) \ {p}
    <2>1. IsFiniteSet(Upto(I, p)) /\ IsFiniteSet(B) /\ p \in Upto(I, p) /\ B \in SUBSET Nat
      <3>1. p \in Nat /\ p \in Upto(I, p) /\ Upto(I, p) \in SUBSET I /\ B \in SUBSET I
        BY <1>6 DEF Upto
      <3> QED
        BY <3>1, FS_Subset
    <2>2. Cardinality(Upto(I, p)) \in Nat /\ Cardinality(B) \in Nat
      BY <2>1, FS_CardinalityType
    <2>3. Cardinality(B) = Cardinality(Upto(I, p)) - 1
      BY <2>1, FS_RemoveElement
    <2>4. Cardinality(B) >= n
      BY <1>6, <1>7, <2>2, <2>3
    <2>5. B # {}
      BY <2>4, FS_EmptySet
    <2>6. PICK q \in B : \A y \in B : y <= q
      BY <2>1, <2>5, Largest
    <2>7. q \in I /\ q < p
      BY <2>6, <1>6 DEF Upto
    <2>8. {y \in I : y <= q} = B
      <3>1. B = {y \in I : y < p}
        <4>1. p \in Nat /\ \A y \in I : y < p <=> (y <= p /\ y # p)
          BY <1>6
        <4> QED
          BY <4>1 DEF Upto
      <3>2. \A y \in I : y <= q <=> y < p
        <4> TAKE y \in I
        <4>1. y \in Nat /\ q \in Nat /\ p \in Nat
          BY <2>7, <1>6
        <4>2. y < p => y <= q
          BY <2>6, <3>1
        <4> QED
          BY <4>1, <4>2, <2>7
      <3> QED
        BY <3>1, <3>2
    <2>9. q \in A
      BY <2>4, <2>7, <2>8
    <2> QED
      BY <1>5, <1>6, <2>7, <2>9
  <1> QED
    BY <1>6, <1>7 DEF p

(* A number with n numbers up to it is at place n.                         *)
LEMMA PlaceIs ==
    ASSUME NEW I \in SUBSET Nat, IsFiniteSet(I), NEW n \in 1..Cardinality(I),
           NEW x \in I, Cardinality(Upto(I, x)) = n
    PROVE  x = Place(I, n)
  <1>1. PICK p \in I : p = Place(I, n) /\ Cardinality(Upto(I, p)) = n
    BY Placing
  <1>2. n \in Nat /\ p \in Nat /\ x \in Nat
    BY FS_CardinalityType
  <1>3. ~ (p < x) /\ ~ (x < p)
    BY <1>1, <1>2, UptoGrows
  <1> QED
    BY <1>1, <1>2, <1>3

(* Every number of a finite set has one place.                             *)
LEMMA Places ==
    ASSUME NEW I \in SUBSET Nat, IsFiniteSet(I)
    PROVE  /\ Cardinality(I) \in Nat
           /\ \A n \in 1..Cardinality(I) : Place(I, n) \in I
           /\ \A n, k \in 1..Cardinality(I) : Place(I, n) = Place(I, k) => n = k
           /\ \A x \in I : \E n \in 1..Cardinality(I) : x = Place(I, n)
  <1>1. Cardinality(I) \in Nat
    BY FS_CardinalityType
  <1>2. ASSUME NEW x \in I PROVE \E n \in 1..Cardinality(I) : x = Place(I, n)
    <2> DEFINE n == Cardinality(Upto(I, x))
    <2>1. Upto(I, x) \in SUBSET I /\ x \in Upto(I, x)
      BY DEF Upto
    <2>2. IsFiniteSet(Upto(I, x)) /\ n <= Cardinality(I)
      BY <2>1, FS_Subset
    <2>3. n \in Nat /\ n # 0
      BY <2>1, <2>2, FS_CardinalityType, FS_EmptySet
    <2>4. n \in 1..Cardinality(I)
      BY <1>1, <2>2, <2>3
    <2>5. x = Place(I, n)
      <3> HIDE DEF n
      <3>1. Cardinality(Upto(I, x)) = n
        BY DEF n
      <3> QED
        BY <2>4, <3>1, PlaceIs
    <2> QED
      BY <2>4, <2>5
  <1> QED
    BY <1>1, <1>2, Placing

(* A number above all others comes last and leaves their places.           *)
LEMMA PlaceAdd ==
    ASSUME NEW I \in SUBSET Nat, IsFiniteSet(I), NEW z \in Nat, \A x \in I : x < z
    PROVE  /\ Cardinality(I) \in Nat
           /\ Cardinality(I \union {z}) = Cardinality(I) + 1
           /\ \A n \in 1..Cardinality(I) : Place(I \union {z}, n) = Place(I, n)
           /\ Place(I \union {z}, Cardinality(I) + 1) = z
  <1> DEFINE J == I \union {z}
             m == Cardinality(I)
  <1>1. IsFiniteSet(J) /\ m \in Nat /\ J \in SUBSET Nat /\ z \notin I
    BY FS_AddElement, FS_CardinalityType
  <1>2. Cardinality(J) = m + 1
    BY <1>1, FS_AddElement
  <1>3. \A n \in 1..m : Place(I, n) = Place(J, n)
    <2> TAKE n \in 1..m
    <2>1. PICK p \in I : p = Place(I, n) /\ Cardinality(Upto(I, p)) = n
      BY Placing
    <2>2. Upto(J, p) = Upto(I, p)
      <3>1. ~ (z <= p)
        <4>1. p \in Nat /\ p < z
          OBVIOUS
        <4> QED
          BY <4>1
      <3> QED
        BY <3>1 DEF Upto
    <2>3. p \in J /\ n \in 1..Cardinality(J)
      BY <1>1, <1>2
    <2> HIDE DEF J, m
    <2>4. p = Place(J, n)
      BY <1>1, <2>1, <2>2, <2>3, PlaceIs
    <2> QED
      BY <2>1, <2>4
  <1>4. z = Place(J, m + 1)
    <2>1. Upto(J, z) = J
      <3>1. \A x \in J : x <= z
        <4>1. \A x \in I : x \in Nat /\ x <= z
          OBVIOUS
        <4> QED
          BY <4>1
      <3> QED
        BY <3>1 DEF Upto
    <2>2. z \in J /\ m + 1 \in 1..Cardinality(J)
      BY <1>1, <1>2
    <2> HIDE DEF J, m
    <2> QED
      BY <1>1, <1>2, <2>1, <2>2, PlaceIs
  <1> QED
    BY <1>1, <1>2, <1>3, <1>4

-----------------------------------------------------------------------------
(* Lists. *)

OneEach(s) == \A i, j \in DOMAIN s : s[i] = s[j] => i = j

At(s, S) == {i \in DOMAIN s : s[i] \in S}

(* The places of the members that are kept.                                *)
LEMMA KeptPlaces ==
    ASSUME NEW X, NEW s \in Seq(X), NEW S
    PROVE  /\ At(s, S) \in SUBSET Nat /\ IsFiniteSet(At(s, S))
           /\ Cardinality(At(s, S)) \in 0..Len(s)
           /\ Kept(s, S) = [n \in 1..Cardinality(At(s, S)) |-> s[Place(At(s, S), n)]]
  <1>1. DOMAIN s = 1..Len(s) /\ Len(s) \in Nat
    OBVIOUS
  <1>2. IsFiniteSet(1..Len(s)) /\ Cardinality(1..Len(s)) = Len(s)
    BY <1>1, FS_Interval
  <1>3. At(s, S) \in SUBSET (1..Len(s))
    BY <1>1 DEF At
  <1>4. IsFiniteSet(At(s, S)) /\ Cardinality(At(s, S)) <= Len(s)
        /\ Cardinality(At(s, S)) \in Nat
    BY <1>2, <1>3, FS_Subset, FS_CardinalityType
  <1>5. Kept(s, S) = [n \in 1..Cardinality(At(s, S)) |-> s[Place(At(s, S), n)]]
    BY DEF Kept, At
  <1> QED
    BY <1>1, <1>3, <1>4, <1>5

(* What is kept of a list are its members in the set, once if they are in  *)
(* it once.                                                                *)
LEMMA KeptMembers ==
    ASSUME NEW X, NEW s \in Seq(X), NEW S
    PROVE  /\ Kept(s, S) \in Seq(X) /\ Kept(s, S) \in Seq(S)
           /\ Len(Kept(s, S)) \in 0..Len(s)
           /\ ToSet(Kept(s, S)) = ToSet(s) \intersect S
           /\ OneEach(s) => OneEach(Kept(s, S))
  <1> DEFINE I == At(s, S)
             m == Cardinality(I)
             K == Kept(s, S)
  <1>1. I \in SUBSET Nat /\ IsFiniteSet(I) /\ m \in Nat /\ m <= Len(s)
        /\ K = [n \in 1..m |-> s[Place(I, n)]]
    BY KeptPlaces
  <1>2. I \in SUBSET (DOMAIN s) /\ \A i \in DOMAIN s : s[i] \in X
    BY DEF At
  <1>3. /\ \A n \in 1..m : Place(I, n) \in I
        /\ \A n, k \in 1..m : Place(I, n) = Place(I, k) => n = k
        /\ \A x \in I : \E n \in 1..m : x = Place(I, n)
    BY <1>1, Places
  <1>4. \A i \in I : s[i] \in S /\ s[i] \in X
    BY <1>2 DEF At
  <1>5. \A i \in DOMAIN s : s[i] \in S => i \in I
    BY DEF At
  <1> HIDE DEF I, m, K
  <1>6. \A n \in 1..m : K[n] = s[Place(I, n)] /\ K[n] \in S /\ K[n] \in X
    BY <1>1, <1>3, <1>4
  <1>7. DOMAIN K = 1..m
    BY <1>1
  <1>8. K \in [1..m -> X] /\ K \in [1..m -> S]
    BY <1>1, <1>6
  <1>9. K \in Seq(X) /\ K \in Seq(S) /\ Len(K) = m
    BY <1>1, <1>8
  <1>10. ToSet(K) = ToSet(s) \intersect S
    <2>1. \A x \in ToSet(K) : x \in ToSet(s) /\ x \in S
      BY <1>2, <1>3, <1>6, <1>7 DEF ToSet
    <2>2. ASSUME NEW x \in ToSet(s), x \in S PROVE x \in ToSet(K)
      <3>1. PICK i \in DOMAIN s : x = s[i]
        BY DEF ToSet
      <3>2. PICK n \in 1..m : i = Place(I, n)
        BY <1>3, <1>5, <2>2, <3>1
      <3> QED
        BY <1>6, <1>7, <3>1, <3>2 DEF ToSet
    <2> QED
      BY <2>1, <2>2
  <1>11. ASSUME OneEach(s) PROVE OneEach(K)
    BY <1>2, <1>3, <1>6, <1>7, <1>11 DEF OneEach
  <1>12. Len(K) \in 0..Len(s)
    BY <1>1, <1>9
  <1> QED
    BY <1>9, <1>10, <1>11, <1>12 DEF K

(* Only what the set says of the members matters.                          *)
LEMMA KeptSame ==
    ASSUME NEW s, NEW S, NEW T, \A x \in ToSet(s) : x \in S <=> x \in T
    PROVE  Kept(s, S) = Kept(s, T)
  <1>1. {i \in DOMAIN s : s[i] \in S} = {i \in DOMAIN s : s[i] \in T}
    BY DEF ToSet
  <1> QED
    BY <1>1 DEF Kept

(* Nothing is kept of members none of which is in the set.                 *)
LEMMA KeptNone ==
    ASSUME NEW X, NEW s \in Seq(X), NEW S, ToSet(s) \intersect S = {}
    PROVE  Kept(s, S) = <<>>
  <1>1. Kept(s, S) \in Seq(X) /\ ToSet(Kept(s, S)) = {}
    BY KeptMembers
  <1>2. PICK k : k = Kept(s, S)
    OBVIOUS
  <1>3. k \in Seq(X) /\ DOMAIN k = {}
    BY <1>1, <1>2 DEF ToSet
  <1> QED
    BY <1>2, <1>3

(* A member added at the end is kept at the end.                           *)
LEMMA KeptAppend ==
    ASSUME NEW X, NEW s \in Seq(X), NEW x \in X, NEW S
    PROVE  Kept(Append(s, x), S) = IF x \in S THEN Append(Kept(s, S), x) ELSE Kept(s, S)
  <1> DEFINE t == Append(s, x)
             I == At(s, S)
             J == At(t, S)
             z == Len(s) + 1
             m == Cardinality(I)
  <1>1. t \in Seq(X) /\ Len(t) = z /\ Len(s) \in Nat /\ z \in Nat /\ t[z] = x
        /\ DOMAIN s = 1..Len(s) /\ DOMAIN t = 1..z
        /\ \A i \in 1..Len(s) : t[i] = s[i]
    OBVIOUS
  <1>2. /\ I \in SUBSET Nat /\ IsFiniteSet(I) /\ m \in Nat
        /\ Kept(s, S) = [n \in 1..m |-> s[Place(I, n)]]
    BY KeptPlaces
  <1>3. Kept(t, S) = [n \in 1..Cardinality(J) |-> t[Place(J, n)]]
    <2> HIDE DEF t, z, m, I
    <2> QED
      BY <1>1, KeptPlaces
  <1>4. \A n \in 1..m : Place(I, n) \in I
    BY <1>2, Places
  <1>5. \A i \in I : i \in 1..Len(s) /\ i < z
    BY <1>1 DEF At
  <1>6. J = IF x \in S THEN I \union {z} ELSE I
    <2>1. 1..z = (1..Len(s)) \union {z}
      BY <1>1
    <2> HIDE DEF t, z
    <2> QED
      BY <1>1, <2>1 DEF At
  <1> HIDE DEF t, I, J, z, m
  <1>7. \A n \in 1..m : t[Place(I, n)] = s[Place(I, n)]
    BY <1>1, <1>4, <1>5
  <1>8. CASE x \notin S
    <2>1. J = I /\ Cardinality(J) = m
      BY <1>6, <1>8 DEF m
    <2> QED
      BY <1>2, <1>3, <1>7, <1>8, <2>1 DEF t
  <1>9. CASE x \in S
    <2>1. J = I \union {z}
      BY <1>6, <1>9
    <2>2. /\ Cardinality(J) = m + 1 /\ Place(J, m + 1) = z
          /\ \A n \in 1..m : Place(J, n) = Place(I, n)
      BY <1>1, <1>2, <1>5, <2>1, PlaceAdd DEF m
    <2>3. PICK k : k = Kept(s, S)
      OBVIOUS
    <2>4. k \in Seq(X) /\ Len(k) = m /\ \A n \in 1..m : k[n] = s[Place(I, n)]
      <3>1. k \in Seq(X)
        BY <2>3, KeptMembers
      <3>2. DOMAIN k = 1..m /\ \A n \in 1..m : k[n] = s[Place(I, n)]
        BY <1>2, <2>3
      <3> QED
        BY <1>2, <3>1, <3>2
    <2>5. Kept(t, S) = [n \in 1..m + 1 |-> IF n = m + 1 THEN x ELSE k[n]]
      <3>1. \A n \in 1..m + 1 : t[Place(J, n)] = IF n = m + 1 THEN x ELSE k[n]
        <4> TAKE n \in 1..m + 1
        <4>1. CASE n = m + 1
          BY <1>1, <2>2, <4>1
        <4>2. CASE n # m + 1
          <5>1. n \in 1..m
            BY <1>2, <4>2
          <5> QED
            BY <1>7, <2>2, <2>4, <4>2, <5>1
        <4> QED
          BY <4>1, <4>2
      <3> QED
        BY <1>3, <2>2, <3>1
    <2>6. Append(k, x) = [n \in 1..m + 1 |-> IF n = m + 1 THEN x ELSE k[n]]
      <3>1. /\ DOMAIN Append(k, x) = 1..m + 1
            /\ \A n \in 1..m + 1 : Append(k, x)[n] = IF n = m + 1 THEN x ELSE k[n]
            /\ Append(k, x) \in Seq(X)
        BY <2>4
      <3>2. PICK a : a = Append(k, x)
        OBVIOUS
      <3>3. a = [n \in DOMAIN a |-> a[n]]
        <4>1. a \in Seq(X)
          BY <3>1, <3>2
        <4> QED
          BY <4>1
      <3> QED
        BY <3>1, <3>2, <3>3
    <2> QED
      BY <1>9, <2>3, <2>5, <2>6 DEF t
  <1> QED
    BY <1>8, <1>9

-----------------------------------------------------------------------------
(* Whose turn it is. *)

\* how often bundle t has been served in the first n turns
Served(t, n) == Cardinality({k \in 0..n - 1 : BundleOf(k) = t})

\* the candidate that turn k emits, and those of the first n turns
Emitted(k) == <<BundleOf(k), Served(BundleOf(k), k + 1)>>
Emission(n) == [k \in 1..n |-> Emitted(k - 1)]

\* those whose number is no more than the turns of their bundle
ServedIds(n) == {id \in Id : id[2] <= Served(id[1], n)}

\* what the turns need of the list of bundles
ListInv == Eligible \in Seq(Types) /\ OneEach(Eligible)

(* The bundle of a turn is in the list.                                    *)
LEMMA BundleListed ==
    ASSUME ListInv, Eligible # <<>>, NEW k \in Nat
    PROVE  /\ Len(Eligible) \in Nat \ {0}
           /\ (k % Len(Eligible)) + 1 \in 1..Len(Eligible)
           /\ BundleOf(k) \in ToSet(Eligible) /\ BundleOf(k) \in Types
  <1>1. PICK e : e = Eligible
    OBVIOUS
  <1>2. e \in Seq(Types) /\ e # <<>>
    BY <1>1 DEF ListInv
  <1>3. PICK L : L = Len(e)
    OBVIOUS
  <1>4. L \in Nat \ {0} /\ DOMAIN e = 1..L /\ \A i \in 1..L : e[i] \in Types
    BY <1>2, <1>3
  <1>5. (k % L) + 1 \in 1..L
    BY <1>4
  <1>6. BundleOf(k) = e[(k % L) + 1]
    BY <1>1, <1>3 DEF BundleOf
  <1> QED
    BY <1>1, <1>3, <1>4, <1>5, <1>6 DEF ToSet

(* One turn more serves its own bundle once more and the others as often.  *)
LEMMA ServedStep ==
    ASSUME NEW t, NEW n \in Nat
    PROVE  /\ Served(t, n) \in 0..n /\ Served(t, 0) = 0
           /\ Served(t, n + 1) = IF BundleOf(n) = t THEN Served(t, n) + 1 ELSE Served(t, n)
  <1> DEFINE A == {k \in 0..n - 1 : BundleOf(k) = t}
             B == {k \in 0..(n + 1) - 1 : BundleOf(k) = t}
  <1>1. IsFiniteSet(0..n - 1) /\ Cardinality(0..n - 1) = n
    BY FS_Interval
  <1>2. IsFiniteSet(A) /\ Cardinality(A) <= n /\ Cardinality(A) \in Nat /\ n \notin A
    <2>1. A \in SUBSET (0..n - 1)
      OBVIOUS
    <2> QED
      BY <1>1, <2>1, FS_Subset, FS_CardinalityType
  <1>3. B = IF BundleOf(n) = t THEN A \union {n} ELSE A
    <2>1. 0..(n + 1) - 1 = (0..n - 1) \union {n}
      OBVIOUS
    <2> QED
      BY <2>1
  <1>4. Served(t, n) = Cardinality(A) /\ Served(t, n + 1) = Cardinality(B)
    BY DEF Served
  <1> HIDE DEF A, B
  <1>5. Cardinality(A \union {n}) = Cardinality(A) + 1
    BY <1>2, FS_AddElement
  <1>6. Served(t, 0) = 0
    <2>1. {k \in 0..0 - 1 : BundleOf(k) = t} = {}
      OBVIOUS
    <2> QED
      BY <2>1, FS_EmptySet DEF Served
  <1> QED
    BY <1>2, <1>3, <1>4, <1>5, <1>6

(* The remainder of the next number.                                       *)
LEMMA NextRemainder ==
    ASSUME NEW n \in Nat, NEW l \in Nat \ {0}
    PROVE  /\ n % l \in 0..l - 1
           /\ (n + 1) % l = IF (n % l) + 1 = l THEN 0 ELSE (n % l) + 1
  <1>1. PICK a \in Int, b \in Int, r \in Int, s \in Int :
             a = n \div l /\ b = (n + 1) \div l /\ r = n % l /\ s = (n + 1) % l
    OBVIOUS
  <1>2. r \in 0..l - 1 /\ s \in 0..l - 1
    BY <1>1
  <1>3. n = l * a + r /\ n + 1 = l * b + s
    BY <1>1
  <1>4. PICK d \in Int : d = b - a
    OBVIOUS
  <1>5. l * d = l * b - l * a
    BY <1>4
  <1>6. PICK m \in Int : m = l * d
    OBVIOUS
  <1>7. m = 1 + r - s
    <2>1. PICK x \in Int, y \in Int : x = l * a /\ y = l * b
      OBVIOUS
    <2> QED
      BY <1>2, <1>3, <1>5, <1>6, <2>1
  <1>8. d <= 1
    <2>1. d >= 2 => m >= l + l
      BY <1>6
    <2> QED
      BY <1>2, <1>7, <2>1
  <1>9. d >= 0
    <2>1. d <= -1 => m <= -l
      BY <1>6
    <2> QED
      BY <1>2, <1>7, <2>1
  <1>10. d = 0 \/ d = 1
    BY <1>8, <1>9
  <1>11. (d = 0 => m = 0) /\ (d = 1 => m = l)
    BY <1>6
  <1> QED
    BY <1>1, <1>2, <1>7, <1>10, <1>11

(* After q rounds and r turns the first r bundles were served once more.   *)
LEMMA Rounds ==
    ASSUME ListInv, Eligible # <<>>
    PROVE  \A n \in Nat : \E q \in Nat : \A i \in 1..Len(Eligible) :
              Served(Eligible[i], n) = IF i <= n % Len(Eligible) THEN q + 1 ELSE q
  <1>1. PICK e, L : e = Eligible /\ L = Len(e)
    OBVIOUS
  <1>2. L \in Nat \ {0} /\ DOMAIN e = 1..L
    <2>1. e \in Seq(Types) /\ e # <<>>
      BY <1>1 DEF ListInv
    <2> QED
      BY <1>1, <2>1
  <1>3. \A i, j \in 1..L : e[i] = e[j] => i = j
    BY <1>1, <1>2 DEF ListInv, OneEach
  <1> DEFINE P(n) == \E q \in Nat : \A i \in 1..L :
                        Served(e[i], n) = IF i <= n % L THEN q + 1 ELSE q
             M == {n \in Nat : P(n)}
  <1>4. 0 \in M
    <2>1. 0 % L = 0
      BY <1>2
    <2>2. \A i \in 1..L : Served(e[i], 0) = IF i <= 0 % L THEN 0 + 1 ELSE 0
      BY <1>2, <2>1, ServedStep
    <2> QED
      BY <2>2
  <1>5. ASSUME NEW n \in M PROVE n + 1 \in M
    <2>1. PICK q \in Nat : \A i \in 1..L : Served(e[i], n) = IF i <= n % L THEN q + 1 ELSE q
      OBVIOUS
    <2>2. PICK r \in 0..L - 1 :
              r = n % L /\ (n + 1) % L = IF r + 1 = L THEN 0 ELSE r + 1
      BY <1>2, NextRemainder
    <2>3. BundleOf(n) = e[r + 1] /\ r + 1 \in 1..L
      BY <1>1, <1>2, <2>2 DEF BundleOf
    <2>4. \A i \in 1..L : Served(e[i], n + 1) =
                             IF i <= r + 1 THEN q + 1 ELSE q
      <3> TAKE i \in 1..L
      <3>1. Served(e[i], n + 1) = IF e[r + 1] = e[i] THEN Served(e[i], n) + 1 ELSE Served(e[i], n)
        BY <2>3, ServedStep
      <3>2. e[r + 1] = e[i] <=> i = r + 1
        BY <1>3, <2>3
      <3>3. Served(e[i], n) = IF i <= r THEN q + 1 ELSE q
        BY <2>1, <2>2
      <3>4. i \in Int /\ r \in Int /\ q \in Int
        BY <1>2
      <3> QED
        BY <3>1, <3>2, <3>3, <3>4
    <2>5. CASE r + 1 = L
      <3>0. PICK p \in Nat : p = q + 1
        OBVIOUS
      <3>1. \A i \in 1..L : Served(e[i], n + 1) =
                               IF i <= (n + 1) % L THEN p + 1 ELSE p
        BY <1>2, <2>2, <2>4, <2>5, <3>0
      <3>2. P(n + 1)
        BY <3>1
      <3> HIDE DEF P
      <3> QED
        BY <3>2
    <2>6. CASE r + 1 # L
      <3>1. \A i \in 1..L : Served(e[i], n + 1) =
                               IF i <= (n + 1) % L THEN q + 1 ELSE q
        BY <2>2, <2>4, <2>6
      <3>2. P(n + 1)
        BY <3>1
      <3> HIDE DEF P
      <3> QED
        BY <3>2
    <2> QED
      BY <2>5, <2>6
  <1>6. M \in SUBSET Nat
    OBVIOUS
  <1> HIDE DEF M
  <1>7. M = Nat
    BY ONLY <1>4, <1>5, <1>6, Induction
  <1>8. \A n \in Nat : P(n)
    <2> HIDE DEF P
    <2> QED
      BY <1>7 DEF M
  <1> QED
    BY <1>1, <1>8

(* Nobody is more than one turn ahead, and nobody is behind who comes      *)
(* earlier.                                                                *)
LEMMA ServedFairly ==
    ASSUME ListInv, Eligible # <<>>, NEW n \in Nat,
           NEW i \in 1..Len(Eligible), NEW j \in 1..Len(Eligible), i < j
    PROVE  Served(Eligible[i], n) - Served(Eligible[j], n) \in 0..1
  <1>1. PICK q \in Nat : \A k \in 1..Len(Eligible) :
            Served(Eligible[k], n) = IF k <= n % Len(Eligible) THEN q + 1 ELSE q
    BY Rounds
  <1>2. Len(Eligible) \in Nat \ {0}
    BY BundleListed
  <1>3. PICK l \in Nat \ {0}, r \in Int : l = Len(Eligible) /\ r = n % l
    BY <1>2
  <1>4. /\ Served(Eligible[i], n) = IF i <= r THEN q + 1 ELSE q
        /\ Served(Eligible[j], n) = IF j <= r THEN q + 1 ELSE q
    BY <1>1, <1>3
  <1>5. i \in Int /\ j \in Int
    BY <1>3
  <1> QED
    BY <1>4, <1>5, <1>3

(* What was served in fewer turns was served in more.                      *)
LEMMA ServedGrows ==
    ASSUME NEW t, NEW m \in Nat, NEW n \in Nat, m <= n
    PROVE  Served(t, m) <= Served(t, n)
  <1> DEFINE A == {k \in 0..m - 1 : BundleOf(k) = t}
             B == {k \in 0..n - 1 : BundleOf(k) = t}
  <1>1. A \in SUBSET B
    OBVIOUS
  <1>2. IsFiniteSet(B)
    <2>1. IsFiniteSet(0..n - 1) /\ B \in SUBSET (0..n - 1)
      BY FS_Interval
    <2> QED
      BY <2>1, FS_Subset
  <1> QED
    BY <1>1, <1>2, FS_Subset DEF Served

(* A turn adds one candidate that was not there.                           *)
LEMMA TurnAdds ==
    ASSUME ListInv, Eligible # <<>>, NEW n \in Nat, n < Budget
    PROVE  /\ Emitted(n) \in Id /\ Emitted(n) \notin ServedIds(n)
           /\ ServedIds(n + 1) = ServedIds(n) \union {Emitted(n)}
           /\ Emitted(n)[1] = BundleOf(n) /\ Emitted(n)[2] = Served(BundleOf(n), n + 1)
  <1>1. PICK t \in Types, c \in Nat : t = BundleOf(n) /\ c = Served(t, n)
    BY BundleListed, ServedStep
  <1>2. c \in 0..n /\ Served(t, n + 1) = c + 1
    BY <1>1, ServedStep
  <1>3. Emitted(n) = <<t, c + 1>>
    BY <1>1, <1>2 DEF Emitted
  <1>4. Budget \in Nat
    BY PlanAssumption
  <1>5. c + 1 \in 1..Budget
    BY <1>2, <1>4
  <1>6. Emitted(n) \in Id
    BY <1>3, <1>5 DEF Id
  <1>7. \A id \in Id : id \in ServedIds(n + 1) <=> id \in ServedIds(n) \/ id = Emitted(n)
    <2> TAKE id \in Id
    <2>1. id[1] \in Types /\ id[2] \in 1..Budget /\ id = <<id[1], id[2]>>
      BY DEF Id
    <2>2. CASE id[1] = t
      BY <1>1, <1>2, <1>3, <2>1, <2>2 DEF ServedIds
    <2>3. CASE id[1] # t
      <3>1. Served(id[1], n + 1) = Served(id[1], n)
        BY <1>1, <2>3, ServedStep
      <3> QED
        BY <1>3, <2>1, <2>3, <3>1 DEF ServedIds
    <2> QED
      BY <2>2, <2>3
  <1>8. Emitted(n) \notin ServedIds(n)
    BY <1>1, <1>2, <1>3 DEF ServedIds
  <1>9. ServedIds(n + 1) = ServedIds(n) \union {Emitted(n)}
    BY <1>6, <1>7 DEF ServedIds
  <1> QED
    BY <1>1, <1>2, <1>3, <1>6, <1>8, <1>9

(* After n turns there are n candidates, those that were emitted.          *)
LEMMA TurnsCount ==
    ASSUME ListInv, Eligible # <<>>
    PROVE  \A n \in 0..Budget :
              /\ IsFiniteSet(ServedIds(n)) /\ Cardinality(ServedIds(n)) = n
              /\ Emission(n) \in Seq(Id) /\ Len(Emission(n)) = n
              /\ OneEach(Emission(n)) /\ ToSet(Emission(n)) = ServedIds(n)
              /\ n < Budget => Emission(n + 1) = Append(Emission(n), Emitted(n))
  <1> DEFINE P(n) == /\ IsFiniteSet(ServedIds(n)) /\ Cardinality(ServedIds(n)) = n
                     /\ Emission(n) \in Seq(Id) /\ Len(Emission(n)) = n
                     /\ OneEach(Emission(n)) /\ ToSet(Emission(n)) = ServedIds(n)
             M == {n \in Nat : n <= Budget => P(n)}
  <1>0. Budget \in Nat
    BY PlanAssumption
  <1>1. 0 \in M
    <2>1. ServedIds(0) = {}
      <3> SUFFICES ASSUME NEW id \in Id PROVE ~ (id[2] <= Served(id[1], 0))
        BY DEF ServedIds
      <3>1. id[2] \in 1..Budget
        BY DEF Id
      <3>2. Served(id[1], 0) = 0
        BY ServedStep
      <3> QED
        BY <3>1, <3>2
    <2>2. PICK e : e = Emission(0)
      OBVIOUS
    <2>3. DOMAIN e = {} /\ e = [k \in 1..0 |-> Emitted(k - 1)]
      BY <2>2 DEF Emission
    <2>4. e \in Seq(Id) /\ Len(e) = 0
      BY <2>3
    <2>5. OneEach(e) /\ ToSet(e) = {}
      BY <2>3 DEF OneEach, ToSet
    <2> QED
      BY <2>1, <2>2, <2>4, <2>5, FS_EmptySet
  <1>2. ASSUME NEW n \in Nat, n < Budget, Emission(n) \in Seq(Id), Len(Emission(n)) = n
        PROVE  Emission(n + 1) = Append(Emission(n), Emitted(n))
    <2>1. PICK e : e = Emission(n)
      OBVIOUS
    <2>2. PICK x \in Id : x = Emitted(n)
      BY <1>2, TurnAdds
    <2>3. e \in Seq(Id) /\ Len(e) = n /\ \A k \in 1..n : e[k] = Emitted(k - 1)
      BY <1>2, <2>1 DEF Emission
    <2>4. PICK a : a = Append(e, x)
      OBVIOUS
    <2>5. /\ a \in Seq(Id) /\ DOMAIN a = 1..n + 1
          /\ \A k \in 1..n + 1 : a[k] = IF k = n + 1 THEN x ELSE e[k]
      BY <2>3, <2>4
    <2>6. \A k \in 1..n + 1 : a[k] = Emitted(k - 1)
      <3> TAKE k \in 1..n + 1
      <3>1. CASE k = n + 1
        <4>1. k - 1 = n
          BY <3>1
        <4> QED
          BY <2>2, <2>5, <3>1, <4>1
      <3>2. CASE k # n + 1
        BY <2>3, <2>5, <3>2
      <3> QED
        BY <3>1, <3>2
    <2>7. a = [k \in DOMAIN a |-> a[k]]
      BY <2>5
    <2>8. a = Emission(n + 1)
      BY <2>5, <2>6, <2>7 DEF Emission
    <2> QED
      BY <2>1, <2>2, <2>4, <2>8
  <1>3. ASSUME NEW n \in M PROVE n + 1 \in M
    <2> SUFFICES ASSUME n + 1 <= Budget PROVE P(n + 1)
      OBVIOUS
    <2>1. n \in Nat /\ n < Budget /\ P(n)
      BY <1>0
    <2>2. Emission(n + 1) = Append(Emission(n), Emitted(n))
      BY <1>2, <2>1
    <2>3. PICK e, x : e = Emission(n) /\ x = Emitted(n)
      OBVIOUS
    <2>4. /\ x \in Id /\ x \notin ServedIds(n)
          /\ ServedIds(n + 1) = ServedIds(n) \union {x}
      BY <2>1, <2>3, TurnAdds
    <2>5. e \in Seq(Id) /\ Len(e) = n /\ OneEach(e) /\ ToSet(e) = ServedIds(n)
      BY <2>1, <2>3
    <2>6. PICK a : a = Append(e, x)
      OBVIOUS
    <2>7. /\ a \in Seq(Id) /\ DOMAIN a = 1..n + 1 /\ Len(a) = n + 1 /\ DOMAIN e = 1..n
          /\ \A k \in 1..n + 1 : a[k] = IF k = n + 1 THEN x ELSE e[k]
      BY <2>4, <2>5, <2>6
    <2>8. \A k \in 1..n : e[k] \in ToSet(e)
      BY <2>7 DEF ToSet
    <2>9. 1..n + 1 = (1..n) \union {n + 1} /\ n + 1 \notin 1..n
      BY <2>1
    <2>10. OneEach(a)
      BY <2>4, <2>5, <2>7, <2>8, <2>9 DEF OneEach
    <2>11. ToSet(a) = ToSet(e) \union {x}
      BY <2>7, <2>9 DEF ToSet
    <2>12. IsFiniteSet(ServedIds(n + 1)) /\ Cardinality(ServedIds(n + 1)) = n + 1
      <3>1. PICK A : A = ServedIds(n)
        OBVIOUS
      <3>2. IsFiniteSet(A \union {x}) /\ Cardinality(A \union {x}) = n + 1
        BY <2>1, <2>4, <3>1, FS_AddElement
      <3> QED
        BY <2>4, <3>1, <3>2
    <2> QED
      BY <2>2, <2>3, <2>4, <2>5, <2>6, <2>7, <2>10, <2>11, <2>12
  <1>4. M \in SUBSET Nat
    OBVIOUS
  <1>5. \A n \in Nat : n <= Budget => P(n)
    <2> HIDE DEF P
    <2>1. M = Nat
      <3> HIDE DEF M
      <3> QED
        BY ONLY <1>1, <1>3, <1>4, Induction
    <2> QED
      BY <2>1
  <1> QED
    BY <1>0, <1>2, <1>5

-----------------------------------------------------------------------------
(* The first diverse combination. *)

(* Which combination is earlier: the one that has the first number that    *)
(* only one of them has.                                                   *)
LEMMA EarlierIs ==
    ASSUME NEW S \in SUBSET Nat, NEW T \in SUBSET Nat, S # T
    PROVE  /\ Earlier(S, T) \/ Earlier(T, S)
           /\ Earlier(S, T) <=>
                 \E d \in S \ T : \A y \in Nat : y < d => (y \in S <=> y \in T)
  <1> DEFINE D == (S \ T) \union (T \ S)
             m == Min(D)
  <1>1. D \in SUBSET Nat /\ D # {} /\ D = (T \ S) \union (S \ T)
    OBVIOUS
  <1>2. m \in D /\ \A y \in D : m <= y
    BY <1>1, Least
  <1>3. (Earlier(S, T) <=> m \in S) /\ (Earlier(T, S) <=> m \in T)
    BY <1>1 DEF Earlier
  <1> HIDE DEF m
  <1>4. ASSUME m \in S
        PROVE  m \in S \ T /\ \A y \in Nat : y < m => (y \in S <=> y \in T)
    <2>1. m \in Nat /\ m \in S \ T
      BY <1>2, <1>4
    <2>2. \A y \in Nat : y < m => y \notin D
      <3> TAKE y \in Nat
      <3>1. y < m => ~ (m <= y)
        BY <2>1
      <3> QED
        BY <1>2, <3>1
    <2> QED
      BY <2>1, <2>2
  <1>5. ASSUME NEW d \in S \ T, \A y \in Nat : y < d => (y \in S <=> y \in T)
        PROVE  m \in S
    <2>1. m \in Nat /\ d \in Nat /\ m <= d
      BY <1>2
    <2>2. CASE m = d
      BY <2>2
    <2>3. CASE m # d
      <3>1. m < d
        BY <2>1, <2>3
      <3> QED
        BY <1>2, <1>5, <2>1, <3>1
    <2> QED
      BY <2>2, <2>3
  <1> QED
    BY <1>2, <1>3, <1>4, <1>5

(* What is earlier than an earlier combination is earlier.                 *)
LEMMA EarlierTransitive ==
    ASSUME NEW S \in SUBSET Nat, NEW T \in SUBSET Nat, NEW U \in SUBSET Nat,
           S # T, T # U, Earlier(S, T), Earlier(T, U)
    PROVE  S # U /\ Earlier(S, U)
  <1>1. PICK a \in S \ T : \A y \in Nat : y < a => (y \in S <=> y \in T)
    BY EarlierIs
  <1>2. PICK b \in T \ U : \A y \in Nat : y < b => (y \in T <=> y \in U)
    BY EarlierIs
  <1>3. a \in Nat /\ b \in Nat
    OBVIOUS
  <1>4. a < b \/ b < a
    BY <1>3
  <1>5. CASE a < b
    <2>1. a \in S \ U
      BY <1>2, <1>3, <1>5
    <2>2. \A y \in Nat : y < a => (y \in S <=> y \in U)
      BY <1>1, <1>2, <1>3, <1>5
    <2> QED
      BY <2>1, <2>2, EarlierIs
  <1>6. CASE b < a
    <2>1. b \in S \ U
      BY <1>1, <1>3, <1>6
    <2>2. \A y \in Nat : y < b => (y \in S <=> y \in U)
      BY <1>1, <1>2, <1>3, <1>6
    <2> QED
      BY <2>1, <2>2, EarlierIs
  <1> QED
    BY <1>4, <1>5, <1>6

(* One of finitely many combinations is earlier than all others.           *)
LEMMA FirstExists ==
    ASSUME NEW A \in SUBSET SUBSET Nat, IsFiniteSet(A), A # {}
    PROVE  \E S \in A : \A T \in A \ {S} : Earlier(S, T)
  <1> DEFINE Has(B) == \E S \in B : \A T \in B \ {S} : Earlier(S, T)
             M == {n \in Nat : \A B \in SUBSET A : B # {} /\ Cardinality(B) = n => Has(B)}
  <1>1. 0 \in M
    BY FS_Subset, FS_EmptySet
  <1>2. ASSUME NEW n \in M PROVE n + 1 \in M
    <2> SUFFICES ASSUME NEW B \in SUBSET A, B # {}, Cardinality(B) = n + 1 PROVE Has(B)
      OBVIOUS
    <2>1. PICK x \in B : TRUE
      OBVIOUS
    <2> DEFINE C == B \ {x}
    <2>2. C \in SUBSET A /\ IsFiniteSet(B)
      BY FS_Subset
    <2>3. Cardinality(C) = n
      <3>1. Cardinality(B \ {x}) = Cardinality(B) - 1
        BY ONLY <2>1, <2>2, FS_RemoveElement
      <3> QED
        BY <3>1
    <2>4. CASE C = {}
      BY <2>1, <2>4
    <2>5. CASE C # {}
      <3>1. PICK S \in C : \A T \in C \ {S} : Earlier(S, T)
        BY <2>2, <2>3, <2>5
      <3>2. x # S /\ x \in SUBSET Nat /\ S \in SUBSET Nat /\ S \in B
        BY <2>1
      <3>3. CASE Earlier(S, x)
        BY <3>1, <3>2, <3>3
      <3>4. CASE Earlier(x, S)
        <4>1. \A T \in B \ {x} : Earlier(x, T)
          <5> TAKE T \in B \ {x}
          <5>1. T = S \/ T \in C \ {S}
            OBVIOUS
          <5>2. T \in SUBSET Nat
            OBVIOUS
          <5> QED
            BY <3>1, <3>2, <3>4, <5>1, <5>2, EarlierTransitive
        <4> QED
          BY <2>1, <4>1
      <3> QED
        BY <3>2, <3>3, <3>4, EarlierIs
    <2> QED
      BY <2>4, <2>5
  <1>3. M \in SUBSET Nat
    OBVIOUS
  <1>4. Cardinality(A) \in Nat
    BY FS_CardinalityType
  <1> HIDE DEF M
  <1>5. M = Nat
    BY ONLY <1>1, <1>2, <1>3, Induction
  <1> QED
    BY <1>4, <1>5 DEF M

(* A list that has everybody once is as long as it has members.            *)
LEMMA OneEachCount ==
    ASSUME NEW X, NEW s \in Seq(X), OneEach(s)
    PROVE  IsFiniteSet(ToSet(s)) /\ Cardinality(ToSet(s)) = Len(s)
  <1>1. DOMAIN s = 1..Len(s) /\ Len(s) \in Nat
    OBVIOUS
  <1>2. IsFiniteSet(1..Len(s)) /\ Cardinality(1..Len(s)) = Len(s)
    BY <1>1, FS_Interval
  <1>3. s \in [1..Len(s) -> ToSet(s)]
    BY <1>1 DEF ToSet
  <1>4. s \in Bijection(1..Len(s), ToSet(s))
    BY <1>1, <1>3 DEF Bijection, Injection, Surjection, OneEach, ToSet, IsInjective
  <1>5. ExistsBijection(1..Len(s), ToSet(s))
    BY <1>4 DEF ExistsBijection
  <1> QED
    BY <1>2, <1>5, FS_Bijection

(* The combination that is chosen is one of the list's.                    *)
LEMMA Chosen ==
    ASSUME NEW X, NEW e \in Seq(X), OneEach(e), DiverseSubsets(e) # {}
    PROVE  /\ DiverseSubset(e) \in Seq(X) /\ Len(DiverseSubset(e)) = CandidateCount
           /\ OneEach(DiverseSubset(e)) /\ ToSet(DiverseSubset(e)) \subseteq ToSet(e)
           /\ Cardinality(ToSet(DiverseSubset(e))) = CandidateCount
           /\ Diverse(ToSet(DiverseSubset(e)))
  <1> DEFINE all == DiverseSubsets(e)
             S == CHOOSE S \in all : \A T \in all \ {S} : Earlier(S, T)
  <1>1. DOMAIN e = 1..Len(e) /\ Len(e) \in Nat /\ \A i \in 1..Len(e) : e[i] \in X
    OBVIOUS
  <1>2. IsFiniteSet(1..Len(e)) /\ IsFiniteSet(SUBSET (1..Len(e)))
    <2>1. IsFiniteSet(1..Len(e))
      BY <1>1, FS_Interval
    <2> QED
      BY <2>1, FS_SUBSET
  <1>3. all \in SUBSET SUBSET (1..Len(e))
    BY <1>1 DEF DiverseSubsets
  <1>4. IsFiniteSet(all) /\ all \in SUBSET SUBSET Nat
    BY <1>2, <1>3, FS_Subset
  <1>5. S \in all
    BY <1>4, FirstExists
  <1>6. /\ S \in SUBSET (1..Len(e)) /\ Cardinality(S) = CandidateCount
        /\ Diverse({e[i] : i \in S})
    BY <1>1, <1>5 DEF DiverseSubsets
  <1>7. DiverseSubset(e) = [i \in 1..CandidateCount |-> e[Place(S, i)]]
    BY DEF DiverseSubset
  <1> HIDE DEF all, S
  <1>8. IsFiniteSet(S) /\ S \in SUBSET Nat /\ CandidateCount \in Nat
    <2>1. IsFiniteSet(S)
      BY <1>2, <1>6, FS_Subset
    <2>2. CandidateCount \in Nat
      BY PlanAssumption
    <2>3. S \in SUBSET Nat
      BY <1>1, <1>6
    <2> QED
      BY <2>1, <2>2, <2>3
  <1>9. /\ \A n \in 1..CandidateCount : Place(S, n) \in S
        /\ \A n, k \in 1..CandidateCount : Place(S, n) = Place(S, k) => n = k
        /\ \A x \in S : \E n \in 1..CandidateCount : x = Place(S, n)
    BY <1>6, <1>8, Places
  <1>10. PICK d : d = DiverseSubset(e)
    OBVIOUS
  <1>11. /\ DOMAIN d = 1..CandidateCount
         /\ \A n \in 1..CandidateCount : d[n] = e[Place(S, n)] /\ d[n] \in X
         /\ d \in [1..CandidateCount -> X]
    BY <1>1, <1>6, <1>7, <1>9, <1>10
  <1>12. d \in Seq(X) /\ Len(d) = CandidateCount
    BY <1>8, <1>11
  <1>13. OneEach(d)
    <2>1. \A i, j \in 1..CandidateCount : d[i] = d[j] => i = j
      <3> TAKE i, j \in 1..CandidateCount
      <3>1. /\ d[i] = e[Place(S, i)] /\ Place(S, i) \in DOMAIN e
            /\ d[j] = e[Place(S, j)] /\ Place(S, j) \in DOMAIN e
        BY <1>1, <1>6, <1>9, <1>11
      <3> QED
        BY <1>9, <3>1 DEF OneEach
    <2> QED
      BY <1>11, <2>1 DEF OneEach
  <1>14. ToSet(d) = {e[i] : i \in S}
    BY <1>9, <1>11 DEF ToSet
  <1>15. ToSet(d) \subseteq ToSet(e)
    BY <1>1, <1>6, <1>14 DEF ToSet
  <1>16. Cardinality(ToSet(d)) = CandidateCount
    BY <1>12, <1>13, OneEachCount
  <1> QED
    BY <1>6, <1>10, <1>12, <1>13, <1>14, <1>15, <1>16

(* Between two finite sets there is one of every size between.             *)
LEMMA SizeBetween ==
    ASSUME NEW A, IsFiniteSet(A), NEW B \in SUBSET A, NEW n \in Nat,
           Cardinality(B) <= n, n <= Cardinality(A)
    PROVE  \E C \in SUBSET A : B \subseteq C /\ Cardinality(C) = n
  <1>1. /\ Cardinality(A) \in Nat /\ Cardinality(B) \in Nat
        /\ \A C \in SUBSET A : IsFiniteSet(C) /\ Cardinality(C) \in Nat
    BY FS_Subset, FS_CardinalityType
  <1> DEFINE b == Cardinality(B)
             Has(k) == \E C \in SUBSET A : B \subseteq C /\ Cardinality(C) = b + k
             M == {k \in Nat : b + k <= Cardinality(A) => Has(k)}
  <1>2. 0 \in M
    BY <1>1
  <1>3. ASSUME NEW k \in M PROVE k + 1 \in M
    <2> SUFFICES ASSUME b + (k + 1) <= Cardinality(A) PROVE Has(k + 1)
      OBVIOUS
    <2>1. PICK C \in SUBSET A : B \subseteq C /\ Cardinality(C) = b + k
      BY <1>1
    <2>2. C # A
      BY <1>1, <2>1
    <2>3. PICK x \in A : x \notin C
      BY <2>2
    <2>4. Cardinality(C \union {x}) = (b + k) + 1
      BY <1>1, <2>1, <2>3, FS_AddElement
    <2>5. C \union {x} \in SUBSET A /\ B \subseteq C \union {x}
          /\ Cardinality(C \union {x}) = b + (k + 1)
      BY <1>1, <2>1, <2>4
    <2> QED
      BY <2>5
  <1>4. M \in SUBSET Nat
    OBVIOUS
  <1>5. n - b \in M
    <2>1. M = Nat
      <3> HIDE DEF M
      <3> QED
        BY ONLY <1>2, <1>3, <1>4, Induction
    <2> HIDE DEF M
    <2> QED
      BY <1>1, <2>1
  <1>6. Has(n - b)
    BY <1>1, <1>5
  <1>7. b + (n - b) = n
    BY <1>1
  <1> QED
    BY <1>6, <1>7

(* Enough candidates with enough families hold a combination of the size   *)
(* of the plan with enough families, unless more of these are asked for.   *)
LEMMA DiverseExists ==
    ASSUME NEW X, NEW e \in Seq(X), Enough(e), MinFamilies <= CandidateCount,
           IsFiniteSet(FamiliesOf(ToSet(e)))
    PROVE  DiverseSubsets(e) # {}
  <1> DEFINE F == FamiliesOf(ToSet(e))
             Of(i) == Patches[fate[e[i]].patch].files
  <1>1. DOMAIN e = 1..Len(e) /\ Len(e) \in Nat
    OBVIOUS
  <1>2. IsFiniteSet(1..Len(e)) /\ Cardinality(1..Len(e)) = Len(e)
    BY <1>1, FS_Interval
  <1>3. MinFamilies \in Nat /\ CandidateCount \in Nat
    BY PlanAssumption
  <1>4. Len(e) >= CandidateCount /\ Cardinality(F) >= MinFamilies
    BY DEF Enough, Diverse
  <1>5. PICK G \in SUBSET F : Cardinality(G) = MinFamilies
    <2>1. {} \in SUBSET F /\ Cardinality({}) = 0
      BY FS_EmptySet
    <2>2. MinFamilies <= Cardinality(F) /\ 0 <= MinFamilies
      <3>1. Cardinality(F) \in Nat
        BY FS_CardinalityType
      <3> QED
        BY <1>3, <1>4, <3>1
    <2> HIDE DEF F
    <2> QED
      BY <1>3, <2>1, <2>2, SizeBetween DEF F
  <1>6. \A f \in G : \E i \in 1..Len(e) : f \in Of(i)
    BY <1>1 DEF FamiliesOf, ToSet
  <1> DEFINE w == [f \in G |-> CHOOSE i \in 1..Len(e) : f \in Of(i)]
             W == {w[f] : f \in G}
  <1>7. \A f \in G : w[f] \in 1..Len(e) /\ f \in Of(w[f])
    BY <1>6
  <1> HIDE DEF w
  <1>8. W \in SUBSET (1..Len(e)) /\ w \in Surjection(G, W)
    BY <1>7 DEF Surjection, w
  <1>9. IsFiniteSet(G)
    BY FS_Subset
  <1> HIDE DEF W, F, Of
  <1>10. Cardinality(W) <= MinFamilies /\ Cardinality(W) \in Nat
    BY <1>5, <1>8, <1>9, FS_Surjection, FS_CardinalityType
  <1>11. PICK C \in SUBSET (1..Len(e)) : W \subseteq C /\ Cardinality(C) = CandidateCount
    <2>1. Cardinality(W) <= CandidateCount /\ CandidateCount <= Cardinality(1..Len(e))
      BY <1>1, <1>2, <1>3, <1>4, <1>10
    <2> QED
      <3>1. PICK N, V, n : N = 1..Len(e) /\ V = W /\ n = CandidateCount
        OBVIOUS
      <3>2. /\ IsFiniteSet(N) /\ V \in SUBSET N /\ n \in Nat
            /\ Cardinality(V) <= n /\ n <= Cardinality(N)
        BY <1>2, <1>3, <1>8, <2>1, <3>1
      <3>3. \E C \in SUBSET N : V \subseteq C /\ Cardinality(C) = n
        BY <3>2, SizeBetween
      <3> QED
        BY <3>1, <3>3
  <1> DEFINE K == FamiliesOf({e[i] : i \in C})
  <1>12. G \subseteq K
    <2> SUFFICES ASSUME NEW f \in G PROVE f \in K
      OBVIOUS
    <2>1. w[f] \in C /\ f \in Of(w[f])
      BY <1>7, <1>11 DEF W
    <2> QED
      BY <2>1 DEF FamiliesOf, Of
  <1>13. K \subseteq F
    BY <1>1 DEF FamiliesOf, F, ToSet
  <1>14. Cardinality(K) >= MinFamilies
    <2>1. IsFiniteSet(K) /\ IsFiniteSet(F)
      BY <1>13, FS_Subset DEF F
    <2> HIDE DEF K
    <2>2. Cardinality(G) <= Cardinality(K) /\ Cardinality(K) \in Nat
      BY <1>12, <2>1, FS_Subset, FS_CardinalityType
    <2> QED
      BY <1>3, <1>5, <2>2
  <1>15. C \in DiverseSubsets(e)
    BY <1>1, <1>11, <1>14 DEF DiverseSubsets, Diverse
  <1> QED
    BY <1>15

(* Where no combination of places has enough families no set of that many  *)
(* members has them.                                                       *)
LEMMA NoneDiverse ==
    ASSUME NEW X, NEW e \in Seq(X), OneEach(e), DiverseSubsets(e) = {}
    PROVE  \A S \in SUBSET ToSet(e) : Cardinality(S) = CandidateCount => ~Diverse(S)
  <1> SUFFICES ASSUME NEW S \in SUBSET ToSet(e), Cardinality(S) = CandidateCount, Diverse(S)
               PROVE  FALSE
    OBVIOUS
  <1> DEFINE I == {i \in DOMAIN e : e[i] \in S}
             f == [i \in I |-> e[i]]
  <1>1. DOMAIN e = 1..Len(e) /\ Len(e) \in Nat
    OBVIOUS
  <1>2. IsFiniteSet(DOMAIN e)
    BY <1>1, FS_Interval
  <1>3. IsFiniteSet(I)
    BY <1>2, FS_Subset
  <1>4. \A y \in S : \E i \in I : e[i] = y
    BY DEF ToSet
  <1>5. f \in Bijection(I, S)
    BY <1>4 DEF Bijection, Injection, Surjection, OneEach, IsInjective
  <1>6. Cardinality(I) = CandidateCount
    <2>1. ExistsBijection(I, S)
      BY <1>5 DEF ExistsBijection
    <2> QED
      BY <1>3, <2>1, FS_Bijection
  <1>7. {e[i] : i \in I} = S
    BY <1>4
  <1>8. I \in SUBSET DOMAIN e
    OBVIOUS
  <1> HIDE DEF I
  <1>9. I \in DiverseSubsets(e)
    BY <1>6, <1>7, <1>8 DEF DiverseSubsets
  <1> QED
    BY <1>9

-----------------------------------------------------------------------------
(* The invariant. *)

Decided == {id \in Id : fate[id] # Nobody}

\* what the loop has seen after n turns, and what of it can be executed
Gathered(n) == Kept(Emission(n), Id \ With("rejected"))
Usable(n) == Executable(Gathered(n))

Working == {"turn", "propose", "check"}

DataInv ==
    /\ saw \in [Run -> Observations]
    /\ ranking = <<>> \/ ranking \in Rankings
    /\ turn \in Nat /\ index \in Nat
    /\ DOMAIN fate = Id
    /\ \A id \in Id :
          fate[id] # Nobody => /\ fate[id].is \in {"rejected", "held", "checked"}
                               /\ fate[id].patch \in DOMAIN Patches

\* nothing is proposed before the diagnosis, nor with an incident
GateInv ==
    (Decided # {} \/ plan # <<>> \/ pc \in Working \union {"build", "done"}) =>
        Eligible # <<>> /\ Incidents = {}

\* a bundle has no two candidates that say the same
DistinctInv ==
    \A a, b \in Id :
        /\ a # b /\ a[1] = b[1]
        /\ fate[a].is \in {"checked", "held"} /\ fate[b].is \in {"checked", "held"}
        => Fingerprint(Patches[fate[a].patch]) # Fingerprint(Patches[fate[b].patch])

\* T turns were completed, over all restarts, the last of them perhaps with enough
Completed(T) ==
    /\ Decided = ServedIds(T)
    /\ \A n \in 1..T - 1 : ~Enough(Usable(n))

\* where the command is: no turn beyond those, and no earlier end
LoopInv(T) ==
    /\ pc \in {"diagnose", "gate"} => turn = 0 /\ seen = <<>>
    /\ pc \in Working =>
          /\ turn <= T /\ seen = Gathered(turn)
          /\ \A n \in 1..turn : ~Enough(Usable(n))
    /\ pc \in {"propose", "check"} =>
          /\ turn < Budget /\ index \in 1..Count + 1
          /\ \A k \in 1..index - 1 : <<Bundle, k>> \in Decided
    /\ pc = "check" => turn = T /\ index = Count /\ draft \in DOMAIN Patches

\* the plan is what those turns give
SealInv(T) ==
    plan # <<>> =>
        /\ T # 0 /\ Enough(Usable(T)) /\ DiverseSubsets(Usable(T)) # {}
        /\ plan = DiverseSubset(Usable(T))

TurnInv == \E T \in 0..Budget : Completed(T) /\ LoopInv(T) /\ SealInv(T)

EndInv == BlockedForCause /\ (pc \in {"build", "done"} => plan # <<>>)

IInv == DataInv /\ GateInv /\ DistinctInv /\ TurnInv /\ EndInv

(* Every failure of the batch has a type, and a run without a result only  *)
(* the one of the infrastructure (FailureDiagnoser.classify).              *)
LEMMA Classified ==
    ASSUME NEW r \in Run, saw \in [Run -> Observations]
    PROVE  TypeOf(r) \in Types /\ (~saw[r].valid => TypeOf(r) = "infra_failure")
  <1>1. saw[r].valid \in BOOLEAN
    BY ObservationAssumption
  <1>2. PICK q : q = Signals(saw[r])
    OBVIOUS
  <1>3. /\ Len(q) = 7 /\ q[7][1] = TRUE
        /\ q[1] = <<~saw[r].valid, "infra_failure">>
        /\ \A i \in 1..7 : q[i][2] \in Types
    BY <1>2 DEF Signals, Types, Targets
  <1> DEFINE I == {i \in 1..Len(q) : q[i][1]}
  <1>4. I \in SUBSET Nat /\ 7 \in I /\ I \in SUBSET (1..7)
    BY <1>3
  <1>5. Min(I) \in I /\ \A y \in I : Min(I) <= y
    BY <1>4, Least
  <1>6. Classify(saw[r]) = Min(I)
    BY <1>2, <1>4 DEF Classify, SelectInSeq
  <1> HIDE DEF I
  <1>7. TypeOf(r) = q[Min(I)][2]
    BY <1>2, <1>6 DEF TypeOf
  <1>8. TypeOf(r) \in Types
    BY <1>3, <1>4, <1>5, <1>7
  <1>9. ASSUME ~saw[r].valid PROVE TypeOf(r) = "infra_failure"
    <2>1. q[1][1] = TRUE
      <3>1. saw[r].valid = FALSE
        BY <1>1, <1>9
      <3>2. q[1] = <<TRUE, "infra_failure">>
        BY <1>2, <3>1 DEF Signals
      <3> QED
        BY <3>2
    <2>2. 1 \in I
      BY <1>3, <2>1 DEF I
    <2>3. Min(I) \in 1..7 /\ Min(I) <= 1
      BY <1>4, <1>5, <2>2
    <2>4. Min(I) = 1
      BY <2>3
    <2> QED
      BY <1>3, <1>7, <2>4
  <1> QED
    BY <1>8, <1>9

(* A bundle of the list stands for a failure of the agent.                 *)
LEMMA Ranked ==
    ASSUME DataInv
    PROVE  /\ ListInv /\ (ranking = <<>> => Eligible = <<>>)
           /\ \A t \in ToSet(Eligible) : \E r \in Run :
                 saw[r].valid /\ ~saw[r].success /\ TypeOf(r) = t
  <1> DEFINE D == {r \in Run : Failed(r)}
             f == [r \in D |-> TypeOf(r)]
  <1>0. saw \in [Run -> Observations]
    BY DEF DataInv
  <1>1. Found \subseteq Types /\ f \in Surjection(D, Found)
    BY <1>0, Classified DEF Found, Surjection
  <1>2. IsFiniteSet(D)
    <2>1. IsFiniteSet(Run) /\ D \in SUBSET Run
      BY RunAssumption, FS_Interval DEF Run
    <2> QED
      BY <2>1, FS_Subset
  <1> HIDE DEF D, f
  <1>3. Cardinality(Found) \in Nat
    BY <1>1, <1>2, FS_Surjection, FS_CardinalityType
  <1>4. ranking \in Seq(Types) /\ ToSet(ranking) \subseteq Found /\ OneEach(ranking)
    <2>1. CASE ranking = <<>>
      BY <2>1 DEF ToSet, OneEach
    <2>2. CASE ranking \in Rankings
      <3>1. ranking \in [1..Cardinality(Found) -> Found] /\ IsInjective(ranking)
        BY <2>2 DEF Rankings
      <3>2. ranking \in Seq(Types)
        BY <1>1, <1>3, <3>1
      <3> QED
        BY <3>1, <3>2 DEF ToSet, OneEach, IsInjective
    <2> QED
      BY <2>1, <2>2 DEF DataInv
  <1> DEFINE S == Types \ {"infra_failure", "spec_or_evaluator_issue"}
  <1>5. Eligible = Kept(ranking, S)
    BY DEF Eligible
  <1> HIDE DEF S
  <1>6. /\ Eligible \in Seq(Types) /\ OneEach(Eligible)
        /\ ToSet(Eligible) = ToSet(ranking) \intersect S
    BY <1>4, <1>5, KeptMembers
  <1>7. ASSUME ranking = <<>> PROVE Eligible = <<>>
    <2>1. ToSet(ranking) \intersect S = {}
      BY <1>7 DEF ToSet
    <2> QED
      BY <1>4, <1>5, <2>1, KeptNone
  <1>8. ASSUME NEW t \in ToSet(Eligible)
        PROVE  \E r \in Run : saw[r].valid /\ ~saw[r].success /\ TypeOf(r) = t
    <2>1. t \in Found /\ t # "infra_failure"
      BY <1>4, <1>6 DEF S
    <2>2. PICK r \in Run : Failed(r) /\ TypeOf(r) = t
      BY <2>1 DEF Found
    <2>3. saw[r].valid /\ ~saw[r].success
      BY <1>0, <2>1, <2>2, Classified DEF Failed
    <2> QED
      BY <2>2, <2>3
  <1> QED
    BY <1>6, <1>7, <1>8 DEF ListInv

(* What is seen are the candidates of the turns that were not rejected,    *)
(* and the usable ones are those that were checked.                        *)
LEMMA Gathering ==
    ASSUME DataInv, Eligible # <<>>, NEW n \in 0..Budget
    PROVE  /\ Gathered(n) \in Seq(Id) /\ OneEach(Gathered(n))
           /\ ToSet(Gathered(n)) = ServedIds(n) \ With("rejected")
           /\ Usable(n) \in Seq(Id) /\ OneEach(Usable(n))
           /\ ToSet(Usable(n)) = ServedIds(n) \intersect With("checked")
  <1>1. ListInv
    BY Ranked
  <1>2. PICK e : e = Emission(n)
    OBVIOUS
  <1>3. e \in Seq(Id) /\ OneEach(e) /\ ToSet(e) = ServedIds(n)
    BY <1>1, <1>2, TurnsCount
  <1>4. PICK g, A : A = Id \ With("rejected") /\ g = Kept(e, A)
    OBVIOUS
  <1>5. g \in Seq(Id) /\ OneEach(g) /\ ToSet(g) = ToSet(e) \intersect A
    BY <1>3, <1>4, KeptMembers
  <1>6. g = Gathered(n)
    BY <1>2, <1>4 DEF Gathered
  <1>7. PICK u, C : C = With("checked") /\ u = Kept(g, C)
    OBVIOUS
  <1>8. u \in Seq(Id) /\ OneEach(u) /\ ToSet(u) = ToSet(g) \intersect C
    BY <1>5, <1>7, KeptMembers
  <1>9. u = Usable(n)
    BY <1>6, <1>7 DEF Usable, Executable
  <1>10. ServedIds(n) \subseteq Id
    BY DEF ServedIds
  <1>11. With("checked") \intersect With("rejected") = {} /\ With("checked") \subseteq Id
    BY DEF With
  <1>12. ToSet(g) = ServedIds(n) \ With("rejected")
    BY <1>3, <1>4, <1>5, <1>10
  <1>13. ToSet(u) = ServedIds(n) \intersect With("checked")
    BY <1>7, <1>8, <1>11, <1>12
  <1> QED
    BY <1>5, <1>6, <1>8, <1>9, <1>12, <1>13

(* One turn more sees its candidate, unless it was rejected.               *)
LEMMA GatheredStep ==
    ASSUME DataInv, Eligible # <<>>, NEW n \in Nat, n < Budget
    PROVE  Gathered(n + 1) = IF Emitted(n) \in Id \ With("rejected")
                             THEN Append(Gathered(n), Emitted(n)) ELSE Gathered(n)
  <1>1. ListInv /\ n \in 0..Budget
    BY Ranked, PlanAssumption
  <1>2. PICK e, x, A : e = Emission(n) /\ x = Emitted(n) /\ A = Id \ With("rejected")
    OBVIOUS
  <1>3. e \in Seq(Id) /\ x \in Id /\ Emission(n + 1) = Append(e, x)
    BY <1>1, <1>2, TurnsCount, TurnAdds
  <1>4. Kept(Append(e, x), A) = IF x \in A THEN Append(Kept(e, A), x) ELSE Kept(e, A)
    BY <1>3, KeptAppend
  <1> QED
    BY <1>2, <1>3, <1>4 DEF Gathered

(* What the loop adds to what it has seen is the candidate of this turn:   *)
(* the earlier ones of the bundle were seen before (_propose).             *)
LEMMA SeenGrows ==
    ASSUME DataInv, Eligible # <<>>, turn < Budget, seen = Gathered(turn)
    PROVE  SeenNow = Gathered(turn + 1)
  <1>1. ListInv /\ turn \in Nat /\ turn \in 0..Budget
    BY Ranked, PlanAssumption DEF DataInv
  <1>2. PICK x, A : x = Emitted(turn) /\ A = Id \ With("rejected")
    OBVIOUS
  <1>3. PICK c \in Nat : c = Served(Bundle, turn) /\ Count = c + 1
    <2>1. Served(Bundle, turn) \in Nat
      BY <1>1, ServedStep
    <2>2. Served(Bundle, turn + 1) = Served(Bundle, turn) + 1
      BY <1>1, ServedStep DEF Bundle
    <2>3. Count = Served(Bundle, turn + 1)
      <3>1. (turn + 1) - 1 = turn
        BY <1>1
      <3> QED
        BY <3>1 DEF Count, Served
    <2> QED
      BY <2>1, <2>2, <2>3
  <1>4. x = <<Bundle, c + 1>> /\ x \in Id
    <2>1. Served(Bundle, turn + 1) = c + 1
      BY <1>1, <1>3, ServedStep DEF Bundle
    <2> QED
      BY <1>1, <1>2, <2>1, TurnAdds DEF Emitted, Bundle
  <1> DEFINE b == [k \in 1..c |-> <<Bundle, k>>]
             d == [k \in 1..Count |-> <<Bundle, k>>]
  <1>5. \A k \in 1..c : <<Bundle, k>> \in ServedIds(turn)
    <2> TAKE k \in 1..c
    <2>1. c + 1 \in 1..Budget /\ Bundle \in Types
      BY <1>4 DEF Id
    <2>2. k \in 1..Budget
      BY <2>1, PlanAssumption
    <2> QED
      BY <1>3, <2>1, <2>2 DEF ServedIds, Id
  <1>6. b \in Seq(Id) /\ ToSet(b) \subseteq ServedIds(turn)
    <2>1. b \in [1..c -> Id]
      BY <1>5 DEF ServedIds
    <2>2. ToSet(b) \subseteq ServedIds(turn)
      BY <1>5 DEF ToSet
    <2> HIDE DEF b
    <2> QED
      BY <2>1, <2>2
  <1>7. d = Append(b, x)
    <2>1. PICK a : a = Append(b, x)
      OBVIOUS
    <2>2. PICK bb : bb = b
      OBVIOUS
    <2>3. bb \in Seq(Id) /\ Len(bb) = c /\ \A k \in 1..c : bb[k] = <<Bundle, k>>
      BY <1>6, <2>2
    <2>4. /\ a \in Seq(Id) /\ DOMAIN a = 1..c + 1
          /\ \A k \in 1..c + 1 : a[k] = IF k = c + 1 THEN x ELSE bb[k]
      BY <1>4, <2>1, <2>2, <2>3
    <2>5. \A k \in 1..c + 1 : a[k] = <<Bundle, k>>
      <3> TAKE k \in 1..c + 1
      <3>1. CASE k = c + 1
        BY <1>4, <2>4, <3>1
      <3>2. CASE k # c + 1
        BY <2>3, <2>4, <3>2
      <3> QED
        BY <3>1, <3>2
    <2>6. a = [k \in DOMAIN a |-> a[k]]
      BY <2>4
    <2> QED
      BY <1>3, <2>1, <2>4, <2>5, <2>6
  <1> HIDE DEF b, d
  <1>8. Returned = IF x \in A THEN Append(Kept(b, A), x) ELSE Kept(b, A)
    <2>1. Kept(Append(b, x), A) = IF x \in A THEN Append(Kept(b, A), x) ELSE Kept(b, A)
      BY <1>4, <1>6, KeptAppend
    <2> QED
      BY <1>2, <1>7, <2>1 DEF Returned, d
  <1>9. PICK g, B : g = Gathered(turn) /\ B = Id \ ToSet(g)
    OBVIOUS
  <1>10. g \in Seq(Id) /\ ToSet(g) = ServedIds(turn) \ With("rejected")
    BY <1>1, <1>9, Gathering
  <1>11. PICK k : k = Kept(b, A)
    OBVIOUS
  <1>12. k \in Seq(Id) /\ Kept(k, B) = <<>>
    <2>1. k \in Seq(Id) /\ ToSet(k) = ToSet(b) \intersect A
      BY <1>6, <1>11, KeptMembers
    <2>2. ToSet(k) \intersect B = {}
      BY <1>2, <1>6, <1>9, <1>10, <2>1
    <2> QED
      BY <2>1, <2>2, KeptNone
  <1>13. x \in B
    BY <1>1, <1>2, <1>4, <1>9, <1>10, TurnAdds
  <1>14. SeenNow = g \o Kept(Returned, B)
    BY <1>9 DEF SeenNow
  <1>15. CASE x \in A
    <2>1. Kept(Append(k, x), B) = Append(<<>>, x)
      <3>1. Kept(Append(k, x), B) = Append(Kept(k, B), x)
        <4>1. k \in Seq(Id) /\ x \in Id
          BY <1>4, <1>12
        <4> QED
          BY <1>13, <4>1, KeptAppend
      <3> QED
        BY <1>12, <3>1
    <2>2. SeenNow = g \o Append(<<>>, x)
      BY <1>8, <1>11, <1>14, <1>15, <2>1
    <2>3. g \o Append(<<>>, x) = Append(g, x)
      BY <1>4, <1>10
    <2> QED
      BY <1>1, <1>2, <1>9, <1>15, <2>2, <2>3, GatheredStep
  <1>16. CASE x \notin A
    <2>1. SeenNow = g \o <<>>
      BY <1>8, <1>11, <1>12, <1>14, <1>16
    <2>2. g \o <<>> = g
      BY <1>10
    <2> QED
      BY <1>1, <1>2, <1>9, <1>16, <2>1, <2>2, GatheredStep
  <1> QED
    BY <1>15, <1>16

(* What the turns are about is the same as long as no candidate and no     *)
(* diagnosis is new.                                                       *)
LEMMA Same ==
    ASSUME ranking' = ranking, fate' = fate
    PROVE  /\ Eligible' = Eligible /\ Decided' = Decided /\ \A k : BundleOf(k)' = BundleOf(k)
           /\ \A n : ServedIds(n)' = ServedIds(n) /\ Gathered(n)' = Gathered(n)
           /\ \A n : Usable(n)' = Usable(n)
           /\ \A S : FamiliesOf(S)' = FamiliesOf(S)
  <1>1. Eligible' = Eligible /\ Decided' = Decided
    BY DEF Eligible, Decided
  <1>2. \A k : BundleOf(k)' = BundleOf(k)
    BY <1>1 DEF BundleOf
  <1>3. \A t, n : Served(t, n)' = Served(t, n)
    BY <1>2 DEF Served
  <1>4. \A n : ServedIds(n)' = ServedIds(n)
    BY <1>3 DEF ServedIds
  <1>5. \A k : Emitted(k)' = Emitted(k)
    BY <1>2, <1>3 DEF Emitted
  <1>6. \A n : Emission(n)' = Emission(n)
    BY <1>5 DEF Emission
  <1>7. \A s : With(s)' = With(s)
    BY DEF With
  <1>8. \A n : Gathered(n)' = Gathered(n)
    BY <1>6, <1>7 DEF Gathered
  <1>9. \A n : Usable(n)' = Usable(n)
    BY <1>7, <1>8 DEF Usable, Executable
  <1>10. \A S : FamiliesOf(S)' = FamiliesOf(S)
    BY DEF FamiliesOf
  <1> QED
    BY <1>1, <1>2, <1>4, <1>8, <1>9, <1>10

(* Nor is what is enough, and what would be chosen.                        *)
LEMMA SameChoice ==
    ASSUME ranking' = ranking, fate' = fate
    PROVE  \A n : /\ Enough(Usable(n))' = Enough(Usable(n))
                  /\ DiverseSubsets(Usable(n))' = DiverseSubsets(Usable(n))
                  /\ DiverseSubset(Usable(n))' = DiverseSubset(Usable(n))
  <1>1. \A n : Usable(n)' = Usable(n)
    BY Same
  <1>2. \A S : Diverse(S)' = Diverse(S)
    BY Same DEF Diverse
  <1>3. \A n : Enough(Usable(n))' = Enough(Usable(n))
    BY <1>1, <1>2 DEF Enough
  <1>4. \A n : DiverseSubsets(Usable(n))' = DiverseSubsets(Usable(n))
    BY <1>1, <1>2 DEF DiverseSubsets
  <1>5. \A n : DiverseSubset(Usable(n))' = DiverseSubset(Usable(n))
    <2> DEFINE First(A) == CHOOSE S \in A : \A T \in A \ {S} : Earlier(S, T)
               G(A, e) == [i \in 1..CandidateCount |-> e[Place(First(A), i)]]
    <2> TAKE n
    <2>1. DiverseSubset(Usable(n)) = G(DiverseSubsets(Usable(n)), Usable(n))
      BY DEF DiverseSubset
    <2>2. DiverseSubset(Usable(n))' = G(DiverseSubsets(Usable(n))', Usable(n)')
      BY DEF DiverseSubset
    <2> HIDE DEF G
    <2> QED
      BY <1>1, <1>4, <2>1, <2>2
  <1> QED
    BY <1>3, <1>4, <1>5

(* A step that finds and decides nothing only has to keep to its place.    *)
LEMMA Steady ==
    ASSUME IInv, UNCHANGED <<saw, ranking, fate, plan>>, turn' \in Nat, index' \in Nat,
           pc' \in Working \union {"build", "done"} => Eligible # <<>> /\ Incidents = {},
           \A T \in 0..Budget : Completed(T) /\ LoopInv(T) /\ SealInv(T) => LoopInv(T)',
           EndInv'
    PROVE  IInv'
  <1>1. DataInv'
    <2>0. \A r : TypeOf(r)' = TypeOf(r) /\ Failed(r)' = Failed(r)
      BY DEF TypeOf, Failed
    <2>1. Found' = Found
      BY <2>0 DEF Found
    <2>2. \A t : Priority(t)' = Priority(t)
      <3>1. \A t : Affected(t)' = Affected(t)
        BY <2>0 DEF Affected
      <3>2. \A t : Impact(t)' = Impact(t)
        BY <3>1 DEF Impact
      <3> QED
        BY <3>1, <3>2 DEF Priority
    <2>3. Rankings' = Rankings
      BY <2>1, <2>2 DEF Rankings
    <2> QED
      BY <2>3 DEF IInv, DataInv
  <1>2. GateInv'
    <2>1. Incidents' = Incidents
      BY DEF Incidents, Failed
    <2> QED
      BY <2>1, Same DEF IInv, GateInv
  <1>3. DistinctInv'
    BY DEF IInv, DistinctInv
  <1>4. TurnInv'
    <2>1. PICK T \in 0..Budget : Completed(T) /\ LoopInv(T) /\ SealInv(T)
      BY DEF IInv, TurnInv
    <2>2. Completed(T)'
      BY <2>1, Same, SameChoice DEF Completed
    <2>3. SealInv(T)'
      BY <2>1, Same, SameChoice DEF SealInv
    <2>4. LoopInv(T)'
      BY <2>1
    <2> QED
      BY <2>2, <2>3, <2>4 DEF TurnInv
  <1> QED
    BY <1>1, <1>2, <1>3, <1>4 DEF IInv

(* How often the bundle has been by now is once more than before the turn. *)
LEMMA CountIs ==
    ASSUME turn \in Nat
    PROVE  /\ Count = Served(Bundle, turn + 1) /\ Served(Bundle, turn) \in Nat
           /\ Count = Served(Bundle, turn) + 1 /\ Count \in 1..turn + 1
           /\ Current = <<Bundle, index>> /\ Bundle = BundleOf(turn)
  <1>1. (turn + 1) - 1 = turn
    OBVIOUS
  <1>2. Count = Served(Bundle, turn + 1)
    BY <1>1 DEF Count, Served
  <1>3. Served(Bundle, turn) \in 0..turn
        /\ Served(Bundle, turn + 1) = Served(Bundle, turn) + 1
    BY ServedStep DEF Bundle
  <1> QED
    BY <1>2, <1>3 DEF Current, Bundle

(* Before the first command nothing is decided.                            *)
LEMMA InitTurn == Init => IInv
  <1> SUFFICES ASSUME Init PROVE IInv
    OBVIOUS
  <1>1. DataInv
    BY DEF Init, DataInv
  <1>2. Decided = {}
    BY DEF Init, Decided
  <1>3. GateInv /\ EndInv
    BY <1>2 DEF Init, GateInv, EndInv, BlockedForCause, Working
  <1>4. DistinctInv
    BY DEF Init, DistinctInv, Nobody
  <1>5. TurnInv
    <2>1. Budget \in Nat
      BY PlanAssumption
    <2>2. ServedIds(0) = {}
      <3> SUFFICES ASSUME NEW id \in Id PROVE ~ (id[2] <= Served(id[1], 0))
        BY DEF ServedIds
      <3>1. id[2] \in 1..Budget
        BY DEF Id
      <3>2. Served(id[1], 0) = 0
        BY ServedStep
      <3> QED
        BY <3>1, <3>2
    <2>3. 1..0 - 1 = {} /\ 0 \in 0..Budget
      BY <2>1
    <2> QED
      BY <1>2, <2>2, <2>3 DEF Init, TurnInv, Completed, LoopInv, SealInv, Working
  <1> QED
    BY <1>1, <1>3, <1>4, <1>5 DEF IInv

(* The command starts, ends before its time or dies.                       *)
LEMMA LeaveKeeps ==
    ASSUME IInv, Begin \/ UpdaterFails \/ Die
    PROVE  IInv'
  <1>1. /\ UNCHANGED <<saw, ranking, fate, plan>> /\ pc' \in {"idle", "diagnose"}
        /\ turn' = 0 /\ index' = 1 /\ seen' = <<>>
    BY DEF Begin, UpdaterFails, Die, Fresh, retained
  <1>2. \A T : LoopInv(T)'
    BY <1>1 DEF LoopInv, Working
  <1>3. EndInv'
    BY <1>1 DEF EndInv, BlockedForCause
  <1>4. pc' \notin Working \union {"build", "done"} /\ turn' \in Nat /\ index' \in Nat
    BY <1>1 DEF Working
  <1> QED
    BY <1>1, <1>2, <1>3, <1>4, Steady

(* The command goes on where nothing of the loop is touched.               *)
LEMMA PassKeeps ==
    ASSUME IInv, Refuse \/ OpenRegistry \/ TakeTurn \/ Finish \/ EditKernel \/ UNCHANGED vars
    PROVE  IInv'
  <1>1. /\ UNCHANGED <<saw, ranking, fate, plan, turn, seen, draft>>
        /\ index' \in {1, index} /\ (pc' = "check" => index' = index)
    BY DEF Refuse, OpenRegistry, TakeTurn, Finish, EditKernel, vars, retained, local
  <1>2. turn' \in Nat /\ index' \in Nat
    BY <1>1 DEF IInv, DataInv
  <1>3. pc' \in Working \union {"build", "done"} => Eligible # <<>> /\ Incidents = {}
    BY DEF IInv, GateInv, Working, Refuse, OpenRegistry, TakeTurn, Finish, EditKernel, vars
  <1>4. Eligible' = Eligible /\ Incidents' = Incidents /\ Bundle' = Bundle /\ Count' = Count
    <2>1. Eligible' = Eligible
      BY <1>1 DEF Eligible
    <2>2. Incidents' = Incidents
      BY <1>1 DEF Incidents, Failed
    <2>3. \A k : BundleOf(k)' = BundleOf(k)
      BY <2>1 DEF BundleOf
    <2>4. Bundle' = Bundle
      BY <1>1, <2>1 DEF Bundle, BundleOf
    <2>5. Count' = Count
      BY <1>1, <2>3, <2>4 DEF Count
    <2> QED
      BY <2>1, <2>2, <2>4, <2>5
  <1>5. ASSUME NEW T \in 0..Budget, LoopInv(T) PROVE LoopInv(T)'
    <2>1. /\ \A n : Gathered(n)' = Gathered(n) /\ Enough(Usable(n))' = Enough(Usable(n))
          /\ Decided' = Decided
      BY <1>1, Same, SameChoice
    <2>2. CASE OpenRegistry
      <3>1. pc = "gate" /\ pc' = "turn" /\ turn = 0 /\ seen = <<>>
        BY <1>5, <2>2 DEF OpenRegistry, LoopInv
      <3>2. Gathered(0) = <<>>
        <4>1. Emission(0) = <<>>
          BY DEF Emission
        <4>2. PICK e : e = <<>>
          OBVIOUS
        <4>3. e \in Seq(Id) /\ DOMAIN e = {}
          BY <4>2
        <4>4. ToSet(e) \intersect (Id \ With("rejected")) = {}
          BY <4>3 DEF ToSet
        <4>5. Kept(e, Id \ With("rejected")) = <<>>
          BY <4>3, <4>4, KeptNone
        <4> QED
          BY <4>1, <4>2, <4>5 DEF Gathered
      <3>3. 1..turn = {} /\ turn <= T
        BY <3>1
      <3> QED
        BY <1>1, <2>1, <3>1, <3>2, <3>3 DEF LoopInv, Working
    <2>3. CASE TakeTurn
      <3>1. pc = "turn" /\ pc' = "propose" /\ turn < Budget /\ index' = 1
        BY <2>3 DEF TakeTurn
      <3>2. 1..index' - 1 = {} /\ index' \in 1..Count + 1
        <4>1. turn \in Nat
          BY DEF IInv, DataInv
        <4> QED
          BY <3>1, <4>1, CountIs
      <3> QED
        BY <1>1, <1>4, <1>5, <2>1, <3>1, <3>2 DEF LoopInv, Working
    <2>4. CASE Refuse \/ Finish
      <3>1. pc' \in {"blocked", "done"}
        BY <2>4 DEF Refuse, Finish
      <3> QED
        BY <3>1 DEF LoopInv, Working
    <2>5. CASE EditKernel \/ UNCHANGED vars
      <3>1. pc' = pc /\ index' = index
        BY <2>5 DEF EditKernel, vars, local
      <3> QED
        BY <1>1, <1>4, <1>5, <2>1, <3>1 DEF LoopInv, Working
    <2> QED
      BY <2>2, <2>3, <2>4, <2>5
  <1>6. EndInv'
    <2>1. CASE Refuse
      <3>1. pc' = "blocked" /\ (Incidents # {} \/ Eligible = <<>>)
        BY <2>1 DEF Refuse
      <3> QED
        BY <1>4, <3>1 DEF EndInv, BlockedForCause
    <2>2. CASE OpenRegistry \/ TakeTurn \/ Finish
      <3>1. pc' # "blocked" /\ (pc' \in {"build", "done"} => pc = "build")
        BY <2>2 DEF OpenRegistry, TakeTurn, Finish
      <3> QED
        BY <1>1, <3>1 DEF EndInv, BlockedForCause, IInv
    <2>3. CASE EditKernel \/ UNCHANGED vars
      <3>1. pc' = pc
        BY <2>3 DEF EditKernel, vars
      <3>2. NotEnough' = NotEnough /\ NoChoice' = NoChoice
        BY <1>1 DEF NotEnough, NoChoice, Diverse, With, FamiliesOf
      <3> QED
        BY <1>1, <1>4, <3>1, <3>2 DEF EndInv, BlockedForCause, IInv
    <2> QED
      BY <2>1, <2>2, <2>3
  <1> QED
    BY <1>1, <1>2, <1>3, <1>5, <1>6, Steady

(* The candidates of a list touch finitely many families.                  *)
LEMMA FilesFinite ==
    ASSUME DataInv, NEW S \in SUBSET {id \in Id : fate[id].is = "checked"}
    PROVE  IsFiniteSet(FamiliesOf(S))
  <1>1. \A id \in S :
           Patches[fate[id].patch].files \in SUBSET (Families \union {"protected", "stray"})
    BY PatchAssumption DEF DataInv, Nobody
  <1>2. FamiliesOf(S) \in SUBSET (Families \union {"protected", "stray"})
    BY <1>1 DEF FamiliesOf
  <1>3. IsFiniteSet(Families)
    <2> DEFINE f == [i \in 1..6 |-> CASE i = 1 -> "prompt" [] i = 2 -> "context"
                       [] i = 3 -> "retrieval" [] i = 4 -> "tools" [] i = 5 -> "orchestration"
                       [] OTHER -> "middleware"]
    <2>1. f[1] = "prompt" /\ f[2] = "context" /\ f[3] = "retrieval" /\ f[4] = "tools"
          /\ f[5] = "orchestration" /\ f[6] = "middleware"
      OBVIOUS
    <2>2. \A i \in 1..6 : f[i] \in Families
      BY DEF Families
    <2>3. f \in [1..6 -> Families] /\ 1 \in 1..6 /\ 2 \in 1..6 /\ 3 \in 1..6
          /\ 4 \in 1..6 /\ 5 \in 1..6 /\ 6 \in 1..6
      BY <2>2
    <2> HIDE DEF f
    <2>4. f \in Surjection(1..6, Families)
      BY <2>1, <2>3 DEF Surjection, Families
    <2>5. IsFiniteSet(1..6)
      <3>1. PICK a \in Int, b \in Int : a = 1 /\ b = 6
        OBVIOUS
      <3>2. IsFiniteSet(a..b)
        BY FS_Interval
      <3> QED
        BY <3>1, <3>2
    <2> QED
      BY <2>4, <2>5, FS_Surjection
  <1>4. IsFiniteSet(Families \union {"protected"})
    BY <1>3, FS_AddElement
  <1>5. IsFiniteSet((Families \union {"protected"}) \union {"stray"})
    BY <1>4, FS_AddElement
  <1>6. FamiliesOf(S) \in SUBSET ((Families \union {"protected"}) \union {"stray"})
    BY <1>2
  <1> QED
    BY <1>5, <1>6, FS_Subset

(* While the bundle has a candidate left, that one has a name.             *)
LEMMA AtWork ==
    ASSUME IInv, pc \in {"propose", "check"}
    PROVE  /\ turn \in Nat /\ turn < Budget /\ Eligible # <<>> /\ Incidents = {} /\ ListInv
           /\ index \in 1..Count + 1 /\ Bundle \in Types /\ Budget \in Nat
           /\ index <= Count => Current \in Id
  <1>1. turn \in Nat /\ Eligible # <<>> /\ Incidents = {} /\ Budget \in Nat
    BY PlanAssumption DEF IInv, DataInv, GateInv, Working
  <1>2. turn < Budget /\ index \in 1..Count + 1
    BY DEF IInv, TurnInv, LoopInv
  <1>3. ListInv
    BY Ranked DEF IInv
  <1>4. Bundle \in Types
    BY <1>1, <1>3, BundleListed DEF Bundle
  <1>5. ASSUME index <= Count PROVE Current \in Id
    <2>1. Count \in 1..turn + 1 /\ Current = <<Bundle, index>>
      BY <1>1, CountIs
    <2>2. index \in 1..Budget
      BY <1>1, <1>2, <1>5, <2>1
    <2> QED
      BY <1>4, <2>1, <2>2 DEF Id
  <1> QED
    BY <1>1, <1>2, <1>3, <1>4, <1>5

(* The diagnosis is written once, before anything is decided.              *)
LEMMA DiagnoseKeeps ==
    ASSUME IInv, Diagnose
    PROVE  IInv'
  <1>1. /\ UNCHANGED <<saw, fate, plan, turn, index, seen>> /\ pc = "diagnose" /\ pc' = "gate"
    BY DEF Diagnose, local
  <1>2. turn' \in Nat /\ index' \in Nat
    BY <1>1 DEF IInv, DataInv
  <1>3. EndInv'
    BY <1>1 DEF EndInv, BlockedForCause
  <1>4. CASE ranking' = ranking
    <2>1. \A T : LoopInv(T) => LoopInv(T)'
      BY <1>1 DEF LoopInv, Working
    <2> QED
      BY <1>1, <1>2, <1>3, <1>4, <2>1, Steady DEF Working
  <1>5. CASE ranking' # ranking
    <2>1. ranking = <<>> /\ ranking' \in Rankings
      BY <1>5 DEF Diagnose
    <2>2. Decided = {} /\ plan = <<>>
      BY <2>1, Ranked DEF IInv, GateInv
    <2>3. Decided' = {} /\ plan' = <<>>
      BY <1>1, <2>2 DEF Decided
    <2>4. DataInv'
      <3>0. \A r : TypeOf(r)' = TypeOf(r) /\ Failed(r)' = Failed(r)
        BY <1>1 DEF TypeOf, Failed
      <3>1. Found' = Found
        BY <3>0 DEF Found
      <3>2. \A t : Affected(t)' = Affected(t)
        BY <3>0 DEF Affected
      <3>3. \A t : Impact(t)' = Impact(t)
        BY <3>2 DEF Impact
      <3>4. \A t : Priority(t)' = Priority(t)
        BY <3>2, <3>3 DEF Priority
      <3>5. Rankings' = Rankings
        BY <3>1, <3>4 DEF Rankings
      <3> QED
        BY <1>1, <1>2, <2>1, <3>5 DEF IInv, DataInv
    <2>5. GateInv'
      BY <1>1, <2>3 DEF GateInv, Working
    <2>6. DistinctInv'
      BY <1>1 DEF IInv, DistinctInv
    <2>7. turn = 0 /\ seen = <<>>
      BY <1>1 DEF IInv, TurnInv, LoopInv
    <2>8. Completed(0)' /\ LoopInv(0)' /\ SealInv(0)'
      <3>1. ServedIds(0)' = {}
        <4>1. \A t : Served(t, 0)' = 0
          <5>1. 0..0 - 1 = {}
            OBVIOUS
          <5> QED
            BY <5>1, FS_EmptySet DEF Served
        <4> SUFFICES ASSUME NEW id \in Id PROVE ~ (id[2] <= Served(id[1], 0)')
          BY DEF ServedIds
        <4>2. id[2] \in 1..Budget
          BY DEF Id
        <4> QED
          BY <4>1, <4>2, PlanAssumption
      <3>2. 1..0 - 1 = {}
        OBVIOUS
      <3> QED
        BY <1>1, <2>3, <2>7, <3>1, <3>2 DEF Completed, LoopInv, SealInv, Working
    <2>9. 0 \in 0..Budget
      BY PlanAssumption
    <2> QED
      BY <1>3, <2>4, <2>5, <2>6, <2>8, <2>9 DEF IInv, TurnInv
  <1> QED
    BY <1>4, <1>5

(* A candidate that is known is passed over.                               *)
LEMMA KnownKeeps ==
    ASSUME IInv, Known
    PROVE  IInv'
  <1>1. /\ UNCHANGED <<saw, ranking, fate, plan, turn, seen>> /\ index' = index + 1
        /\ pc = "propose" /\ pc' = "propose" /\ index <= Count /\ fate[Current] # Nobody
    BY DEF Known, retained
  <1>2. /\ turn \in Nat /\ Eligible # <<>> /\ Incidents = {} /\ Current \in Decided
        /\ index \in 1..Count + 1 /\ Count \in Nat /\ Current = <<Bundle, index>>
    BY <1>1, AtWork, CountIs DEF Decided
  <1>3. /\ Decided' = Decided /\ Bundle' = Bundle /\ Count' = Count
        /\ \A n : Gathered(n)' = Gathered(n) /\ Enough(Usable(n))' = Enough(Usable(n))
    <2>1. \A k : BundleOf(k)' = BundleOf(k)
      BY <1>1, Same
    <2>2. Bundle' = Bundle
      BY <1>1, Same DEF Bundle, BundleOf
    <2>3. Count' = Count
      BY <1>1, <2>1, <2>2 DEF Count
    <2> QED
      BY <1>1, <2>2, <2>3, Same, SameChoice
  <1>4. ASSUME NEW T \in 0..Budget, LoopInv(T) PROVE LoopInv(T)'
    <2>1. /\ turn <= T /\ seen = Gathered(turn) /\ turn < Budget
          /\ \A n \in 1..turn : ~Enough(Usable(n))
          /\ \A k \in 1..index - 1 : <<Bundle, k>> \in Decided
      BY <1>1, <1>4 DEF LoopInv, Working
    <2>2. \A k \in 1..index' - 1 : <<Bundle, k>> \in Decided
      <3> TAKE k \in 1..index' - 1
      <3>1. k \in 1..index - 1 \/ k = index
        BY <1>1, <1>2
      <3> QED
        BY <1>2, <2>1, <3>1
    <2>3. index' \in 1..Count + 1
      BY <1>1, <1>2
    <2> QED
      BY <1>1, <1>3, <2>1, <2>2, <2>3 DEF LoopInv, Working
  <1>5. EndInv'
    BY <1>1 DEF EndInv, BlockedForCause
  <1>6. turn' \in Nat /\ index' \in Nat
    BY <1>1, <1>2
  <1> QED
    BY <1>1, <1>2, <1>4, <1>5, <1>6, Steady

(* The candidate the updater is asked for is that of the first turn that   *)
(* was not completed.                                                      *)
LEMMA AskKeeps ==
    ASSUME IInv, AskUpdater
    PROVE  IInv'
  <1>1. /\ UNCHANGED <<saw, ranking, fate, plan, turn, seen, index>>
        /\ pc = "propose" /\ pc' = "check" /\ index <= Count /\ fate[Current] = Nobody
        /\ draft' \in DOMAIN Patches
    BY DEF AskUpdater
  <1>2. /\ turn \in Nat /\ Eligible # <<>> /\ Incidents = {} /\ Current \in Id \ Decided
        /\ index \in 1..Count + 1 /\ Current = <<Bundle, index>>
    BY <1>1, AtWork, CountIs DEF Decided
  <1>3. /\ Decided' = Decided /\ Bundle' = Bundle /\ Count' = Count
        /\ \A n : Gathered(n)' = Gathered(n) /\ Enough(Usable(n))' = Enough(Usable(n))
    <2>1. \A k : BundleOf(k)' = BundleOf(k)
      BY <1>1, Same
    <2>2. Bundle' = Bundle
      BY <1>1, Same DEF Bundle, BundleOf
    <2>3. Count' = Count
      BY <1>1, <2>1, <2>2 DEF Count
    <2> QED
      BY <1>1, <2>2, <2>3, Same, SameChoice
  <1>4. ASSUME NEW T \in 0..Budget, Completed(T), LoopInv(T) PROVE LoopInv(T)'
    <2>1. /\ turn <= T /\ seen = Gathered(turn) /\ turn < Budget
          /\ \A n \in 1..turn : ~Enough(Usable(n))
          /\ \A k \in 1..index - 1 : <<Bundle, k>> \in Decided
      BY <1>1, <1>4 DEF LoopInv, Working
    <2>2. /\ Count = Served(Bundle, turn + 1) /\ Count = Served(Bundle, turn) + 1
          /\ Served(Bundle, turn) \in Nat /\ Served(Bundle, T) \in Nat
      <3>1. T \in Nat
        BY PlanAssumption
      <3>2. Served(Bundle, T) \in Nat
        BY <3>1, ServedStep
      <3> QED
        BY <1>2, <3>2, CountIs
    <2>3. ~ (index <= Served(Bundle, T))
      BY <1>2, <1>4 DEF Completed, ServedIds
    <2>4. turn = T
      <3>1. ASSUME turn # T PROVE FALSE
        <4>1. turn + 1 \in Nat /\ turn + 1 <= T
          BY <1>2, <2>1, <3>1
        <4>2. Served(Bundle, turn + 1) <= Served(Bundle, T)
          BY <4>1, ServedGrows
        <4> QED
          BY <1>1, <1>2, <2>2, <2>3, <4>2
      <3> QED
        BY <3>1
    <2>5. index = Count
      BY <1>1, <1>2, <2>2, <2>3, <2>4
    <2> QED
      BY <1>1, <1>2, <1>3, <2>1, <2>4, <2>5 DEF LoopInv, Working
  <1>5. EndInv'
    BY <1>1 DEF EndInv, BlockedForCause
  <1>6. turn' \in Nat /\ index' \in Nat
    BY <1>1, <1>2 DEF IInv, DataInv
  <1> QED
    BY <1>1, <1>2, <1>4, <1>5, <1>6, Steady

(* A budget that is spent was spent without enough.                        *)
LEMMA ExhaustedKeeps ==
    ASSUME IInv, Exhausted
    PROVE  IInv'
  <1>1. /\ UNCHANGED <<saw, ranking, fate, plan, turn, seen, index>>
        /\ pc = "turn" /\ pc' = "blocked" /\ turn = Budget
    BY DEF Exhausted, retained, local
  <1>2. DataInv /\ ListInv /\ Eligible # <<>> /\ Budget \in Nat \ {0}
    BY <1>1, Ranked, PlanAssumption DEF IInv, GateInv, Working
  <1>3. Decided = ServedIds(Budget) /\ ~Enough(Usable(Budget))
    <2>1. PICK T \in 0..Budget : Completed(T) /\ LoopInv(T)
      BY DEF IInv, TurnInv
    <2>2. T = Budget
      BY <1>1, <1>2, <2>1 DEF LoopInv, Working
    <2> QED
      BY <1>1, <1>2, <2>1, <2>2 DEF Completed, LoopInv, Working
  <1>4. Cardinality(Decided) = Budget
    BY <1>2, <1>3, TurnsCount
  <1>5. PICK u : u = Usable(Budget)
    OBVIOUS
  <1>6. /\ u \in Seq(Id) /\ OneEach(u)
        /\ ToSet(u) = ServedIds(Budget) \intersect With("checked")
    BY <1>2, <1>5, Gathering
  <1>7. With("checked") \subseteq Decided
    BY DEF With, Decided, Nobody
  <1>8. ToSet(u) = With("checked")
    BY <1>3, <1>6, <1>7
  <1>9. Len(u) = Cardinality(With("checked")) /\ Len(u) \in Nat
    BY <1>6, <1>8, OneEachCount
  <1>10. PICK f : f = Cardinality(FamiliesOf(With("checked")))
    OBVIOUS
  <1>11. ~(Len(u) >= CandidateCount /\ f >= MinFamilies)
    BY <1>3, <1>5, <1>8, <1>10 DEF Enough, Diverse
  <1>12. IsFiniteSet(FamiliesOf(With("checked")))
    BY <1>2, FilesFinite DEF With
  <1>13. NotEnough
    <2>1. f \in Nat
      BY <1>10, <1>12, FS_CardinalityType
    <2>2. Len(u) < CandidateCount \/ f < MinFamilies
      BY <1>9, <1>11, <2>1, PlanAssumption
    <2> QED
      BY <1>4, <1>9, <1>10, <2>2 DEF NotEnough, Decided
  <1>14. NotEnough'
    BY <1>1, <1>13 DEF NotEnough, With, FamiliesOf
  <1>15. EndInv'
    BY <1>1, <1>14 DEF EndInv, BlockedForCause
  <1>16. \A T : LoopInv(T)'
    BY <1>1 DEF LoopInv, Working
  <1>17. turn' \in Nat /\ index' \in Nat
    BY <1>1 DEF IInv, DataInv
  <1> QED
    BY <1>1, <1>15, <1>16, <1>17, Steady DEF Working

(* The turns depend on the diagnosis alone, and that on what the runs show.*)
LEMMA SameTurns ==
    ASSUME ranking' = ranking, saw' = saw
    PROVE  /\ Eligible' = Eligible /\ Incidents' = Incidents /\ Rankings' = Rankings
           /\ \A k : BundleOf(k)' = BundleOf(k) /\ Emitted(k)' = Emitted(k)
           /\ \A n : ServedIds(n)' = ServedIds(n) /\ Emission(n)' = Emission(n)
  <1>1. Eligible' = Eligible
    BY DEF Eligible
  <1>2. \A r : TypeOf(r)' = TypeOf(r) /\ Failed(r)' = Failed(r)
    BY DEF TypeOf, Failed
  <1>3. Found' = Found /\ Incidents' = Incidents
    BY <1>2 DEF Found, Incidents
  <1>4. \A t : Affected(t)' = Affected(t)
    BY <1>2 DEF Affected
  <1>5. \A t : Impact(t)' = Impact(t)
    BY <1>4 DEF Impact
  <1>6. \A t : Priority(t)' = Priority(t)
    BY <1>4, <1>5 DEF Priority
  <1>7. Rankings' = Rankings
    BY <1>3, <1>6 DEF Rankings
  <1>8. \A k : BundleOf(k)' = BundleOf(k)
    BY <1>1 DEF BundleOf
  <1>9. \A t, n : Served(t, n)' = Served(t, n)
    BY <1>8 DEF Served
  <1>10. \A n : ServedIds(n)' = ServedIds(n)
    BY <1>9 DEF ServedIds
  <1>11. \A k : Emitted(k)' = Emitted(k)
    BY <1>8, <1>9 DEF Emitted
  <1>12. \A n : Emission(n)' = Emission(n)
    BY <1>11 DEF Emission
  <1> QED
    BY <1>1, <1>3, <1>7, <1>8, <1>10, <1>11, <1>12

(* A new candidate says nothing of the turns before its own.               *)
LEMMA EarlierTurns ==
    ASSUME DataInv, Eligible # <<>>, ranking' = ranking, saw' = saw, NEW T \in 0..Budget,
           \A id \in ServedIds(T) : fate'[id] = fate[id]
    PROVE  \A n \in 0..T : Gathered(n)' = Gathered(n) /\ Enough(Usable(n))' = Enough(Usable(n))
  <1> SUFFICES ASSUME NEW n \in 0..T
               PROVE  Gathered(n)' = Gathered(n) /\ Enough(Usable(n))' = Enough(Usable(n))
    OBVIOUS
  <1>1. Budget \in Nat /\ T \in Nat /\ n \in Nat /\ n <= T /\ n \in 0..Budget
    BY PlanAssumption
  <1>2. \A id \in ServedIds(n) : id \in Id /\ fate'[id] = fate[id]
    <2> TAKE id \in ServedIds(n)
    <2>1. id \in Id /\ id[2] <= Served(id[1], n) /\ id[2] \in Nat
      BY PlanAssumption DEF ServedIds, Id
    <2>2. Served(id[1], n) <= Served(id[1], T)
      BY <1>1, ServedGrows
    <2>3. Served(id[1], n) \in Nat /\ Served(id[1], T) \in Nat
      <3>1. Served(id[1], n) \in Nat
        BY <1>1, ServedStep
      <3>2. Served(id[1], T) \in Nat
        BY <1>1, ServedStep
      <3> QED
        BY <3>1, <3>2
    <2>4. id \in ServedIds(T)
      BY <2>1, <2>2, <2>3 DEF ServedIds
    <2> QED
      BY <2>1, <2>4
  <1>3. ListInv
    BY Ranked
  <1>4. PICK e : e = Emission(n)
    OBVIOUS
  <1>5. ToSet(e) = ServedIds(n) /\ Emission(n)' = e
    BY <1>1, <1>3, <1>4, TurnsCount, SameTurns
  <1>6. PICK A, B : A = Id \ With("rejected") /\ B = (Id \ With("rejected"))'
    OBVIOUS
  <1>7. \A id \in ServedIds(n) : id \in A <=> id \in B
    BY <1>2, <1>6 DEF With
  <1>8. Kept(e, A) = Kept(e, B)
    BY <1>5, <1>7, KeptSame
  <1>9. Gathered(n) = Kept(e, A)
    BY <1>4, <1>6 DEF Gathered
  <1>10. Gathered(n)' = Kept(e, B)
    <2>1. Gathered(n)' = Kept(Emission(n)', (Id \ With("rejected"))')
      BY DEF Gathered, Kept, Place
    <2> QED
      BY <1>5, <1>6, <2>1
  <1>11. PICK g : g = Gathered(n) /\ g = Gathered(n)'
    BY <1>8, <1>9, <1>10
  <1>12. ToSet(g) \subseteq ServedIds(n)
    BY <1>1, <1>11, Gathering
  <1>13. PICK C, D : C = With("checked") /\ D = With("checked")'
    OBVIOUS
  <1>14. \A id \in ToSet(g) : id \in C <=> id \in D
    BY <1>2, <1>12, <1>13 DEF With
  <1>15. Kept(g, C) = Kept(g, D)
    BY <1>14, KeptSame
  <1>16. Usable(n) = Kept(g, C)
    BY <1>11, <1>13 DEF Usable, Executable
  <1>17. Usable(n)' = Kept(g, D)
    <2>1. Usable(n)' = Kept(Gathered(n)', With("checked")')
      BY DEF Usable, Executable, Kept, Place
    <2> QED
      BY <1>11, <1>13, <2>1
  <1>18. PICK u : u = Usable(n) /\ u = Usable(n)'
    BY <1>15, <1>16, <1>17
  <1>19. ToSet(u) \subseteq ServedIds(n)
    BY <1>1, <1>18, Gathering
  <1>20. FamiliesOf(ToSet(u))' = FamiliesOf(ToSet(u))
    BY <1>2, <1>19 DEF FamiliesOf
  <1>21. Enough(u)' = Enough(u)
    BY <1>20 DEF Enough, Diverse
  <1>22. Enough(Usable(n)) = Enough(u)
    BY <1>18
  <1>23. Enough(Usable(n))' = Enough(u)'
    <2>1. Enough(Usable(n))' = (Len(Usable(n)') >= CandidateCount
                                /\ (Diverse(ToSet(Usable(n))))')
      BY DEF Enough
    <2>2. (Diverse(ToSet(Usable(n))))' = (Diverse(ToSet(u)))'
      BY <1>18 DEF Diverse, FamiliesOf
    <2> QED
      BY <1>18, <2>1, <2>2 DEF Enough
  <1> QED
    BY <1>11, <1>21, <1>22, <1>23

(* What the check and the registry make of a patch.                        *)
LEMMA RegisteredIs ==
    ASSUME NEW n \in DOMAIN Patches, NEW t
    PROVE  /\ Registered(n, t).is \in {"rejected", "held", "checked"}
           /\ Registered(n, t).patch = n /\ Registered(n, t) # Nobody
           /\ Registered(n, t).is \in {"held", "checked"} => ~Duplicate(Patches[n], t)
  BY DEF Registered, Nobody

(* The answer of the updater completes the turn.                           *)
LEMMA CheckKeeps ==
    ASSUME IInv, Register
    PROVE  IInv'
  <1>1. /\ UNCHANGED <<saw, ranking, plan, turn, seen>> /\ index' = index + 1
        /\ pc = "check" /\ pc' = "propose"
        /\ fate' = [fate EXCEPT ![Current] = Registered(draft, Bundle)]
    BY DEF Register
  <1>2. /\ DataInv /\ ListInv /\ Eligible # <<>> /\ Incidents = {} /\ Budget \in Nat
        /\ turn \in Nat /\ turn < Budget /\ Bundle \in Types
    BY <1>1, AtWork DEF IInv
  <1>3. PICK T \in 0..Budget : Completed(T) /\ LoopInv(T) /\ SealInv(T)
    BY DEF IInv, TurnInv
  <1>4. /\ turn = T /\ index = Count /\ draft \in DOMAIN Patches /\ seen = Gathered(turn)
        /\ \A n \in 1..turn : ~Enough(Usable(n))
        /\ \A k \in 1..index - 1 : <<Bundle, k>> \in Decided
    BY <1>1, <1>3 DEF LoopInv, Working
  <1>5. PICK x : x = Emitted(T)
    OBVIOUS
  <1>6. /\ Current = x /\ x = <<Bundle, index>> /\ x \in Id /\ x \notin ServedIds(T)
        /\ ServedIds(T + 1) = ServedIds(T) \union {x} /\ Count \in 1..turn + 1
    <2>1. Bundle = BundleOf(T) /\ Count = Served(Bundle, T + 1) /\ Current = <<Bundle, index>>
          /\ Count \in 1..turn + 1
      BY <1>2, <1>4, CountIs
    <2>2. Current = x
      BY <1>4, <1>5, <2>1 DEF Emitted
    <2> QED
      BY <1>2, <1>4, <1>5, <2>1, <2>2, TurnAdds
  <1>7. PICK f : f = Registered(draft, Bundle)
    OBVIOUS
  <1>8. /\ f.is \in {"rejected", "held", "checked"} /\ f.patch = draft /\ f # Nobody
        /\ f.is \in {"held", "checked"} => ~Duplicate(Patches[draft], Bundle)
    BY <1>4, <1>7, RegisteredIs
  <1>9. /\ DOMAIN fate' = Id /\ fate'[x] = f
        /\ \A id \in Id \ {x} : fate'[id] = fate[id]
    BY <1>1, <1>2, <1>6, <1>7 DEF DataInv
  <1>10. Decided' = Decided \union {x}
    BY <1>6, <1>8, <1>9 DEF Decided
  <1>11. plan = <<>>
    <2>1. ASSUME plan # <<>> PROVE FALSE
      <3>1. T # 0 /\ Enough(Usable(T))
        BY <1>3, <2>1 DEF SealInv
      <3>2. T \in 1..turn
        BY <1>2, <1>4, <3>1
      <3> QED
        BY <1>4, <3>1, <3>2
    <2> QED
      BY <2>1
  <1>12. \A n \in 0..T : Gathered(n)' = Gathered(n) /\ Enough(Usable(n))' = Enough(Usable(n))
    <2>1. \A id \in ServedIds(T) : fate'[id] = fate[id]
      BY <1>6, <1>9 DEF ServedIds
    <2> QED
      BY <1>1, <1>2, <2>1, EarlierTurns
  <1>13. /\ Eligible' = Eligible /\ Incidents' = Incidents /\ Rankings' = Rankings
         /\ \A n : ServedIds(n)' = ServedIds(n)
         /\ \A k : BundleOf(k)' = BundleOf(k)
    BY <1>1, SameTurns
  <1>14. Bundle' = Bundle /\ Count' = Count
    <2>1. Bundle' = Bundle
      BY <1>1, <1>13 DEF Bundle, BundleOf
    <2> QED
      BY <1>1, <1>13, <2>1 DEF Count
  <1>15. DataInv'
    <2>1. \A id \in Id : fate'[id] # Nobody => /\ fate'[id].is \in {"rejected", "held", "checked"}
                                               /\ fate'[id].patch \in DOMAIN Patches
      <3> TAKE id \in Id
      <3>1. CASE id = x
        BY <1>4, <1>8, <1>9, <3>1
      <3>2. CASE id # x
        BY <1>2, <1>9, <3>2 DEF DataInv
      <3> QED
        BY <3>1, <3>2
    <2>2. turn' \in Nat /\ index' \in Nat
      BY <1>1, <1>2 DEF DataInv
    <2> QED
      BY <1>1, <1>2, <1>9, <1>13, <2>1, <2>2 DEF DataInv
  <1>16. GateInv'
    BY <1>2, <1>13 DEF GateInv
  <1>17. DistinctInv'
    <2>1. ASSUME NEW b \in Id, b # x, b[1] = Bundle, fate[b].is \in {"checked", "held"},
                 f.is \in {"checked", "held"}
          PROVE  Fingerprint(Patches[fate[b].patch]) # Fingerprint(Patches[draft])
      <3>1. b = <<Bundle, b[2]>> /\ b[2] \in 1..Budget
        BY <2>1 DEF Id
      <3> QED
        BY <1>8, <2>1, <3>1 DEF Duplicate
    <2> SUFFICES ASSUME NEW a \in Id, NEW b \in Id, a # b, a[1] = b[1],
                        fate'[a].is \in {"checked", "held"}, fate'[b].is \in {"checked", "held"}
                 PROVE  Fingerprint(Patches[fate'[a].patch]) # Fingerprint(Patches[fate'[b].patch])
      BY DEF DistinctInv, Fingerprint
    <2>2. x[1] = Bundle
      BY <1>6
    <2>3. CASE a = x
      BY <1>8, <1>9, <2>1, <2>2, <2>3
    <2>4. CASE b = x
      BY <1>8, <1>9, <2>1, <2>2, <2>4
    <2>5. CASE a # x /\ b # x
      BY <1>9, <2>5 DEF IInv, DistinctInv
    <2> QED
      BY <2>3, <2>4, <2>5
  <1>18. T + 1 \in 0..Budget /\ (T + 1) - 1 = T
    BY <1>2, <1>4
  <1>19. Completed(T + 1)'
    <2>1. \A n \in 1..T : ~Enough(Usable(n))'
      BY <1>4, <1>12
    <2> QED
      BY <1>3, <1>6, <1>10, <1>13, <1>18, <2>1 DEF Completed
  <1>20. LoopInv(T + 1)'
    <2>1. turn <= T + 1 /\ turn \in 0..T
      BY <1>2, <1>4
    <2>2. \A n \in 1..turn : ~Enough(Usable(n))'
      BY <1>4, <1>12
    <2>3. \A k \in 1..index' - 1 : <<Bundle, k>> \in Decided'
      <3> TAKE k \in 1..index' - 1
      <3>1. k \in 1..index - 1 \/ k = index
        BY <1>1, <1>4, <1>6
      <3> QED
        BY <1>4, <1>6, <1>10, <3>1
    <2>4. index' \in 1..Count + 1
      BY <1>1, <1>4, <1>6
    <2> QED
      BY <1>1, <1>2, <1>4, <1>12, <1>14, <2>1, <2>2, <2>3, <2>4 DEF LoopInv, Working
  <1>21. SealInv(T + 1)'
    BY <1>1, <1>11 DEF SealInv
  <1>22. EndInv'
    BY <1>1 DEF EndInv, BlockedForCause
  <1> QED
    BY <1>15, <1>16, <1>17, <1>18, <1>19, <1>20, <1>21, <1>22 DEF IInv, TurnInv

(* What the plan is made of.                                               *)
LEMMA PlanIs ==
    ASSUME IInv, plan # <<>>
    PROVE  /\ Eligible # <<>> /\ Incidents = {} /\ plan \in Seq(Id)
           /\ Cardinality(ToSet(plan)) = CandidateCount /\ Diverse(ToSet(plan))
           /\ ToSet(plan) \subseteq With("checked")
           /\ \A id \in ToSet(plan) : id[1] \in ToSet(Eligible)
  <1>1. Eligible # <<>> /\ Incidents = {} /\ DataInv /\ ListInv
    BY Ranked DEF IInv, GateInv
  <1>2. PICK T \in 0..Budget : Completed(T) /\ SealInv(T)
    BY DEF IInv, TurnInv
  <1>3. PICK u : u = Usable(T)
    OBVIOUS
  <1>4. /\ u \in Seq(Id) /\ OneEach(u)
        /\ ToSet(u) = ServedIds(T) \intersect With("checked")
    BY <1>1, <1>3, Gathering
  <1>5. DiverseSubsets(u) # {} /\ plan = DiverseSubset(u)
    BY <1>2, <1>3 DEF SealInv
  <1>6. /\ plan \in Seq(Id) /\ ToSet(plan) \subseteq ToSet(u)
        /\ Cardinality(ToSet(plan)) = CandidateCount /\ Diverse(ToSet(plan))
    BY <1>4, <1>5, Chosen
  <1>7. ASSUME NEW id \in ToSet(plan) PROVE id[1] \in ToSet(Eligible)
    <2>1. id \in ServedIds(T)
      BY <1>4, <1>6
    <2>2. id \in ToSet(Emission(T))
      BY <1>1, <2>1, TurnsCount
    <2>3. PICK k \in DOMAIN Emission(T) : id = Emission(T)[k]
      BY <2>2 DEF ToSet
    <2>4. k \in 1..T /\ k - 1 \in Nat
      BY <2>3, PlanAssumption DEF Emission
    <2>5. id = Emitted(k - 1)
      BY <2>3, <2>4 DEF Emission
    <2>6. id[1] = BundleOf(k - 1)
      BY <2>5 DEF Emitted
    <2> QED
      BY <1>1, <2>4, <2>6, BundleListed
  <1> QED
    BY <1>1, <1>4, <1>6, <1>7

(* What the loop has gathered for this turn decides where it goes on.      *)
LEMMA CollectKeeps ==
    ASSUME IInv, Collect
    PROVE  IInv'
  <1>1. /\ UNCHANGED <<saw, ranking, fate, index>> /\ pc = "propose" /\ index > Count
        /\ seen' = SeenNow
    BY DEF Collect
  <1>2. /\ DataInv /\ ListInv /\ Eligible # <<>> /\ Incidents = {} /\ Budget \in Nat
        /\ turn \in Nat /\ turn < Budget /\ index \in 1..Count + 1
    BY <1>1, AtWork DEF IInv
  <1>3. PICK T \in 0..Budget : Completed(T) /\ LoopInv(T) /\ SealInv(T)
    BY DEF IInv, TurnInv
  <1>4. /\ turn <= T /\ seen = Gathered(turn)
        /\ \A n \in 1..turn : ~Enough(Usable(n))
        /\ \A k \in 1..index - 1 : <<Bundle, k>> \in Decided
    BY <1>1, <1>3 DEF LoopInv, Working
  <1>5. turn < T
    <2>1. /\ Count = Served(Bundle, turn) + 1 /\ Served(Bundle, turn) \in Nat
          /\ Count \in 1..turn + 1
      BY <1>2, CountIs
    <2>2. Count \in 1..index - 1
      BY <1>1, <1>2, <2>1
    <2>3. <<Bundle, Count>> \in ServedIds(T)
      BY <1>3, <1>4, <2>2 DEF Completed
    <2>4. Count <= Served(Bundle, T)
      BY <2>3 DEF ServedIds
    <2>5. turn # T
      BY <2>1, <2>4
    <2> QED
      BY <1>2, <1>4, <2>5
  <1>6. PICK e : e = Usable(turn + 1)
    OBVIOUS
  <1>7. SeenNow = Gathered(turn + 1) /\ Executable(SeenNow) = e
    BY <1>2, <1>4, <1>6, SeenGrows DEF Usable
  <1>8. turn + 1 \in 0..Budget /\ turn + 1 <= T /\ T \in Nat
    BY <1>2, <1>5
  <1>9. /\ \A n : Gathered(n)' = Gathered(n) /\ Enough(Usable(n))' = Enough(Usable(n))
        /\ \A n : DiverseSubsets(Usable(n))' = DiverseSubsets(Usable(n))
        /\ \A n : DiverseSubset(Usable(n))' = DiverseSubset(Usable(n))
        /\ \A n : ServedIds(n)' = ServedIds(n)
        /\ Decided' = Decided /\ Eligible' = Eligible
    BY <1>1, Same, SameChoice
  <1>10. turn' \in Nat /\ index' \in Nat
    <2>1. turn' \in {turn, turn + 1}
      BY DEF Collect
    <2> QED
      BY <1>1, <1>2, <2>1
  <1>11. CASE ~Enough(e)
    <2>1. turn' = turn + 1 /\ pc' = "turn" /\ plan' = plan
      BY <1>7, <1>11 DEF Collect
    <2>2. ASSUME NEW S \in 0..Budget, Completed(S), LoopInv(S), SealInv(S) PROVE LoopInv(S)'
      <3>1. S = T
        <4>1. Decided = ServedIds(S) /\ Decided = ServedIds(T)
          BY <1>3, <2>2 DEF Completed
        <4>2. Cardinality(ServedIds(S)) = S /\ Cardinality(ServedIds(T)) = T
          BY <1>2, TurnsCount
        <4> QED
          BY <4>1, <4>2
      <3>2. \A n \in 1..turn + 1 : ~Enough(Usable(n))
        <4> TAKE n \in 1..turn + 1
        <4>1. n \in 1..turn \/ n = turn + 1
          BY <1>2
        <4> QED
          BY <1>4, <1>6, <1>11, <4>1
      <3>3. seen' = Gathered(turn + 1)
        BY <1>1, <1>7
      <3> QED
        BY <1>8, <1>9, <2>1, <3>1, <3>2, <3>3 DEF LoopInv, Working
    <2>3. EndInv'
      BY <2>1 DEF EndInv, BlockedForCause
    <2> QED
      BY <1>1, <1>2, <1>10, <2>1, <2>2, <2>3, Steady
  <1>12. CASE Enough(e)
    <2>1. turn + 1 = T
      <3>1. ASSUME turn + 1 # T PROVE FALSE
        <4>1. turn + 1 \in 1..T - 1
          BY <1>2, <1>8, <3>1
        <4> QED
          BY <1>3, <1>6, <1>12, <4>1 DEF Completed
      <3> QED
        BY <3>1
    <2>2. plan \in {<<>>, DiverseSubset(e)}
      BY <1>3, <1>6, <2>1 DEF SealInv
    <2>3. CASE DiverseSubsets(e) = {}
      <3>1. turn' = turn /\ pc' = "blocked" /\ plan' = plan
        BY <1>7, <1>12, <2>3 DEF Collect
      <3>2. NoChoice
        <4>1. /\ e \in Seq(Id) /\ OneEach(e)
              /\ ToSet(e) = ServedIds(T) \intersect With("checked")
          BY <1>2, <1>6, <1>8, <2>1, Gathering
        <4>2. With("checked") \subseteq Decided
          BY DEF With, Decided, Nobody
        <4>3. ToSet(e) = With("checked")
          BY <1>3, <4>1, <4>2 DEF Completed
        <4>4. ToSet(e) \subseteq {id \in Id : fate[id].is = "checked"}
          BY <4>3 DEF With
        <4>5. IsFiniteSet(FamiliesOf(ToSet(e)))
          BY <1>2, <4>4, FilesFinite
        <4>6. ~(MinFamilies <= CandidateCount)
          BY <1>12, <2>3, <4>1, <4>5, DiverseExists
        <4>7. \A S \in SUBSET ToSet(e) : Cardinality(S) = CandidateCount => ~Diverse(S)
          BY <2>3, <4>1, NoneDiverse
        <4> QED
          BY <1>12, <4>3, <4>6, <4>7, PlanAssumption DEF NoChoice, Enough
      <3>3. EndInv'
        <4>1. NoChoice'
          BY <1>1, <3>2 DEF NoChoice, Diverse, With, FamiliesOf
        <4> QED
          BY <3>1, <4>1 DEF EndInv, BlockedForCause
      <3>4. \A S : LoopInv(S)'
        BY <3>1 DEF LoopInv, Working
      <3> QED
        BY <1>1, <1>10, <3>1, <3>3, <3>4, Steady DEF Working
    <2>4. CASE DiverseSubsets(e) # {}
      <3>1. plan' = DiverseSubset(e) /\ pc' = "build"
        BY <1>7, <1>12, <2>2, <2>4 DEF Collect
      <3>2. DataInv'
        BY <1>1, <1>2, <1>10, SameTurns DEF DataInv
      <3>3. GateInv'
        BY <1>1, <1>2, SameTurns DEF GateInv
      <3>4. DistinctInv'
        BY <1>1 DEF IInv, DistinctInv
      <3>5. Completed(T)'
        BY <1>3, <1>9 DEF Completed
      <3>6. LoopInv(T)'
        BY <3>1 DEF LoopInv, Working
      <3>7. SealInv(T)'
        BY <1>2, <1>6, <1>9, <1>12, <2>1, <2>4, <3>1 DEF SealInv
      <3>8. plan' # <<>>
        <4>1. e \in Seq(Id) /\ OneEach(e)
          BY <1>2, <1>6, <1>8, Gathering
        <4>2. Len(plan') = CandidateCount
          BY <2>4, <3>1, <4>1, Chosen
        <4> QED
          BY <4>2, PlanAssumption
      <3>9. EndInv'
        BY <3>1, <3>8 DEF EndInv, BlockedForCause
      <3> QED
        BY <3>2, <3>3, <3>4, <3>5, <3>6, <3>7, <3>9 DEF IInv, TurnInv
    <2> QED
      BY <2>3, <2>4
  <1> QED
    BY <1>11, <1>12

(* A child is built, or one of the plan cannot be.                         *)
LEMMA BuildKeeps ==
    ASSUME IInv, Build
    PROVE  IInv'
  <1>1. /\ UNCHANGED <<saw, ranking, fate, plan, turn, index>> /\ pc = "build"
        /\ Unbuilt # <<>>
    BY DEF Build, local
  <1>2. pc' = "build" \/ (pc' = "blocked" /\ ~Patches[fate[Head(Unbuilt)].patch].fits)
    BY <1>1 DEF Build
  <1>3. plan # <<>>
    BY <1>1 DEF IInv, EndInv
  <1>4. Eligible # <<>> /\ Incidents = {} /\ plan \in Seq(Id)
    BY <1>3, PlanIs
  <1>5. Head(Unbuilt) \in ToSet(plan)
    <2>1. PICK u, A : A = Id \ built /\ u = Kept(plan, A)
      OBVIOUS
    <2>2. u \in Seq(Id) /\ ToSet(u) \subseteq ToSet(plan)
      BY <1>4, <2>1, KeptMembers
    <2>3. u = Unbuilt /\ u # <<>>
      BY <1>1, <2>1 DEF Unbuilt
    <2>4. Head(u) = u[1] /\ 1 \in DOMAIN u
      BY <2>2, <2>3
    <2> QED
      BY <2>2, <2>3, <2>4 DEF ToSet
  <1>6. EndInv'
    <2>1. CASE pc' = "build"
      BY <1>1, <1>3, <2>1 DEF EndInv, BlockedForCause
    <2>2. CASE pc' = "blocked"
      BY <1>1, <1>2, <1>5, <2>2 DEF EndInv, BlockedForCause
    <2> QED
      BY <1>2, <2>1, <2>2
  <1>7. \A T : LoopInv(T)'
    BY <1>2 DEF LoopInv, Working
  <1>8. turn' \in Nat /\ index' \in Nat
    BY <1>1 DEF IInv, DataInv
  <1> QED
    BY <1>1, <1>4, <1>6, <1>7, <1>8, Steady

-----------------------------------------------------------------------------
(* The properties. *)

(* The turns, the diagnosis and the plan stay in step, whatever the        *)
(* updater answers, however often the command dies and whoever edits the   *)
(* trust kernel.                                                           *)
THEOREM TurnInvariance == Spec => []IInv
  <1>1. Init => IInv
    BY InitTurn
  <1>2. IInv /\ [Next]_vars => IInv'
    BY LeaveKeeps, PassKeeps, DiagnoseKeeps, KnownKeeps, AskKeeps, ExhaustedKeeps,
       CheckKeeps, CollectKeeps, BuildKeeps DEF Next
  <1> QED
    BY <1>1, <1>2, PTL DEF Spec

(* Of every bundle just the candidates of its turns are decided.           *)
LEMMA TriedIs ==
    ASSUME ListInv, Eligible # <<>>, NEW T \in 0..Budget, Decided = ServedIds(T),
           NEW t \in Types
    PROVE  Tried(t) = Served(t, T)
  <1>1. T \in Nat /\ Budget \in Nat /\ T <= Budget
    BY PlanAssumption
  <1>2. PICK s : s = Served(t, T)
    OBVIOUS
  <1>3. s \in 0..T
    BY <1>1, <1>2, ServedStep
  <1>4. \A k \in 1..Budget : fate[<<t, k>>] # Nobody <=> k <= s
    <2> TAKE k \in 1..Budget
    <2>1. <<t, k>> \in Id
      BY DEF Id
    <2>2. <<t, k>> \in Decided <=> <<t, k>> \in ServedIds(T)
      OBVIOUS
    <2> QED
      BY <1>2, <2>1, <2>2 DEF Decided, ServedIds
  <1>5. {k \in 1..Budget : fate[<<t, k>>] # Nobody} = 1..s
    BY <1>1, <1>3, <1>4
  <1>6. Cardinality(1..s) = s
    <2>1. PICK a \in Int, b \in Int : a = 1 /\ b = s
      BY <1>3
    <2>2. Cardinality(a..b) = IF a > b THEN 0 ELSE b - a + 1
      BY FS_Interval
    <2> QED
      BY <1>3, <2>1, <2>2
  <1> QED
    BY <1>2, <1>5, <1>6 DEF Tried

(* Over all restarts the bundles are served in turn: one of higher         *)
(* priority is never behind nor more than one proposal ahead, and no more  *)
(* is decided than the budget allows (_propose).                           *)
THEOREM TurnsStayFair == Spec => []TurnsAreFair
  <1>1. IInv => TurnsAreFair
    <2> SUFFICES ASSUME IInv PROVE TurnsAreFair
      OBVIOUS
    <2>1. ListInv
      BY Ranked DEF IInv
    <2>2. PICK T \in 0..Budget : Decided = ServedIds(T)
      BY DEF IInv, TurnInv, Completed
    <2>3. CASE Eligible = <<>>
      <3>1. Decided = {} /\ DOMAIN Eligible = {}
        BY <2>3 DEF IInv, GateInv
      <3>2. Cardinality(Decided) = 0 /\ Budget \in Nat
        BY <3>1, FS_EmptySet, PlanAssumption
      <3> QED
        BY <3>1, <3>2 DEF TurnsAreFair, Decided
    <2>4. CASE Eligible # <<>>
      <3>1. Cardinality(Decided) <= Budget
        <4>1. Cardinality(Decided) = T
          BY <2>1, <2>2, <2>4, TurnsCount
        <4> QED
          BY <4>1, PlanAssumption
      <3>2. ASSUME NEW i \in DOMAIN Eligible, NEW j \in DOMAIN Eligible, i < j
            PROVE  Tried(Eligible[i]) - Tried(Eligible[j]) \in 0..1
        <4>1. /\ i \in 1..Len(Eligible) /\ j \in 1..Len(Eligible)
              /\ Eligible[i] \in Types /\ Eligible[j] \in Types
          BY <2>1 DEF ListInv
        <4>2. Tried(Eligible[i]) = Served(Eligible[i], T)
          BY <2>1, <2>2, <2>4, <4>1, TriedIs
        <4>3. Tried(Eligible[j]) = Served(Eligible[j], T)
          BY <2>1, <2>2, <2>4, <4>1, TriedIs
        <4>4. T \in Nat
          BY PlanAssumption
        <4>5. Served(Eligible[i], T) - Served(Eligible[j], T) \in 0..1
          BY <2>1, <2>4, <3>2, <4>1, <4>4, ServedFairly
        <4> QED
          BY <4>2, <4>3, <4>5
      <3> QED
        BY <3>1, <3>2 DEF TurnsAreFair, Decided
    <2> QED
      BY <2>3, <2>4
  <1> QED
    BY <1>1, TurnInvariance, PTL

(* The plan holds what the configuration asks for: checked candidates that *)
(* answer failures of the agent, with enough families and no two of a      *)
(* bundle alike, from a batch without an incident (_diverse_subset).       *)
THEOREM PlanStaysComplete == Spec => []PlanIsComplete
  <1>1. IInv => PlanIsComplete
    <2> SUFFICES ASSUME IInv, plan # <<>>
                 PROVE  /\ Cardinality(ToSet(plan)) = CandidateCount
                        /\ Cardinality(FamiliesOf(ToSet(plan))) >= MinFamilies
                        /\ \A a, b \in ToSet(plan) :
                              /\ fate[a].is = "checked"
                              /\ \E r \in Run : saw[r].valid /\ ~saw[r].success /\ TypeOf(r) = a[1]
                              /\ Fingerprint(Patches[fate[a].patch])
                                    = Fingerprint(Patches[fate[b].patch])
                                 => a = b \/ a[1] # b[1]
                        /\ \A r \in Run :
                              ~(saw[r].valid /\ ~saw[r].success /\ saw[r].db = "mismatch"
                                   /\ saw[r].tools = "all")
      BY DEF PlanIsComplete
    <2>1. /\ Incidents = {}
          /\ Cardinality(ToSet(plan)) = CandidateCount /\ Diverse(ToSet(plan))
          /\ ToSet(plan) \subseteq With("checked")
          /\ \A id \in ToSet(plan) : id[1] \in ToSet(Eligible)
      BY PlanIs
    <2>2. \A r \in Run : ~(saw[r].valid /\ ~saw[r].success /\ saw[r].db = "mismatch"
                                   /\ saw[r].tools = "all")
      BY <2>1 DEF Incidents, Failed, Conflict
    <2>3. ASSUME NEW a \in ToSet(plan), NEW b \in ToSet(plan)
          PROVE  /\ fate[a].is = "checked"
                 /\ \E r \in Run : saw[r].valid /\ ~saw[r].success /\ TypeOf(r) = a[1]
                 /\ Fingerprint(Patches[fate[a].patch]) = Fingerprint(Patches[fate[b].patch])
                    => a = b \/ a[1] # b[1]
      <3>1. a \in Id /\ b \in Id /\ fate[a].is = "checked" /\ fate[b].is = "checked"
        BY <2>1 DEF With
      <3>2. \E r \in Run : saw[r].valid /\ ~saw[r].success /\ TypeOf(r) = a[1]
        BY <2>1, Ranked DEF IInv
      <3> QED
        BY <3>1, <3>2 DEF IInv, DistinctInv
    <2> QED
      BY <2>1, <2>2, <2>3 DEF Diverse
  <1> QED
    BY <1>1, TurnInvariance, PTL

(* The experiment is blocked only for a cause that is on disk.             *)
THEOREM BlockedStaysForCause == Spec => []BlockedForCause
  BY TurnInvariance, PTL DEF IInv, EndInv
=============================================================================
