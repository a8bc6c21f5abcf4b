----------------------- MODULE FormalExperimentProofs -----------------------
(***************************************************************************)
(* Proofs about FormalExperiment for any budget, any families, any number  *)
(* of candidates and release stages, and any troubles.  IInv adds to the   *)
(* properties where the loop over the proposals is and what it has seen,   *)
(* what the plan and the selection say, and that of the work of a phase    *)
(* every job either is still in the queue or has had its effect.           *)
(* HistoryInv adds what earlier commands left: the jobs of a queue in the  *)
(* order of the phase, and of every status, batch and artifact on disk     *)
(* what was there before it.  From it follows when a command can end       *)
(* "blocked", and, in the last section, that this is for good and that     *)
(* without five of the troubles it never happens.                          *)
(***************************************************************************)
EXTENDS FormalExperiment, FiniteSetTheorems, SequenceTheorems, WellFoundedInduction, TLAPS

-----------------------------------------------------------------------------
(* The work of a phase, as sets of jobs.                                   *)

AnyJob == [do : {"store", "batch", "advance", "seal"},
           name : {"snapshot"} \union Stage \union Status \union Artifact, on : Snap]

EvaluationJobs ==
    {Store(k) : k \in Chosen}
      \union {Batch(s, k) : s \in {"update_check", "selection"}, k \in {0} \union Chosen}
      \union {Advance(k, s) : k \in Chosen, s \in {"update_evaluated", "selection_evaluated"}}
      \union {Seal("selection")}

HoldJobs ==
    {Seal("lineage"), Seal("hold")} \union {Advance(k, "held") : k \in Chosen}

ReleaseJobs ==
    {Seal(a) : a \in {"ablation", "roles", "analysis", "lineage", "native", "agentloopgate"}}
      \union {Batch(s, k) : s \in Release, k \in {0} \union Roles}
      \union {Advance(k, "release_evaluated") : k \in Roles}

DecisionJobs ==
    {Advance(k, Decision(k)) : k \in Roles} \union {Seal("report"), Seal("outcome")}

JobsOf(phase) ==
    CASE phase = "evaluation" -> EvaluationJobs
      [] phase = "hold" -> HoldJobs
      [] phase = "release" -> ReleaseJobs
      [] phase = "decision" -> DecisionJobs

(* The artifact a phase seals last, and a queue that ends with sealing it  *)
(* and seals it only then.                                                 *)
LastSeal(phase) ==
    CASE phase = "evaluation" -> "selection"
      [] phase = "hold" -> "hold"
      [] phase = "decision" -> "outcome"

EndsWith(w, a) == \A i \in DOMAIN w : w[i] = Seal(a) <=> i = Len(w)

(* The order of the evaluation's queue: the snapshots are stored, then the *)
(* updates are checked, then the selection is made.                        *)
Level(j) ==
    IF j.do = "store" THEN 1
    ELSE IF j.name \in {"update_check", "update_evaluated"} THEN 2 ELSE 3

InOrder(w) == \A i, j \in DOMAIN w : i < j => Level(w[i]) <= Level(w[j])

(* What stays of a job that is done.  Only a final status stays the        *)
(* candidate's status.                                                     *)
Effect(j) ==
    /\ j.do = "store" => snap[j.on] = "whole"
    /\ j.do = "batch" => batch[<<j.name, j.on>>] \notin {"none", "hold"}
    /\ (j.do = "advance" /\ j.name \in Final) => slot[j.on] = j.name
    /\ j.do = "seal" => <<j.name, 0>> \in whole

-----------------------------------------------------------------------------
(* The inductive invariant.                                                *)

Proposing == {"propose", "updating", "register", "event", "metadata", "choose"}
AfterPlan == {"planned"} \union Phase

(* The slots are used in their order, and what is registered is retained. *)
SlotInv ==
    /\ \A j, k \in Slot : j < k /\ slot[k] # "none" => slot[j] # "none"
    /\ \A k \in meta : slot[k] \in Status \union {"partial"}

(* The loop over the slots: what it has walked over, and where it is.      *)
LoopInv ==
    /\ pc \in Proposing => at \in Slot
    /\ pc \in {"idle", "again", "baseline", "source", "diagnose", "authorize"} => seen = {}
    /\ \A k \in seen : k \in meta
    /\ pc \in Proposing => \A k \in seen : slot[k] \in Status
    /\ pc \in Proposing =>
          \A k \in Slot : k < at \/ (k = at /\ pc = "choose") => k \in seen \/ slot[k] = "refused"
    /\ pc \in {"updating", "register"} => slot[at] = "none"
    /\ pc \in {"register", "event", "metadata"} => verdict \in {"checked", "held", "refused"}
    /\ pc = "event" => slot[at] \in {"partial", "refusing"} /\ at \notin meta
    /\ pc = "metadata" => slot[at] \in Status
    /\ pc = "updating" => spent.open > 0
    /\ (pc = "propose" /\ at # 1) => ~Enough

(* What the plan and the selection say once they are sealed.               *)
PlanInv ==
    /\ <<"plan", 0>> \in whole =>
          /\ Cardinality(Chosen) = CandidateCount /\ Diverse(Chosen)
          /\ \A k \in Chosen : k \in meta
    /\ <<"selection", 0>> \in whole =>
          /\ says.native \in Chosen /\ says.governed \in {0} \union Chosen
          /\ <<"plan", 0>> \in whole
    /\ <<"outcome", 0>> \in whole => <<"selection", 0>> \in whole /\ says.governed # 0

(* What the phases before have left.                                       *)
PastInv ==
    /\ pc \in AfterPlan => <<"plan", 0>> \in whole
    /\ pc \notin {"idle", "again", "baseline"} => snap[0] = "whole"
    /\ pc \notin {"idle", "again", "baseline", "source"} =>
          batch[<<"update_source", 0>>] \notin {"none", "hold"}
    /\ pc \in {"hold", "release", "decision"} => \A j \in EvaluationJobs : Effect(j)
    /\ pc = "decision" => \A j \in ReleaseJobs : Effect(j)
    /\ pc = "hold" => says.governed = 0
    /\ pc \in {"release", "decision"} => says.governed # 0

(* A job of the phase is still to be done or has had its effect; the last  *)
(* one seals the phase's artifact.                                         *)
WorkInv ==
    /\ pc \notin Phase => work = <<>>
    /\ pc \in Phase =>
          /\ work \in Seq(AnyJob) /\ Range(work) \subseteq JobsOf(pc)
          /\ \A j \in JobsOf(pc) : j \in Range(work) \/ Effect(j)
          /\ pc # "release" => EndsWith(work, LastSeal(pc))

(* The two files that end the experiment are written in their phase only.  *)
EndInv ==
    /\ Written(<<"hold", 0>>) => pc \in {"idle", "again", "hold"}
    /\ Written(<<"outcome", 0>>) => pc \in {"idle", "again", "decision"}

(* What is on the disk, whole or in part but not both, and the command.    *)
DiskInv ==
    /\ SlotInv /\ PlanInv /\ broken \intersect whole = {}
    /\ HoldCostStands /\ OutcomeIsBacked

ControlInv == LoopInv /\ PastInv /\ WorkInv /\ EndInv

IInv == TypeOK /\ DiskInv /\ ControlInv

-----------------------------------------------------------------------------
(* Sequences of jobs.                                                      *)

(* A set of numbers that holds 0 and with a number the next holds them all.*)
LEMMA Induction ==
    ASSUME NEW S \in SUBSET Nat, 0 \in S, \A n \in S : n + 1 \in S
    PROVE  S = Nat
  <1> DEFINE T == Nat \ S
             R == OpToRel(<, Nat)
  <1> SUFFICES ASSUME T # {} PROVE FALSE
    OBVIOUS
  <1>0. IsWellFoundedOn(R, Nat)
    BY NatLessThanWellFounded
  <1>1. T \subseteq Nat /\ T # {}
    OBVIOUS
  <1>2. PICK x \in T : \A y \in T : ~ (<<y, x>> \in R)
    BY <1>0, <1>1, WFMin
  <1>3. x # 0 /\ x - 1 \in Nat /\ <<x - 1, x>> \in R
    BY <1>2 DEF OpToRel
  <1>4. x - 1 \in S
    BY <1>2, <1>3
  <1>5. x \in Nat /\ x \notin S
    BY <1>2
  <1> HIDE DEF T, R
  <1>6. (x - 1) + 1 = x
    BY <1>5
  <1> QED
    BY <1>4, <1>5, <1>6

(* The function FlattenSeq is defined by exists.                           *)
LEMMA FlattenExists ==
    ASSUME NEW seqs, NEW n \in Nat
    PROVE  \E f : f = [i \in 1..n |-> IF i = 1 THEN seqs[i] ELSE f[i-1] \o seqs[i]]
  <1> DEFINE Fits(f, m) == f = [i \in 1..m |-> IF i = 1 THEN seqs[i] ELSE f[i-1] \o seqs[i]]
             S == {m \in Nat : \E f : Fits(f, m)}
  <1>1. 0 \in S
    <2>1. Fits([i \in 1..0 |-> seqs[i]], 0)
      OBVIOUS
    <2> QED
      BY <2>1
  <1>2. ASSUME NEW m \in S PROVE m + 1 \in S
    <2>1. PICK f : Fits(f, m)
      OBVIOUS
    <2> DEFINE g == [i \in 1..(m + 1) |->
                       IF i <= m THEN f[i] ELSE IF i = 1 THEN seqs[i] ELSE f[i-1] \o seqs[i]]
    <2>2. \A i \in 1..(m + 1) : g[i] = IF i = 1 THEN seqs[i] ELSE g[i-1] \o seqs[i]
      <3> SUFFICES ASSUME NEW i \in 1..(m + 1)
                   PROVE  g[i] = IF i = 1 THEN seqs[i] ELSE g[i-1] \o seqs[i]
        OBVIOUS
      <3>1. i # 1 => i - 1 \in 1..m /\ g[i-1] = f[i-1]
        OBVIOUS
      <3>2. CASE i <= m
        <4>1. i \in 1..m /\ g[i] = f[i]
          BY <3>2
        <4>2. f[i] = IF i = 1 THEN seqs[i] ELSE f[i-1] \o seqs[i]
          BY <2>1, <4>1
        <4> QED
          BY <3>1, <4>1, <4>2
      <3>3. CASE ~ (i <= m)
        BY <3>1, <3>3
      <3> QED
        BY <3>2, <3>3
    <2>3. Fits(g, m + 1)
      BY <2>2
    <2> HIDE DEF g, Fits
    <2>4. \E h : Fits(h, m + 1)
      BY <2>3
    <2> QED
      BY <2>4
  <1> HIDE DEF S
  <1>3. S = Nat
    BY <1>1, <1>2, Induction DEF S
  <1> QED
    BY <1>3 DEF S

(* What FlattenSeq makes of a sequence of sequences of jobs: a sequence of *)
(* exactly the jobs that are in one of them.                               *)
LEMMA Flatten ==
    ASSUME NEW J, NEW seqs \in Seq(Seq(J))
    PROVE  /\ FlattenSeq(seqs) \in Seq(J)
           /\ Range(FlattenSeq(seqs)) = UNION {Range(seqs[i]) : i \in DOMAIN seqs}
  <1> DEFINE n == Len(seqs)
  <1>1. CASE n = 0
    BY <1>1 DEF FlattenSeq, Range
  <1>2. CASE n # 0
    <2> DEFINE Fits(f) == f = [i \in 1..n |-> IF i = 1 THEN seqs[i] ELSE f[i-1] \o seqs[i]]
               flatten == CHOOSE f : Fits(f)
    <2>1. n \in Nat /\ n \in 1..n /\ DOMAIN seqs = 1..n /\ \A i \in 1..n : seqs[i] \in Seq(J)
      BY <1>2
    <2>2. Fits(flatten)
      BY <2>1, FlattenExists
    <2>3. FlattenSeq(seqs) = flatten[n]
      BY <1>2 DEF FlattenSeq
    <2> HIDE DEF flatten
    <2>4. \A i \in 1..n : flatten[i] = IF i = 1 THEN seqs[i] ELSE flatten[i-1] \o seqs[i]
      BY <2>2
    <2> DEFINE Good(m) == /\ flatten[m] \in Seq(J)
                          /\ Range(flatten[m]) = UNION {Range(seqs[i]) : i \in 1..m}
               S == {m \in Nat : m \in 1..n => Good(m)}
    <2>5. 0 \in S
      OBVIOUS
    <2>6. ASSUME NEW m \in S PROVE m + 1 \in S
      <3> SUFFICES ASSUME m + 1 \in 1..n PROVE Good(m + 1)
        OBVIOUS
      <3>1. CASE m = 0
        BY <2>1, <2>4, <3>1
      <3>2. CASE m # 0
        <4>1. m \in 1..n /\ Good(m)
          BY <3>2
        <4>2. flatten[m + 1] = flatten[m] \o seqs[m + 1] /\ seqs[m + 1] \in Seq(J)
          <5>1. m + 1 # 1 /\ (m + 1) - 1 = m
            BY <3>2
          <5> QED
            BY <2>1, <2>4, <5>1
        <4>3. /\ flatten[m + 1] \in Seq(J)
              /\ Range(flatten[m + 1]) = Range(flatten[m]) \union Range(seqs[m + 1])
          BY <4>1, <4>2, RangeConcatenation
        <4>4. 1..(m + 1) = (1..m) \union {m + 1}
          BY <3>2
        <4> QED
          BY <4>1, <4>3, <4>4
      <3> QED
        BY <3>1, <3>2
    <2> HIDE DEF S
    <2>7. S = Nat
      BY <2>5, <2>6, Induction DEF S
    <2>8. Good(n)
      BY <2>1, <2>7 DEF S
    <2> QED
      BY <2>1, <2>3, <2>8
  <1> QED
    BY <1>1, <1>2

(* A function on an interval from 1 is a sequence.                         *)
LEMMA FunctionIsSeq ==
    ASSUME NEW n \in Nat, NEW S, NEW f \in [1..n -> S]
    PROVE  f \in Seq(S) /\ DOMAIN f = 1..n /\ Len(f) = n
  OBVIOUS

(* The candidates of a set, in order, are its members.                     *)
LEMMA OrderedRange ==
    ASSUME NEW S \in SUBSET Slot
    PROVE  Ordered(S) \in Seq(Slot) /\ Range(Ordered(S)) = S
  <1> DEFINE seqs == [k \in Slot |-> IF k \in S THEN <<k>> ELSE <<>>]
  <1>1. \A k \in Slot : /\ seqs[k] \in Seq(Slot)
                        /\ Range(seqs[k]) = IF k \in S THEN {k} ELSE {}
    BY DEF Range
  <1>2. seqs \in Seq(Seq(Slot)) /\ DOMAIN seqs = Slot
    <2>1. Budget \in Nat /\ seqs \in [1..Budget -> Seq(Slot)]
      BY <1>1, BudgetAssumption DEF Slot
    <2> HIDE DEF seqs
    <2> QED
      BY <2>1, FunctionIsSeq DEF Slot
  <1> HIDE DEF seqs
  <1>3. UNION {Range(seqs[k]) : k \in DOMAIN seqs} = S
    <2>1. ASSUME NEW k \in S PROVE \E j \in DOMAIN seqs : k \in Range(seqs[j])
      BY <1>1, <1>2
    <2>2. ASSUME NEW j \in DOMAIN seqs, NEW k \in Range(seqs[j]) PROVE k \in S
      BY <1>1, <1>2
    <2> QED
      BY <2>1, <2>2, Zenon
  <1> QED
    BY <1>2, <1>3, Flatten DEF Ordered, seqs

(* A queue of other jobs and then a seal ends with that seal.              *)
LEMMA Ending ==
    ASSUME NEW J, NEW w \in Seq(J), NEW a, Seal(a) \notin Range(w)
    PROVE  /\ w \o <<Seal(a)>> \in Seq(J \union {Seal(a)})
           /\ Range(w \o <<Seal(a)>>) = Range(w) \union {Seal(a)}
           /\ EndsWith(w \o <<Seal(a)>>, a)
  <1> DEFINE K == J \union {Seal(a)}
             e == <<Seal(a)>>
  <1> HIDE DEF K
  <1>1. w \in Seq(K) /\ e \in Seq(K) /\ Len(e) = 1 /\ e[1] = Seal(a) /\ Range(e) = {Seal(a)}
    BY SeqMonotonic DEF K, Range
  <1> HIDE DEF e
  <1>2. w \o e \in Seq(K) /\ Range(w \o e) = Range(w) \union {Seal(a)}
    BY <1>1, RangeConcatenation
  <1>3. /\ Len(w \o e) = Len(w) + 1 /\ DOMAIN (w \o e) = 1..(Len(w) + 1)
        /\ \A i \in 1..Len(w) : (w \o e)[i] = w[i] /\ w[i] \in Range(w)
        /\ (w \o e)[Len(w) + 1] = Seal(a)
    <2>1. /\ Len(w) \in Nat /\ DOMAIN w = 1..Len(w)
          /\ DOMAIN (w \o e) = 1..Len(w \o e)
      BY <1>2
    <2>2. \A i \in 1..Len(w) : w[i] \in Range(w)
      BY <2>1 DEF Range
    <2>3. /\ Len(w \o e) = Len(w) + 1
          /\ \A i \in 1..(Len(w) + 1) :
                (w \o e)[i] = IF i <= Len(w) THEN w[i] ELSE e[i - Len(w)]
      <3>1. w \in Seq(K) /\ e \in Seq(K) /\ Len(e) = 1
        BY <1>1
      <3>2. /\ Len(w \o e) = Len(w) + Len(e)
            /\ \A i \in 1..(Len(w) + Len(e)) :
                  (w \o e)[i] = IF i <= Len(w) THEN w[i] ELSE e[i - Len(w)]
        BY ONLY <3>1, ConcatProperties
      <3> QED
        BY ONLY <3>1, <3>2
    <2>4. \A i \in 1..Len(w) : (w \o e)[i] = w[i]
      BY <2>1, <2>3
    <2>5. (w \o e)[Len(w) + 1] = e[1]
      BY <2>1, <2>3
    <2> QED
      BY <1>1, <2>1, <2>2, <2>3, <2>4, <2>5
  <1>4. EndsWith(w \o e, a)
    BY <1>3 DEF EndsWith
  <1> QED
    BY <1>2, <1>4 DEF K, e

(* What is left of such a queue still ends so.                             *)
LEMMA TailOfQueue ==
    ASSUME NEW J, NEW w \in Seq(J), w # <<>>
    PROVE  /\ Tail(w) \in Seq(J) /\ Head(w) \in Range(w)
           /\ Range(w) = {Head(w)} \union Range(Tail(w))
           /\ \A a : EndsWith(w, a) =>
                 /\ EndsWith(Tail(w), a)
                 /\ Head(w) = Seal(a) <=> Tail(w) = <<>>
  <1> DEFINE h == Head(w)
             t == Tail(w)
             n == Len(w)
  <1>1. n \in Nat \ {0} /\ DOMAIN w = 1..n /\ h = w[1] /\ t \in Seq(J) /\ DOMAIN t = 1..(n - 1)
    BY HeadTailProperties
  <1>2. \A i \in 1..(n - 1) : i + 1 \in 1..n /\ t[i] = w[i + 1]
    BY HeadTailProperties
  <1>4. Len(t) = n - 1
    BY HeadTailProperties
  <1> HIDE DEF h, t, n
  <1>3. t = <<>> <=> n = 1
    BY <1>1, <1>4, EmptySeq
  <1>5. \A i \in 1..n : i # 1 => i - 1 \in 1..(n - 1) /\ w[i] = t[i - 1]
    <2> SUFFICES ASSUME NEW i \in 1..n, i # 1 PROVE i - 1 \in 1..(n - 1) /\ w[i] = t[i - 1]
      OBVIOUS
    <2>1. i - 1 \in 1..(n - 1) /\ (i - 1) + 1 = i
      BY <1>1
    <2> QED
      BY <1>2, <2>1
  <1>6. Range(w) = {h} \union Range(t) /\ h \in Range(w)
    <2>1. 1 \in 1..n
      BY <1>1
    <2>2. ASSUME NEW i \in 1..n PROVE w[i] \in {h} \union {t[k] : k \in 1..(n - 1)}
      BY <1>1, <1>5
    <2>3. ASSUME NEW k \in 1..(n - 1) PROVE t[k] \in {w[i] : i \in 1..n}
      BY <1>2
    <2>4. h \in {w[i] : i \in 1..n}
      BY <1>1, <2>1
    <2> QED
      BY <1>1, <2>2, <2>3, <2>4 DEF Range
  <1>7. ASSUME NEW a, EndsWith(w, a)
        PROVE  EndsWith(t, a) /\ (h = Seal(a) <=> t = <<>>)
    <2>1. \A i \in 1..n : w[i] = Seal(a) <=> i = n
      BY <1>1, <1>7 DEF EndsWith, n
    <2>2. \A i \in 1..(n - 1) : t[i] = Seal(a) <=> i = n - 1
      <3> SUFFICES ASSUME NEW i \in 1..(n - 1) PROVE t[i] = Seal(a) <=> i = n - 1
        OBVIOUS
      <3>1. i + 1 \in 1..n /\ t[i] = w[i + 1] /\ (i + 1 = n <=> i = n - 1)
        BY <1>1, <1>2
      <3> QED
        BY <2>1, <3>1
    <2>3. h = Seal(a) <=> n = 1
      <3>1. 1 \in 1..n
        BY <1>1
      <3> QED
        BY <1>1, <2>1, <3>1
    <2> QED
      BY <1>1, <1>3, <1>4, <2>2, <2>3 DEF EndsWith
  <1> QED
    BY <1>1, <1>6, <1>7 DEF h, t

(* The first job of a queue in order, and the rest of the queue.           *)
LEMMA TailInOrder ==
    ASSUME NEW J, NEW w \in Seq(J), w # <<>>, InOrder(w)
    PROVE  InOrder(Tail(w)) /\ \A x \in Range(w) : Level(Head(w)) <= Level(x)
  <1> DEFINE h == Head(w)
             t == Tail(w)
             n == Len(w)
  <1>1. n \in Nat \ {0} /\ DOMAIN w = 1..n /\ h = w[1] /\ DOMAIN t = 1..(n - 1)
    BY HeadTailProperties
  <1>2. \A i \in 1..(n - 1) : i + 1 \in 1..n /\ t[i] = w[i + 1]
    BY HeadTailProperties
  <1> HIDE DEF h, t, n
  <1>3. \A i, j \in 1..n : i < j => Level(w[i]) <= Level(w[j])
    BY <1>1 DEF InOrder
  <1>4. InOrder(t)
    <2> SUFFICES ASSUME NEW i \in 1..(n - 1), NEW j \in 1..(n - 1), i < j
                 PROVE  Level(t[i]) <= Level(t[j])
      BY <1>1 DEF InOrder
    <2>1. i + 1 \in 1..n /\ j + 1 \in 1..n /\ i + 1 < j + 1
      BY <1>1, <1>2
    <2>2. Level(w[i + 1]) <= Level(w[j + 1])
      BY <1>3, <2>1
    <2> QED
      BY <1>2, <2>2
  <1>5. ASSUME NEW x \in Range(w) PROVE Level(h) <= Level(x)
    <2>1. PICK i \in 1..n : x = w[i]
      BY <1>1 DEF Range
    <2>2. CASE i = 1
      <3>1. Level(h) \in {1, 2, 3} /\ x = h
        BY <1>1, <2>1, <2>2 DEF Level
      <3> QED
        BY <3>1
    <2>3. CASE i # 1
      <3>1. 1 \in 1..n /\ 1 < i
        BY <1>1, <2>3
      <3> QED
        BY <1>1, <1>3, <2>1, <3>1
    <2> QED
      BY <2>2, <2>3
  <1> QED
    BY <1>4, <1>5 DEF h, t

(* A queue of jobs of one level is in order; so are two queues in order of *)
(* which the second goes on where the first ends.                          *)
LEMMA LevelInOrder ==
    ASSUME NEW J, NEW w \in Seq(J), NEW n, \A x \in Range(w) : Level(x) = n
    PROVE  InOrder(w)
  <1>1. \A i \in DOMAIN w : Level(w[i]) = n /\ Level(w[i]) \in {1, 2, 3}
    BY DEF Range, Level
  <1> QED
    BY <1>1 DEF InOrder

LEMMA JoinInOrder ==
    ASSUME NEW J, NEW a \in Seq(J), NEW b \in Seq(J), InOrder(a), InOrder(b),
           \A x \in Range(a), y \in Range(b) : Level(x) <= Level(y)
    PROVE  InOrder(a \o b)
  <1> DEFINE m == Len(a)
             n == Len(b)
             c == a \o b
  <1>1. /\ m \in Nat /\ n \in Nat /\ DOMAIN a = 1..m /\ DOMAIN b = 1..n /\ DOMAIN c = 1..(m + n)
        /\ \A i \in 1..m : c[i] = a[i]
        /\ \A i \in 1..n : c[m + i] = b[i]
    BY ConcatProperties
  <1> HIDE DEF m, n, c
  <1>2. \A i \in 1..(m + n) : \/ i \in 1..m /\ c[i] = a[i]
                              \/ i - m \in 1..n /\ c[i] = b[i - m]
    <2> TAKE i \in 1..(m + n)
    <2>1. CASE i <= m
      BY <1>1, <2>1
    <2>2. CASE ~ (i <= m)
      <3>1. i - m \in 1..n /\ m + (i - m) = i
        BY <1>1, <2>2
      <3>2. c[m + (i - m)] = b[i - m]
        BY <1>1, <3>1
      <3> QED
        BY <3>1, <3>2
    <2> QED
      BY <2>1, <2>2
  <1>3. /\ \A i, j \in 1..m : i < j => Level(a[i]) <= Level(a[j])
        /\ \A i, j \in 1..n : i < j => Level(b[i]) <= Level(b[j])
        /\ \A i \in 1..m, j \in 1..n : Level(a[i]) <= Level(b[j])
    BY <1>1 DEF InOrder, Range
  <1> SUFFICES ASSUME NEW i \in 1..(m + n), NEW j \in 1..(m + n), i < j
               PROVE  Level(c[i]) <= Level(c[j])
    BY <1>1 DEF InOrder, c
  <1>4. CASE i \in 1..m /\ j \in 1..m
    <2>1. c[i] = a[i] /\ c[j] = a[j]
      BY <1>1, <1>4
    <2> QED
      BY <1>3, <1>4, <2>1
  <1>5. CASE i \in 1..m /\ j \notin 1..m
    <2>1. c[i] = a[i] /\ j - m \in 1..n /\ c[j] = b[j - m]
      BY <1>1, <1>2, <1>5
    <2> QED
      BY <1>3, <1>5, <2>1
  <1>6. CASE i \notin 1..m
    <2>1. i - m \in 1..n /\ c[i] = b[i - m]
      BY <1>2, <1>6
    <2>2. j \notin 1..m /\ i - m < j - m
      BY <1>1, <1>6
    <2>3. j - m \in 1..n /\ c[j] = b[j - m]
      BY <1>2, <2>2
    <2> QED
      BY <1>3, <2>1, <2>2, <2>3
  <1> QED
    BY <1>4, <1>5, <1>6

(* A loop over a sequence: the jobs each of its members adds to the queue. *)
LEMMA LoopJobs ==
    ASSUME NEW J, NEW n \in Nat, NEW seqs \in [1..n -> Seq(J)]
    PROVE  /\ FlattenSeq(seqs) \in Seq(J)
           /\ \A x : x \in Range(FlattenSeq(seqs)) <=> \E i \in 1..n : x \in Range(seqs[i])
  <1>1. seqs \in Seq(Seq(J)) /\ DOMAIN seqs = 1..n
    BY IsASeq
  <1>2. /\ FlattenSeq(seqs) \in Seq(J)
        /\ Range(FlattenSeq(seqs)) = UNION {Range(seqs[i]) : i \in DOMAIN seqs}
    <2>1. seqs \in Seq(Seq(J))
      BY <1>1
    <2> QED
      BY ONLY <2>1, Flatten, Zenon
  <1>3. \A x : x \in UNION {Range(seqs[i]) : i \in DOMAIN seqs}
                   <=> \E i \in DOMAIN seqs : x \in Range(seqs[i])
    BY ONLY TRUE
  <1> QED
    BY <1>1, <1>2, <1>3

(* Putting queues one after the other.                                     *)
LEMMA JoinTwo ==
    ASSUME NEW J, NEW a \in Seq(J), NEW b \in Seq(J)
    PROVE  a \o b \in Seq(J) /\ Range(a \o b) = Range(a) \union Range(b)
  BY ConcatProperties, RangeConcatenation


-----------------------------------------------------------------------------
(* The queues of the phases hold the jobs of the phases.                   *)

(* What the loops and the seals put into a queue is a job.                 *)
LEMMA JobTypes ==
    ASSUME NEW k \in Snap
    PROVE  /\ Store(k) \in AnyJob
           /\ \A s \in Stage : Batch(s, k) \in AnyJob
           /\ \A s \in Status : Advance(k, s) \in AnyJob
           /\ \A a \in Artifact : Seal(a) \in AnyJob
  <1>1. 0 \in Snap
    BY BudgetAssumption DEF Snap
  <1> QED
    BY <1>1 DEF AnyJob, Store, Batch, Advance, Seal

(* The statuses by name.                                                   *)
LEMMA StatusNames ==
    /\ Range(Progress) = {"checked", "update_evaluated", "selection_evaluated", "release_evaluated"}
    /\ Status = {"checked", "update_evaluated", "selection_evaluated", "release_evaluated",
                 "held", "ship_recommended"}
  BY DEF Progress, Status, Final, Range

(* The queue of the evaluation holds the evaluation's jobs, in their order,*)
(* and ends with sealing the selection.                                    *)
LEMMA EvaluationQueue ==
    ASSUME TypeOK
    PROVE  /\ EvaluationWork \in Seq(AnyJob) /\ Range(EvaluationWork) = EvaluationJobs
           /\ EndsWith(EvaluationWork, "selection") /\ InOrder(EvaluationWork)
  <1> DEFINE o == Ordered(Chosen)
             n == Len(o)
             p1 == Each(o, LAMBDA k : <<Store(k)>>)
             p2 == <<Batch("update_check", 0)>>
             p3 == Each(o, LAMBDA k : <<Batch("update_check", k), Advance(k, "update_evaluated")>>)
             p4 == <<Batch("selection", 0)>>
             p5 == Each(o, LAMBDA k : <<Batch("selection", k), Advance(k, "selection_evaluated")>>)
             q2 == p1 \o p2
             q3 == q2 \o p3
             q4 == q3 \o p4
             w == q4 \o p5
  <1>1. Chosen \in SUBSET Slot /\ Slot \subseteq Snap /\ 0 \in Snap
    BY BudgetAssumption DEF TypeOK, Chosen, Slot, Snap
  <1>2. /\ n \in Nat /\ DOMAIN o = 1..n
        /\ \A i \in 1..n : o[i] \in Slot
        /\ \A k : k \in Chosen <=> \E i \in 1..n : k = o[i]
    <2>1. o \in Seq(Slot) /\ Range(o) = Chosen
      BY <1>1, OrderedRange
    <2>2. Range(o) = {o[i] : i \in DOMAIN o}
      BY DEF Range
    <2> HIDE DEF o
    <2>3. n \in Nat /\ DOMAIN o = 1..n /\ \A i \in 1..n : o[i] \in Slot
      BY <2>1
    <2> QED
      BY <2>1, <2>2, <2>3
  <1>3. {"update_check", "selection"} \subseteq Stage
        /\ {"update_evaluated", "selection_evaluated"} \subseteq Status
    BY StatusNames DEF Stage
  <1>5. /\ p1 \in Seq(AnyJob)
        /\ \A x : x \in Range(p1) <=> \E k \in Chosen : x = Store(k)
    <2> DEFINE seqs == [i \in 1..n |-> <<Store(o[i])>>]
    <2>1. \A i \in 1..n : /\ seqs[i] \in Seq(AnyJob)
                         /\ Range(seqs[i]) = {Store(o[i])}
      BY <1>1, <1>2, <1>3, JobTypes DEF Range
    <2>2. seqs \in [1..n -> Seq(AnyJob)]
      BY <2>1
    <2>3. p1 = FlattenSeq(seqs)
      BY <1>2 DEF Each
    <2> HIDE DEF seqs, p1, o, n
    <2>4. /\ FlattenSeq(seqs) \in Seq(AnyJob)
          /\ \A x : x \in Range(FlattenSeq(seqs)) <=> \E i \in 1..n : x \in Range(seqs[i])
      BY <1>2, <2>1, <2>2, LoopJobs
    <2>5. \A x : x \in Range(FlattenSeq(seqs)) <=> \E i \in 1..n : x = Store(o[i])
      <3>1. \A x : x \in Range(FlattenSeq(seqs)) <=> \E i \in 1..n : x \in Range(seqs[i])
        BY <2>4
      <3>2. \A i \in 1..n : \A x : x \in Range(seqs[i]) <=> x = Store(o[i])
        BY <2>1
      <3> QED
        BY ONLY <3>1, <3>2
    <2> QED
      BY ONLY <1>2, <2>3, <2>4, <2>5
  <1>6. p2 \in Seq(AnyJob) /\ Range(p2) = {Batch("update_check", 0)}
    BY <1>1, <1>3, JobTypes DEF Range
  <1>7. /\ p3 \in Seq(AnyJob)
        /\ \A x : x \in Range(p3) <=> \E k \in Chosen : (x = Batch("update_check", k) \/ x = Advance(k, "update_evaluated"))
    <2> DEFINE seqs == [i \in 1..n |-> <<Batch("update_check", o[i]), Advance(o[i], "update_evaluated")>>]
    <2>1. \A i \in 1..n : /\ seqs[i] \in Seq(AnyJob)
                         /\ Range(seqs[i]) = {Batch("update_check", o[i]), Advance(o[i], "update_evaluated")}
      BY <1>1, <1>2, <1>3, JobTypes DEF Range
    <2>2. seqs \in [1..n -> Seq(AnyJob)]
      BY <2>1
    <2>3. p3 = FlattenSeq(seqs)
      BY <1>2 DEF Each
    <2> HIDE DEF seqs, p3, o, n
    <2>4. /\ FlattenSeq(seqs) \in Seq(AnyJob)
          /\ \A x : x \in Range(FlattenSeq(seqs)) <=> \E i \in 1..n : x \in Range(seqs[i])
      BY <1>2, <2>1, <2>2, LoopJobs
    <2>5. \A x : x \in Range(FlattenSeq(seqs)) <=> \E i \in 1..n : x = Batch("update_check", o[i]) \/ x = Advance(o[i], "update_evaluated")
      <3>1. \A x : x \in Range(FlattenSeq(seqs)) <=> \E i \in 1..n : x \in Range(seqs[i])
        BY <2>4
      <3>2. \A i \in 1..n : \A x : x \in Range(seqs[i]) <=> x = Batch("update_check", o[i]) \/ x = Advance(o[i], "update_evaluated")
        BY <2>1
      <3> QED
        BY ONLY <3>1, <3>2
    <2> QED
      BY ONLY <1>2, <2>3, <2>4, <2>5
  <1>8. p4 \in Seq(AnyJob) /\ Range(p4) = {Batch("selection", 0)}
    BY <1>1, <1>3, JobTypes DEF Range
  <1>9. /\ p5 \in Seq(AnyJob)
        /\ \A x : x \in Range(p5) <=> \E k \in Chosen : (x = Batch("selection", k) \/ x = Advance(k, "selection_evaluated"))
    <2> DEFINE seqs == [i \in 1..n |-> <<Batch("selection", o[i]), Advance(o[i], "selection_evaluated")>>]
    <2>1. \A i \in 1..n : /\ seqs[i] \in Seq(AnyJob)
                         /\ Range(seqs[i]) = {Batch("selection", o[i]), Advance(o[i], "selection_evaluated")}
      BY <1>1, <1>2, <1>3, JobTypes DEF Range
    <2>2. seqs \in [1..n -> Seq(AnyJob)]
      BY <2>1
    <2>3. p5 = FlattenSeq(seqs)
      BY <1>2 DEF Each
    <2> HIDE DEF seqs, p5, o, n
    <2>4. /\ FlattenSeq(seqs) \in Seq(AnyJob)
          /\ \A x : x \in Range(FlattenSeq(seqs)) <=> \E i \in 1..n : x \in Range(seqs[i])
      BY <1>2, <2>1, <2>2, LoopJobs
    <2>5. \A x : x \in Range(FlattenSeq(seqs)) <=> \E i \in 1..n : x = Batch("selection", o[i]) \/ x = Advance(o[i], "selection_evaluated")
      <3>1. \A x : x \in Range(FlattenSeq(seqs)) <=> \E i \in 1..n : x \in Range(seqs[i])
        BY <2>4
      <3>2. \A i \in 1..n : \A x : x \in Range(seqs[i]) <=> x = Batch("selection", o[i]) \/ x = Advance(o[i], "selection_evaluated")
        BY <2>1
      <3> QED
        BY ONLY <3>1, <3>2
    <2> QED
      BY ONLY <1>2, <2>3, <2>4, <2>5
  <1> HIDE DEF o, n, p1, p2, p3, p4, p5
  <1>15. /\ InOrder(p1) /\ InOrder(p2) /\ InOrder(p3) /\ InOrder(p4) /\ InOrder(p5)
         /\ \A x \in Range(p1) : Level(x) = 1
         /\ \A x \in Range(p2) \union Range(p3) : Level(x) = 2
         /\ \A x \in Range(p4) \union Range(p5) : Level(x) = 3
    <2>1. \A k : /\ Level(Store(k)) = 1
                 /\ Level(Batch("update_check", k)) = 2 /\ Level(Advance(k, "update_evaluated")) = 2
                 /\ Level(Batch("selection", k)) = 3 /\ Level(Advance(k, "selection_evaluated")) = 3
      BY DEF Level, Store, Batch, Advance
    <2>2. \A x \in Range(p1) : Level(x) = 1
      BY ONLY <1>5, <2>1
    <2>3. \A x \in Range(p2) : Level(x) = 2
      BY ONLY <1>6, <2>1
    <2>4. \A x \in Range(p3) : Level(x) = 2
      BY ONLY <1>7, <2>1
    <2>5. \A x \in Range(p4) : Level(x) = 3
      BY ONLY <1>8, <2>1
    <2>6. \A x \in Range(p5) : Level(x) = 3
      BY ONLY <1>9, <2>1
    <2>7. InOrder(p1) /\ InOrder(p2) /\ InOrder(p3) /\ InOrder(p4) /\ InOrder(p5)
      BY <1>5, <1>6, <1>7, <1>8, <1>9, <2>2, <2>3, <2>4, <2>5, <2>6, LevelInOrder
    <2> QED
      BY <2>2, <2>3, <2>4, <2>5, <2>6, <2>7
  <1>10. /\ w \in Seq(AnyJob) /\ InOrder(w)
         /\ Range(w) = Range(p1) \union Range(p2) \union Range(p3) \union Range(p4) \union Range(p5)
    <2>1. q2 \in Seq(AnyJob) /\ Range(q2) = Range(p1) \union Range(p2) /\ InOrder(q2)
      BY <1>5, <1>6, <1>15, JoinTwo, JoinInOrder
    <2> HIDE DEF q2
    <2>2. q3 \in Seq(AnyJob) /\ Range(q3) = Range(q2) \union Range(p3) /\ InOrder(q3)
      <3>1. \A x \in Range(q2), y \in Range(p3) : Level(x) <= Level(y)
        BY <1>15, <2>1
      <3> QED
        BY <1>7, <1>15, <2>1, <3>1, JoinTwo, JoinInOrder
    <2> HIDE DEF q3
    <2>3. q4 \in Seq(AnyJob) /\ Range(q4) = Range(q3) \union Range(p4) /\ InOrder(q4)
      <3>1. \A x \in Range(q3), y \in Range(p4) : Level(x) <= Level(y)
        BY <1>15, <2>1, <2>2
      <3> QED
        BY <1>8, <1>15, <2>2, <3>1, JoinTwo, JoinInOrder
    <2> HIDE DEF q4
    <2>4. w \in Seq(AnyJob) /\ Range(w) = Range(q4) \union Range(p5) /\ InOrder(w)
      <3>1. \A x \in Range(q4), y \in Range(p5) : Level(x) <= Level(y)
        BY <1>15, <2>1, <2>2, <2>3
      <3> QED
        BY <1>9, <1>15, <2>3, <3>1, JoinTwo, JoinInOrder
    <2> QED
      BY <2>1, <2>2, <2>3, <2>4
  <1>11. EvaluationWork = w \o <<Seal("selection")>>
    BY DEF EvaluationWork, o, p1, p2, p3, p4, p5, q2, q3, q4
  <1> HIDE DEF w
  <1>16. InOrder(w \o <<Seal("selection")>>)
    <2> DEFINE e == <<Seal("selection")>>
    <2>1. e \in Seq(AnyJob) /\ \A y \in Range(e) : Level(y) = 3
      BY <1>1, JobTypes DEF Range, Level, Seal, Artifact
    <2>2. \A x \in Range(w) : Level(x) \in {1, 2, 3}
      BY DEF Level
    <2> HIDE DEF e
    <2>3. InOrder(e) /\ \A x \in Range(w), y \in Range(e) : Level(x) <= Level(y)
      BY <2>1, <2>2, LevelInOrder
    <2>4. InOrder(w \o e)
      BY <1>10, <2>1, <2>3, JoinInOrder
    <2> QED
      BY <2>4 DEF e
  <1>12. Range(w) \union {Seal("selection")} = EvaluationJobs
    BY <1>5, <1>6, <1>7, <1>8, <1>9, <1>10 DEF EvaluationJobs
  <1>13. Seal("selection") \notin Range(w)
    BY <1>5, <1>6, <1>7, <1>8, <1>9, <1>10 DEF Seal, Store, Batch, Advance
  <1>14. AnyJob \union {Seal("selection")} = AnyJob
    BY <1>1, JobTypes DEF Artifact
  <1> QED
    BY <1>10, <1>11, <1>12, <1>13, <1>14, <1>16, Ending

(* The work after a selection that keeps the baseline.                     *)
LEMMA HoldQueue ==
    ASSUME TypeOK
    PROVE  /\ HoldWork \in Seq(AnyJob) /\ Range(HoldWork) = HoldJobs
           /\ EndsWith(HoldWork, "hold")
  <1> DEFINE o == Ordered(Chosen)
             n == Len(o)
             p1 == <<Seal("lineage")>>
             p2 == Each(o, LAMBDA k : <<Advance(k, "held")>>)
             w == p1 \o p2
  <1>1. Chosen \in SUBSET Slot /\ Slot \subseteq Snap /\ 0 \in Snap
    BY BudgetAssumption DEF TypeOK, Chosen, Slot, Snap
  <1>2. /\ n \in Nat /\ DOMAIN o = 1..n
        /\ \A i \in 1..n : o[i] \in Slot
        /\ \A k : k \in Chosen <=> \E i \in 1..n : k = o[i]
    <2>1. o \in Seq(Slot) /\ Range(o) = Chosen
      BY <1>1, OrderedRange
    <2>2. Range(o) = {o[i] : i \in DOMAIN o}
      BY DEF Range
    <2> HIDE DEF o
    <2>3. n \in Nat /\ DOMAIN o = 1..n /\ \A i \in 1..n : o[i] \in Slot
      BY <2>1
    <2> QED
      BY <2>1, <2>2, <2>3
  <1>3. "held" \in Status
    BY StatusNames
  <1>4. p1 \in Seq(AnyJob) /\ Range(p1) = {Seal("lineage")}
    BY <1>1, JobTypes DEF Range, Artifact
  <1>5. /\ p2 \in Seq(AnyJob)
        /\ \A x : x \in Range(p2) <=> \E k \in Chosen : x = Advance(k, "held")
    <2> DEFINE seqs == [i \in 1..n |-> <<Advance(o[i], "held")>>]
    <2>1. \A i \in 1..n : /\ seqs[i] \in Seq(AnyJob)
                         /\ Range(seqs[i]) = {Advance(o[i], "held")}
      BY <1>1, <1>2, <1>3, JobTypes DEF Range
    <2>2. seqs \in [1..n -> Seq(AnyJob)]
      BY <2>1
    <2>3. p2 = FlattenSeq(seqs)
      BY <1>2 DEF Each
    <2> HIDE DEF seqs, p2, o, n
    <2>4. /\ FlattenSeq(seqs) \in Seq(AnyJob)
          /\ \A x : x \in Range(FlattenSeq(seqs)) <=> \E i \in 1..n : x \in Range(seqs[i])
      BY <1>2, <2>1, <2>2, LoopJobs
    <2>5. \A x : x \in Range(FlattenSeq(seqs)) <=> \E i \in 1..n : x = Advance(o[i], "held")
      <3>1. \A x : x \in Range(FlattenSeq(seqs)) <=> \E i \in 1..n : x \in Range(seqs[i])
        BY <2>4
      <3>2. \A i \in 1..n : \A x : x \in Range(seqs[i]) <=> x = Advance(o[i], "held")
        BY <2>1
      <3> QED
        BY ONLY <3>1, <3>2
    <2> QED
      BY ONLY <1>2, <2>3, <2>4, <2>5
  <1> HIDE DEF o, n, p1, p2
  <1>6. w \in Seq(AnyJob) /\ Range(w) = Range(p1) \union Range(p2)
    BY <1>4, <1>5, JoinTwo
  <1>7. HoldWork = w \o <<Seal("hold")>>
    BY DEF HoldWork, o, p1, p2
  <1> HIDE DEF w
  <1>8. Range(w) \union {Seal("hold")} = HoldJobs
    BY <1>4, <1>5, <1>6 DEF HoldJobs
  <1>9. Seal("hold") \notin Range(w)
    BY <1>4, <1>5, <1>6 DEF Seal, Advance
  <1>10. AnyJob \union {Seal("hold")} = AnyJob
    BY <1>1, JobTypes DEF Artifact
  <1> QED
    BY <1>6, <1>7, <1>8, <1>9, <1>10, Ending

(* The two roles in any of the orders the code may go through them.        *)
LEMMA RoleOrders ==
    ASSUME TypeOK, NEW o \in {RoleOrder, Reverse(RoleOrder)}
    PROVE  /\ o \in Seq(Snap) /\ Len(o) \in Nat /\ DOMAIN o = 1..Len(o)
           /\ \A i \in 1..Len(o) : o[i] \in Snap
           /\ \A k : k \in Roles <=> \E i \in 1..Len(o) : k = o[i]
  <1>1. says.native \in Snap /\ says.governed \in Snap
    BY DEF TypeOK
  <1>2. CASE says.native = says.governed
    <2>1. o = <<says.native>>
      BY <1>2 DEF RoleOrder, Reverse
    <2> QED
      BY <1>1, <1>2, <2>1 DEF Roles
  <1>3. CASE says.native # says.governed
    <2>1. o = <<says.native, says.governed>> \/ o = <<says.governed, says.native>>
      <3>1. Reverse(<<says.native, says.governed>>) = <<says.governed, says.native>>
        BY DEF Reverse
      <3> QED
        BY <1>3, <3>1 DEF RoleOrder
    <2>2. Roles = {says.native, says.governed}
      BY DEF Roles
    <2>3. ASSUME NEW a \in Snap, NEW b \in Snap, o = <<a, b>>
          PROVE  /\ o \in Seq(Snap) /\ Len(o) = 2 /\ DOMAIN o = 1..2
                 /\ o[1] = a /\ o[2] = b
      BY <2>3
    <2>4. 1..2 = {1, 2}
      OBVIOUS
    <2> QED
      BY <1>1, <2>1, <2>2, <2>3, <2>4
  <1> QED
    BY <1>2, <1>3

(* Two jobs as a queue.                                                    *)
LEMMA OneAndOne ==
    ASSUME NEW a, NEW b
    PROVE  <<a>> \o <<b>> = <<a, b>>
  <1> DEFINE s == <<a>> \o <<b>>
             t == <<a, b>>
             S == {a, b}
  <1>1. s \in Seq(S) /\ Len(s) = 2 /\ s[1] = a /\ s[2] = b
    OBVIOUS
  <1>2. t \in Seq(S) /\ Len(t) = 2 /\ t[1] = a /\ t[2] = b
    OBVIOUS
  <1> HIDE DEF s, t, S
  <1>3. \A i \in 1..Len(s) : s[i] = t[i]
    <2>1. \A i \in 1..2 : i = 1 \/ i = 2
      OBVIOUS
    <2> QED
      BY <1>1, <1>2, <2>1
  <1>4. s = t
    BY <1>1, <1>2, <1>3, SeqEqual
  <1> QED
    BY <1>4 DEF s, t

(* The decisions of the gates about the roles.                             *)
LEMMA DecisionQueue ==
    ASSUME TypeOK
    PROVE  /\ DecisionWork \in Seq(AnyJob) /\ Range(DecisionWork) = DecisionJobs
           /\ EndsWith(DecisionWork, "outcome")
  <1> DEFINE o == RoleOrder
             n == Len(o)
             p1 == Each(o, LAMBDA k : <<Advance(k, Decision(k))>>)
             p2 == <<Seal("report")>>
             w == p1 \o p2
  <1>1. 0 \in Snap /\ \A k : Decision(k) \in Status
    BY BudgetAssumption, StatusNames DEF Snap, Decision
  <1>2. /\ n \in Nat /\ DOMAIN o = 1..n
        /\ \A i \in 1..n : o[i] \in Snap
        /\ \A k : k \in Roles <=> \E i \in 1..n : k = o[i]
    BY RoleOrders
  <1>4. p2 \in Seq(AnyJob) /\ Range(p2) = {Seal("report")}
    BY <1>1, JobTypes DEF Range, Artifact
  <1>5. /\ p1 \in Seq(AnyJob)
        /\ \A x : x \in Range(p1) <=> \E k \in Roles : x = Advance(k, Decision(k))
    <2> DEFINE seqs == [i \in 1..n |-> <<Advance(o[i], Decision(o[i]))>>]
    <2>1. \A i \in 1..n : /\ seqs[i] \in Seq(AnyJob)
                         /\ Range(seqs[i]) = {Advance(o[i], Decision(o[i]))}
      BY <1>1, <1>2, JobTypes DEF Range
    <2>2. seqs \in [1..n -> Seq(AnyJob)]
      BY <2>1
    <2>3. p1 = FlattenSeq(seqs)
      BY <1>2 DEF Each
    <2> HIDE DEF seqs, p1, o, n
    <2>4. /\ FlattenSeq(seqs) \in Seq(AnyJob)
          /\ \A x : x \in Range(FlattenSeq(seqs)) <=> \E i \in 1..n : x \in Range(seqs[i])
      BY <1>2, <2>1, <2>2, LoopJobs
    <2>5. \A x : x \in Range(FlattenSeq(seqs)) <=> \E i \in 1..n : x = Advance(o[i], Decision(o[i]))
      <3>1. \A x : x \in Range(FlattenSeq(seqs)) <=> \E i \in 1..n : x \in Range(seqs[i])
        BY <2>4
      <3>2. \A i \in 1..n : \A x : x \in Range(seqs[i]) <=> x = Advance(o[i], Decision(o[i]))
        BY <2>1
      <3> QED
        BY ONLY <3>1, <3>2
    <2> QED
      BY ONLY <1>2, <2>3, <2>4, <2>5
  <1> HIDE DEF o, n, p1
  <1>6. w \in Seq(AnyJob) /\ Range(w) = Range(p1) \union Range(p2)
    <2> HIDE DEF p2
    <2> QED
      BY <1>4, <1>5, JoinTwo
  <1>7. DecisionWork = w \o <<Seal("outcome")>>
    <2> DEFINE e == <<Seal("outcome")>>
    <2>1. p2 \o e = <<Seal("report"), Seal("outcome")>>
      BY OneAndOne
    <2>2. DecisionWork = p1 \o (p2 \o e)
      BY <2>1 DEF DecisionWork, o, p1
    <2>3. e \in Seq(AnyJob)
      BY <1>1, JobTypes DEF Artifact
    <2> HIDE DEF p2, e
    <2>4. p1 \o (p2 \o e) = (p1 \o p2) \o e
      BY <1>4, <1>5, <2>3, ConcatAssociative
    <2> QED
      BY <2>2, <2>4 DEF e
  <1> HIDE DEF w, p2
  <1>8. Range(w) \union {Seal("outcome")} = DecisionJobs
    BY <1>4, <1>5, <1>6 DEF DecisionJobs
  <1>9. Seal("outcome") \notin Range(w)
    BY <1>4, <1>5, <1>6 DEF Seal, Advance
  <1>10. AnyJob \union {Seal("outcome")} = AnyJob
    BY <1>1, JobTypes DEF Artifact
  <1> QED
    BY <1>6, <1>7, <1>8, <1>9, <1>10, Ending

(* The release batches of the baseline and both roles, and what is sealed. *)
LEMMA ReleaseQueue ==
    ASSUME TypeOK, NEW o \in {RoleOrder, Reverse(RoleOrder)}
    PROVE  ReleaseWork(o) \in Seq(AnyJob) /\ Range(ReleaseWork(o)) = ReleaseJobs
  <1> DEFINE r == <<0>> \o RoleOrder
             m == Len(r)
             n == Len(o)
             l == Len(ReleaseStages)
             p1 == <<Seal("ablation"), Seal("roles")>>
             p2 == Each(r, LAMBDA k :
                             [i \in DOMAIN ReleaseStages |-> Batch(ReleaseStages[i], k)])
             p3 == Each(o, LAMBDA k : <<Advance(k, "release_evaluated")>>)
             p4 == <<Seal("analysis"), Seal("lineage"), Seal("native"), Seal("agentloopgate")>>
             q2 == p1 \o p2
             q3 == q2 \o p3
  <1>1. 0 \in Snap /\ "release_evaluated" \in Status
    BY BudgetAssumption, StatusNames DEF Snap
  <1>2. /\ n \in Nat /\ DOMAIN o = 1..n
        /\ \A i \in 1..n : o[i] \in Snap
        /\ \A k : k \in Roles <=> \E i \in 1..n : k = o[i]
    BY RoleOrders
  <1>3. /\ m \in Nat /\ DOMAIN r = 1..m
        /\ \A i \in 1..m : r[i] \in Snap
        /\ \A k : k \in {0} \union Roles <=> \E i \in 1..m : k = r[i]
    <2> DEFINE s == RoleOrder
    <2>1. /\ s \in Seq(Snap)
          /\ \A k : k \in Roles <=> \E i \in 1..Len(s) : k = s[i]
      BY RoleOrders
    <2>2. \A k : k \in Roles <=> k \in Range(s)
      <3>1. DOMAIN s = 1..Len(s) /\ Range(s) = {s[i] : i \in DOMAIN s}
        BY <2>1 DEF Range
      <3> HIDE DEF s
      <3> QED
        BY <2>1, <3>1
    <2> DEFINE z == <<0>>
    <2>3. z \in Seq(Snap) /\ Range(z) = {0}
      BY <1>1 DEF Range
    <2> HIDE DEF s, z
    <2>4. z \o s \in Seq(Snap) /\ Range(z \o s) = Range(z) \union Range(s)
      BY <2>1, <2>3, JoinTwo
    <2>5. r = z \o s
      BY DEF s, z
    <2> HIDE DEF r
    <2>6. m \in Nat /\ DOMAIN r = 1..m /\ \A i \in 1..m : r[i] \in Snap
      BY <2>4, <2>5
    <2>7. Range(r) = {r[i] : i \in DOMAIN r}
      BY DEF Range
    <2>8. \A k : k \in Range(r) <=> k = 0 \/ k \in Roles
      BY <2>2, <2>3, <2>4, <2>5
    <2>9. \A k : k \in Range(r) <=> \E i \in 1..m : k = r[i]
      BY <2>6, <2>7
    <2> HIDE DEF m
    <2> QED
      BY <2>6, <2>8, <2>9
  <1>4. /\ l \in Nat /\ DOMAIN ReleaseStages = 1..l
        /\ \A i \in 1..l : ReleaseStages[i] \in Stage
        /\ \A s : s \in Release <=> \E i \in 1..l : s = ReleaseStages[i]
    <2>1. Release = {ReleaseStages[i] : i \in DOMAIN ReleaseStages}
      BY DEF Release, Range
    <2>2. l \in Nat /\ DOMAIN ReleaseStages = 1..l
      BY StageAssumption
    <2> QED
      BY <2>1, <2>2 DEF Stage
  <1>5. /\ p1 \in Seq(AnyJob) /\ Range(p1) = {Seal("ablation"), Seal("roles")}
        /\ p4 \in Seq(AnyJob)
        /\ Range(p4) = {Seal("analysis"), Seal("lineage"), Seal("native"), Seal("agentloopgate")}
    BY <1>1, JobTypes DEF Range, Artifact
  <1>6. /\ p2 \in Seq(AnyJob)
        /\ \A x : x \in Range(p2) <=> \E s \in Release, k \in {0} \union Roles : x = Batch(s, k)
    <2> DEFINE seqs == [i \in 1..m |-> [j \in 1..l |-> Batch(ReleaseStages[j], r[i])]]
    <2>1. \A i \in 1..m : /\ seqs[i] \in [1..l -> AnyJob]
                          /\ \A j \in 1..l : seqs[i][j] = Batch(ReleaseStages[j], r[i])
      BY <1>3, <1>4, JobTypes
    <2>2. p2 = FlattenSeq(seqs)
      BY <1>3, <1>4 DEF Each
    <2> HIDE DEF r
    <2>3. seqs \in [1..m -> Seq(AnyJob)]
      <3>1. \A i \in 1..m : seqs[i] \in Seq(AnyJob)
        BY <1>4, <2>1
      <3> QED
        BY <3>1
    <2> HIDE DEF seqs, p2, m, l
    <2>4. \A i \in 1..m : \A x : x \in Range(seqs[i]) <=>
                                   \E j \in 1..l : x = Batch(ReleaseStages[j], r[i])
      BY <2>1 DEF Range
    <2>5. /\ FlattenSeq(seqs) \in Seq(AnyJob)
          /\ \A x : x \in Range(FlattenSeq(seqs)) <=> \E i \in 1..m : x \in Range(seqs[i])
      BY <1>3, <2>3, LoopJobs
    <2>6. \A x : x \in Range(FlattenSeq(seqs)) <=>
                   \E i \in 1..m, j \in 1..l : x = Batch(ReleaseStages[j], r[i])
      <3>1. \A x : x \in Range(FlattenSeq(seqs)) <=> \E i \in 1..m : x \in Range(seqs[i])
        BY <2>5
      <3> QED
        BY ONLY <2>4, <3>1
    <2>7. \A x : (\E i \in 1..m, j \in 1..l : x = Batch(ReleaseStages[j], r[i]))
                   <=> \E s \in Release, k \in {0} \union Roles : x = Batch(s, k)
      <3>1. \A k : k \in {0} \union Roles <=> \E i \in 1..m : k = r[i]
        BY <1>3
      <3>2. \A s : s \in Release <=> \E i \in 1..l : s = ReleaseStages[i]
        BY <1>4
      <3> HIDE DEF r
      <3>3. ASSUME NEW i \in 1..m, NEW j \in 1..l
            PROVE  \E s \in Release, k \in {0} \union Roles :
                       Batch(ReleaseStages[j], r[i]) = Batch(s, k)
        <4>1. r[i] \in {0} \union Roles /\ ReleaseStages[j] \in Release
          BY ONLY <3>1, <3>2, <3>3
        <4> QED
          BY <4>1
      <3>4. ASSUME NEW s \in Release, NEW k \in {0} \union Roles
            PROVE  \E i \in 1..m, j \in 1..l : Batch(s, k) = Batch(ReleaseStages[j], r[i])
        <4>1. \E i \in 1..m, j \in 1..l : s = ReleaseStages[j] /\ k = r[i]
          BY ONLY <3>1, <3>2, <3>4
        <4> QED
          BY <4>1
      <3>5. ASSUME NEW x, NEW i \in 1..m, NEW j \in 1..l, x = Batch(ReleaseStages[j], r[i])
            PROVE  \E s \in Release, k \in {0} \union Roles : x = Batch(s, k)
        BY ONLY <3>3, <3>5
      <3>6. ASSUME NEW x, NEW s \in Release, NEW k \in {0} \union Roles, x = Batch(s, k)
            PROVE  \E i \in 1..m, j \in 1..l : x = Batch(ReleaseStages[j], r[i])
        BY ONLY <3>4, <3>6
      <3> QED
        BY ONLY <3>5, <3>6
    <2> QED
      BY ONLY <2>2, <2>5, <2>6, <2>7
  <1>7. /\ p3 \in Seq(AnyJob)
        /\ \A x : x \in Range(p3) <=> \E k \in Roles : x = Advance(k, "release_evaluated")
    <2> DEFINE seqs == [i \in 1..n |-> <<Advance(o[i], "release_evaluated")>>]
    <2>1. \A i \in 1..n : /\ seqs[i] \in Seq(AnyJob)
                         /\ Range(seqs[i]) = {Advance(o[i], "release_evaluated")}
      BY <1>1, <1>2, JobTypes DEF Range
    <2>2. seqs \in [1..n -> Seq(AnyJob)]
      BY <2>1
    <2>3. p3 = FlattenSeq(seqs)
      BY <1>2 DEF Each
    <2> HIDE DEF seqs, p3, n
    <2>4. /\ FlattenSeq(seqs) \in Seq(AnyJob)
          /\ \A x : x \in Range(FlattenSeq(seqs)) <=> \E i \in 1..n : x \in Range(seqs[i])
      BY <1>2, <2>1, <2>2, LoopJobs
    <2>5. \A x : x \in Range(FlattenSeq(seqs)) <=> \E i \in 1..n : x = Advance(o[i], "release_evaluated")
      <3>1. \A x : x \in Range(FlattenSeq(seqs)) <=> \E i \in 1..n : x \in Range(seqs[i])
        BY <2>4
      <3>2. \A i \in 1..n : \A x : x \in Range(seqs[i]) <=> x = Advance(o[i], "release_evaluated")
        BY <2>1
      <3> QED
        BY ONLY <3>1, <3>2
    <2> QED
      BY ONLY <1>2, <2>3, <2>4, <2>5
  <1> HIDE DEF r, m, n, l, p1, p2, p3, p4
  <1>8. ReleaseWork(o) \in Seq(AnyJob)
        /\ Range(ReleaseWork(o)) = Range(p1) \union Range(p2) \union Range(p3) \union Range(p4)
    <2>1. q2 \in Seq(AnyJob) /\ Range(q2) = Range(p1) \union Range(p2)
      BY <1>5, <1>6, JoinTwo
    <2> HIDE DEF q2
    <2>2. q3 \in Seq(AnyJob) /\ Range(q3) = Range(q2) \union Range(p3)
      BY <1>7, <2>1, JoinTwo
    <2> HIDE DEF q3
    <2>3. q3 \o p4 \in Seq(AnyJob) /\ Range(q3 \o p4) = Range(q3) \union Range(p4)
      BY <1>5, <2>2, JoinTwo
    <2>4. ReleaseWork(o) = q3 \o p4
      BY DEF ReleaseWork, r, p1, p2, p3, p4, q2, q3
    <2> QED
      BY <2>1, <2>2, <2>3, <2>4
  <1>9. Range(ReleaseWork(o)) = ReleaseJobs
    <2>1. \A x : x \in ReleaseJobs <=>
                   \/ \E a \in {"ablation", "roles", "analysis", "lineage", "native",
                                "agentloopgate"} : x = Seal(a)
                   \/ \E s \in Release, k \in {0} \union Roles : x = Batch(s, k)
                   \/ \E k \in Roles : x = Advance(k, "release_evaluated")
      BY DEF ReleaseJobs
    <2> QED
      BY <1>5, <1>6, <1>7, <1>8, <2>1
  <1> QED
    BY <1>8, <1>9

-----------------------------------------------------------------------------
(* The constants and the jobs of a running phase.                          *)

(* Zero is the baseline's snapshot and no slot; all stages are known.      *)
LEMMA Names ==
    /\ Slot \subseteq Nat /\ Snap = {0} \union Slot /\ 0 \notin Slot /\ 1 \in Slot
    /\ Release \subseteq {"release_id", "release_ood", "replay"} /\ Release \subseteq Stage
    /\ {"update_source", "update_check", "selection"} \subseteq Stage \ Release
  <1>1. Release \subseteq {"release_id", "release_ood", "replay"}
    BY StageAssumption DEF Release, Range
  <1> QED
    BY <1>1, BudgetAssumption DEF Slot, Snap, Stage

(* What the sealed plan and selection say are candidates.                  *)
LEMMA RolesAreSlots ==
    ASSUME TypeOK, PlanInv, <<"selection", 0>> \in whole, says.governed # 0
    PROVE  Roles \subseteq Chosen /\ Chosen \subseteq Slot
  BY DEF TypeOK, PlanInv, Roles, Chosen

(* From the release on a candidate was selected, and the selection sealed. *)
LEMMA RolesInRelease ==
    ASSUME IInv, pc \in {"release", "decision"}
    PROVE  Roles \subseteq Slot /\ <<"selection", 0>> \in whole /\ says.governed # 0
  <1>1. Seal("selection") \in EvaluationJobs /\ says.governed # 0
    BY DEF IInv, ControlInv, PastInv, EvaluationJobs
  <1>2. <<"selection", 0>> \in whole
    BY <1>1 DEF IInv, ControlInv, PastInv, Effect, Seal
  <1> QED
    BY <1>1, <1>2, RolesAreSlots DEF IInv, DiskInv

(* The jobs of the four phases have the names and slots they work on.      *)
LEMMA JobKnown ==
    ASSUME IInv, pc \in Phase, work # <<>>
    PROVE  /\ Job \in Range(work) /\ Job \in JobsOf(pc) /\ Job \in AnyJob
           /\ Job.do = "store" => pc = "evaluation" /\ Job.on \in Slot
           /\ Job.do = "batch" => pc \in {"evaluation", "release"} /\ Job.name \in Stage
           /\ Job.do = "advance" => Job.name \in Status /\ Job.on \in Slot
           /\ Job.do = "seal" => Job.name \in Artifact /\ Job.on = 0
  <1>1. /\ work \in Seq(AnyJob) /\ Range(work) \subseteq JobsOf(pc)
    BY DEF IInv, ControlInv, WorkInv
  <1>2. Job \in Range(work) /\ Range(work) = {Job} \union Range(Tail(work))
    BY <1>1, TailOfQueue DEF Job
  <1>3. Job \in JobsOf(pc) /\ Job \in AnyJob
    BY <1>1, <1>2 DEF Range
  <1>4. Chosen \subseteq Slot
    BY DEF IInv, TypeOK, Chosen
  <1>5. pc \in {"release", "decision"} => Roles \subseteq Slot
    BY RolesInRelease
  <1>6. \A k : Decision(k) \in Status
    BY StatusNames DEF Decision
  <1>7. CASE pc = "evaluation"
    BY <1>2, <1>3, <1>4, <1>7, StatusNames, Names
       DEF JobsOf, EvaluationJobs, Store, Batch, Advance, Seal, Artifact
  <1>8. CASE pc = "hold"
    BY <1>2, <1>3, <1>4, <1>8, StatusNames DEF JobsOf, HoldJobs, Advance, Seal, Artifact
  <1>9. CASE pc = "release"
    BY <1>2, <1>3, <1>5, <1>9, StatusNames, Names
       DEF JobsOf, ReleaseJobs, Batch, Advance, Seal, Artifact
  <1>10. CASE pc = "decision"
    BY <1>2, <1>3, <1>5, <1>6, <1>10 DEF JobsOf, DecisionJobs, Advance, Seal, Artifact
  <1> QED
    BY <1>7, <1>8, <1>9, <1>10 DEF Phase

-----------------------------------------------------------------------------
(* Every step keeps the types.                                             *)

(* What goes wrong is counted in a number.                                 *)
LEMMA TroublesLeft ==
    ASSUME TypeOK, NEW T, Happens(T)
    PROVE  left' \in Nat /\ edited' \in BOOLEAN
  <1>1. IsFiniteSet(KnownTrouble)
    <2>1. \A a, b : IsFiniteSet({a, b})
      <3> TAKE a, b
      <3>1. IsFiniteSet({a}) /\ IsFiniteSet({a} \union {b})
        BY FS_Singleton, FS_AddElement
      <3> QED
        BY <3>1
    <2>2. KnownTrouble = ({"death", "torn"} \union {"failure", "edit"})
                             \union ({"stage", "hold"} \union {"inexact", "drift"})
      BY DEF KnownTrouble
    <2> QED
      BY <2>1, <2>2, FS_Union
  <1>2. Cardinality(T) \in Nat
    BY <1>1, BoundAssumption, FS_Subset, FS_CardinalityType DEF Happens
  <1> QED
    BY <1>2 DEF TypeOK, Happens

(* An updater that ends was open before.                                   *)
LEMMA CostOfEnd ==
    ASSUME spent \in CostTotals, spent.open > 0, NEW cost \in {"exact", "partial"},
           EndUpdater(cost)
    PROVE  spent' \in CostTotals
  <1>1. spent.open - 1 \in Nat /\ spent.exact + 1 \in Nat /\ spent.partial + 1 \in Nat
    BY DEF CostTotals
  <1>2. CASE cost = "exact"
    <2>1. spent' = [spent EXCEPT !.open = @ - 1, !["exact"] = @ + 1]
      BY <1>2 DEF EndUpdater
    <2>2. spent' = [open |-> spent.open - 1, exact |-> spent.exact + 1, partial |-> spent.partial]
      BY <2>1 DEF CostTotals
    <2> QED
      BY <1>1, <2>2 DEF CostTotals
  <1>3. CASE cost = "partial"
    <2>1. spent' = [spent EXCEPT !.open = @ - 1, !["partial"] = @ + 1]
      BY <1>3 DEF EndUpdater
    <2>2. spent' = [open |-> spent.open - 1, exact |-> spent.exact, partial |-> spent.partial + 1]
      BY <2>1 DEF CostTotals
    <2> QED
      BY <1>1, <2>2 DEF CostTotals
  <1> QED
    BY <1>2, <1>3

(* A batch is sealed once and keeps its seal.                              *)
LEMMA Paying ==
    ASSUME TypeOK, NEW s \in Stage, NEW k \in Snap, NEW who, PayBatch(s, k, who),
           batch[<<s, k>>] = "none"
    PROVE  /\ batch' \in [Stage \X Snap ->
                {"none", "hold", "inexact", "complete", "better", "same", "pass", "weak"}]
           /\ batch'[<<s, k>>] # "none"
           /\ \A b \in Stage \X Snap : batch[b] # "none" => batch'[b] = batch[b]
           /\ left' \in Nat /\ edited' \in BOOLEAN
  <1>1. PICK r \in Results(s, k) :
            /\ batch' = [batch EXCEPT ![<<s, k>>] = r]
            /\ Happens(who \union ({r} \intersect {"hold", "inexact"}))
    BY DEF PayBatch
  <1>2. r \in {"hold", "inexact", "complete", "better", "same", "pass", "weak"}
    BY DEF Results
  <1>3. left' \in Nat /\ edited' \in BOOLEAN
    BY <1>1, TroublesLeft
  <1>4. <<s, k>> \in Stage \X Snap
    OBVIOUS
  <1> QED
    BY <1>1, <1>2, <1>3, <1>4 DEF TypeOK

(* A set of slots that is not empty has a smallest one.                    *)
LEMMA Smallest ==
    ASSUME NEW S \in SUBSET Slot, S # {}
    PROVE  Min(S) \in S
  <1> DEFINE R == OpToRel(<, Nat)
  <1>0. IsWellFoundedOn(R, Nat)
    BY NatLessThanWellFounded
  <1>1. S \subseteq Nat
    BY Names
  <1>2. PICK x \in S : \A y \in S : ~ (<<y, x>> \in R)
    BY <1>0, <1>1, WFMin
  <1>3. \A y \in S : ~ (y < x)
    BY <1>1, <1>2 DEF OpToRel
  <1> HIDE DEF R
  <1>4. \A y \in S : x <= y
    <2> SUFFICES ASSUME NEW y \in S PROVE x <= y
      OBVIOUS
    <2>1. ~ (y < x) /\ x \in Nat /\ y \in Nat
      BY <1>1, <1>3
    <2> QED
      BY <2>1
  <1> QED
    BY <1>4 DEF Min

(* The plan has at least one candidate.                                    *)
LEMMA PlanNotEmpty ==
    ASSUME TypeOK, PlanInv, <<"plan", 0>> \in whole
    PROVE  Chosen # {} /\ Chosen \subseteq Slot /\ Chosen \subseteq meta
  <1>1. Cardinality(Chosen) = CandidateCount /\ CandidateCount >= 1
    BY CountAssumption, BudgetAssumption DEF PlanInv
  <1>2. Chosen # {}
    BY <1>1, FS_EmptySet
  <1> QED
    BY <1>2 DEF PlanInv, TypeOK, Chosen

(* What the selection says: the roles are candidates of the plan, or the   *)
(* baseline stays.                                                         *)
LEMMA Selected ==
    ASSUME IInv, pc \in Phase, work # <<>>, Job.name = "selection"
    PROVE  Native \in Chosen /\ Governed \in {0} \union Chosen /\ Chosen \subseteq Snap
  <1>1. Chosen # {} /\ Chosen \subseteq Slot
    BY PlanNotEmpty DEF IInv, DiskInv, ControlInv, PastInv, AfterPlan
  <1>2. Better \subseteq Chosen
    BY DEF Better
  <1>3. Native \in Chosen
    BY <1>1, Smallest DEF Native
  <1>4. Better # {} => Min(Better) \in Better
    BY <1>1, <1>2, Smallest
  <1> QED
    BY <1>1, <1>2, <1>3, <1>4, Names DEF Governed

(* Every step keeps the types.                                             *)
LEMMA TypeStep ==
    ASSUME IInv, Next
    PROVE  TypeOK'
  <1> USE DEF registry, evidence, people, local, troubles
  <1>1. CASE Start
    BY <1>1, Names DEF Start, Go, End, KeepDisk, IInv, TypeOK
  <1>2. CASE StartAgain
    BY <1>2, Names DEF StartAgain, Go, End, KeepDisk, IInv, TypeOK
  <1>3. CASE VerifyAgain
    BY <1>3, Names DEF VerifyAgain, End, KeepDisk, IInv, TypeOK
  <1>4. CASE EnsureBaseline
    <2>1. UNCHANGED <<slot, meta, spent, evidence, people, troubles>>
      BY <1>4 DEF EnsureBaseline
    <2>2. snap' \in [Snap -> {"none", "partial", "whole"}] /\ base' \in 0..2
      <3>1. CASE snap[0] = "none"
        BY <1>4, <3>1 DEF EnsureBaseline, IInv, TypeOK
      <3>2. CASE snap[0] # "none"
        BY <1>4, <3>2 DEF EnsureBaseline, IInv, TypeOK
      <3> QED
        BY <3>1, <3>2
    <2>3. Go("source") \/ End("blocked") \/ End("drifted")
      BY <1>4 DEF EnsureBaseline
    <2> QED
      BY <2>1, <2>2, <2>3, Names DEF Go, End, IInv, TypeOK
  <1>5. CASE FreezeBaseline
    BY <1>5, Names DEF FreezeBaseline, IInv, TypeOK
  <1>6. CASE Diagnose
    <2>1. whole' \subseteq Paper /\ says' = says
      BY <1>6 DEF Diagnose, WriteOnce, Paper, Artifact, IInv, TypeOK
    <2>2. UNCHANGED <<registry, batch, broken, people, troubles>>
      BY <1>6 DEF Diagnose, WriteOnce
    <2>3. Go("authorize") \/ End("blocked")
      BY <1>6 DEF Diagnose, WriteOnce
    <2> QED
      BY <2>1, <2>2, <2>3, Names DEF Go, End, IInv, TypeOK
  <1>7. CASE AuthorizeUpdater
    <2>1. KeepDisk /\ UNCHANGED people
      BY <1>7 DEF AuthorizeUpdater
    <2>2. UNCHANGED troubles \/ Happens({"failure"})
      BY <1>7 DEF AuthorizeUpdater
    <2>3. left' \in Nat /\ edited' \in BOOLEAN
      BY <2>2, TroublesLeft DEF IInv, TypeOK
    <2>4. \/ pc' = "propose" /\ at' = 1 /\ UNCHANGED <<verdict, seen, work, answer>>
          \/ End("unauthorized")
      BY <1>7 DEF AuthorizeUpdater
    <2> QED
      BY <2>1, <2>3, <2>4, Names DEF End, KeepDisk, IInv, TypeOK
  <1>8. CASE LoadProposal
    BY <1>8, Names DEF LoadProposal, See, Go, End, KeepDisk, IInv, TypeOK
  <1>9. CASE StartUpdater
    BY <1>9, Names DEF StartUpdater, Go, CostTotals, IInv, TypeOK
  <1>10. CASE UpdaterReturns
    <2>1. spent.open > 0
      BY <1>10 DEF UpdaterReturns, EndUpdater, IInv, ControlInv, LoopInv
    <2>2. spent' \in CostTotals
      BY <1>10, <2>1, CostOfEnd DEF UpdaterReturns, IInv, TypeOK
    <2> QED
      BY <1>10, <2>2 DEF UpdaterReturns, EndUpdater, IInv, TypeOK
  <1>11. CASE UpdaterFails
    <2>1. spent.open > 0
      BY <1>11 DEF UpdaterFails, EndUpdater, IInv, ControlInv, LoopInv
    <2>2. spent' \in CostTotals
      BY <1>11, <2>1, CostOfEnd DEF UpdaterFails, IInv, TypeOK
    <2>3. left' \in Nat /\ edited' \in BOOLEAN
      BY <1>11, TroublesLeft DEF UpdaterFails, IInv
    <2> QED
      BY <1>11, <2>2, <2>3, Names DEF UpdaterFails, EndUpdater, End, IInv, TypeOK
  <1>12. CASE MakeDirectory
    BY <1>12, Names DEF MakeDirectory, Go, IInv, ControlInv, LoopInv, TypeOK
  <1>13. CASE Register
    <2>1. verdict \in {"checked", "held", "refused"}
      BY <1>13 DEF Register, IInv, ControlInv, LoopInv
    <2> QED
      BY <1>13, <2>1, StatusNames DEF Register, Go, IInv, TypeOK
  <1>14. CASE PreserveRaw
    <2>1. at \in Slot
      BY <1>14 DEF PreserveRaw, IInv, ControlInv, LoopInv, Proposing
    <2> QED
      BY <1>14, <2>1 DEF PreserveRaw, See, IInv, TypeOK
  <1>15. CASE NextProposal
    <2>1. at \in Slot
      BY <1>15 DEF NextProposal, IInv, ControlInv, LoopInv, Proposing
    <2>2. at < Budget => at + 1 \in Snap
      BY <2>1, BudgetAssumption DEF Slot, Snap
    <2> QED
      BY <1>15, <2>2, Names DEF NextProposal, End, KeepDisk, IInv, TypeOK
  <1>16. CASE WritePlan
    BY <1>16, Names DEF WritePlan, WriteOnce, DiverseSubsets, Executable, Go, End, Paper, Artifact, IInv, ControlInv, LoopInv, TypeOK
  <1>17. CASE Plan
    BY <1>17, Names DEF Plan, KeepDisk, Phase, IInv, TypeOK
  <1>18. CASE StoreChild
    <2>1. PICK k : k = Job.on
      OBVIOUS
    <2>2. k \in Snap
      BY <1>18, <2>1, Names, JobKnown DEF StoreChild, Doing
    <2>3. /\ snap' = snap \/ snap' = [snap EXCEPT ![k] = "whole"]
          /\ Done \/ End("blocked")
          /\ UNCHANGED <<slot, meta, spent, base, evidence, people, troubles>>
      BY <1>18, <2>1 DEF StoreChild
    <2>4. snap' \in [Snap -> {"none", "partial", "whole"}]
      BY <2>2, <2>3 DEF IInv, TypeOK
    <2>5. /\ pc' \in {"idle", pc} /\ at' \in {0, at} /\ verdict' \in {"none", verdict}
          /\ seen' \in {{}, seen} /\ answer' \in {"blocked", answer}
      BY <2>3 DEF Done, End
    <2>6. UNCHANGED <<slot, meta, spent, base, batch, whole, broken, says, auth, rev, live,
                      edited, left>>
      BY <2>3 DEF evidence, people, troubles
    <2>7. at' \in Snap /\ seen' \subseteq Slot
      BY <2>5, Names DEF IInv, TypeOK
    <2>8. /\ pc' \in {"idle", "again", "baseline", "source", "diagnose", "authorize", "propose",
                      "updating", "register", "event", "metadata", "choose", "planned"}
                        \union Phase
          /\ verdict' \in {"none", "checked", "held", "refused"}
          /\ answer' \in {"none", "unauthorized", "blocked", "drifted", "held", "failed",
                          "exhausted", "died", "decided"}
      BY <2>5 DEF IInv, TypeOK
    <2> QED
      BY <2>4, <2>6, <2>7, <2>8 DEF IInv, TypeOK
  <1>19. CASE WriteLifecycle
    <2>1. <<Job.name, Job.on>> \in Paper
      BY <1>19, JobKnown DEF WriteLifecycle, Doing, Paper
    <2>2. whole' \subseteq Paper /\ says' = says
      BY <1>19, <2>1 DEF WriteLifecycle, WriteOnce, IInv, TypeOK
    <2>3. UNCHANGED <<registry, batch, broken, people, troubles>>
      BY <1>19 DEF WriteLifecycle, WriteOnce
    <2>4. Stay \/ End("blocked")
      BY <1>19 DEF WriteLifecycle, WriteOnce
    <2> QED
      BY <2>2, <2>3, <2>4, Names DEF Stay, End, IInv, TypeOK
  <1>20. CASE SealArtifact
    <2>1. CASE Refused
      BY <1>20, <2>1, Names DEF SealArtifact, End, KeepDisk, IInv, TypeOK
    <2>2. CASE ~Refused
      <3>1. WriteOnce(<<Job.name, 0>>, Same, Content, Done)
        BY <1>20, <2>2 DEF SealArtifact
      <3>2. <<Job.name, 0>> \in Paper
        BY <1>20, JobKnown DEF SealArtifact, Doing, Paper
      <3>3. whole' \subseteq Paper /\ says' \in {says, Content}
        BY <3>1, <3>2 DEF WriteOnce, IInv, TypeOK
      <3>4. Job.name = "selection" => Native \in Snap /\ Governed \in Snap
        <4>1. ASSUME Job.name = "selection" PROVE Native \in Snap /\ Governed \in Snap
          BY <1>20, <4>1, Selected, Names DEF SealArtifact, Doing
        <4> QED
          BY <4>1
      <3>5. Content \in [plan : SUBSET Slot, native : Snap, governed : Snap, ablation : 0..2,
                         cost : CostTotals]
        <4> DEFINE R == [plan : SUBSET Slot, native : Snap, governed : Snap, ablation : 0..2,
                         cost : CostTotals]
        <4>1. says \in R /\ rev \in 0..2 /\ spent \in CostTotals
          BY DEF IInv, TypeOK
        <4>2. CASE Job.name = "selection"
          BY <3>4, <4>1, <4>2 DEF Content
        <4>3. CASE Job.name = "ablation"
          BY <4>1, <4>3 DEF Content
        <4>4. CASE Job.name = "hold"
          BY <4>1, <4>4 DEF Content
        <4>5. CASE Job.name \notin {"selection", "ablation", "hold"}
          BY <4>1, <4>5 DEF Content
        <4> QED
          BY <4>2, <4>3, <4>4, <4>5
      <3>6. UNCHANGED <<registry, batch, broken, people, troubles>>
        BY <3>1 DEF WriteOnce
      <3>7. Done \/ End("blocked")
        BY <3>1 DEF WriteOnce
      <3> QED
        <4>1. says' \in [plan : SUBSET Slot, native : Snap, governed : Snap, ablation : 0..2,
                          cost : CostTotals]
          BY <3>3, <3>5 DEF IInv, TypeOK
        <4>2. /\ pc' \in {"idle", pc} /\ at' \in {0, at} /\ verdict' \in {"none", verdict}
              /\ seen' \in {{}, seen} /\ answer' \in {"blocked", answer}
          BY <3>7 DEF Done, End
        <4>3. UNCHANGED <<slot, meta, spent, snap, base, batch, broken, auth, rev, live,
                          edited, left>>
          BY <3>6 DEF registry, people, troubles
        <4>4. at' \in Snap /\ seen' \subseteq Slot
          BY <4>2, Names DEF IInv, TypeOK
        <4>5. /\ pc' \in {"idle", "again", "baseline", "source", "diagnose", "authorize", "propose",
                          "updating", "register", "event", "metadata", "choose", "planned"}
                            \union Phase
              /\ verdict' \in {"none", "checked", "held", "refused"}
              /\ answer' \in {"none", "unauthorized", "blocked", "drifted", "held", "failed",
                              "exhausted", "died", "decided"}
          BY <4>2 DEF IInv, TypeOK
        <4> QED
          BY <3>3, <4>1, <4>3, <4>4, <4>5 DEF IInv, TypeOK
    <2> QED
      BY <2>1, <2>2
  <1>21. CASE BranchHold
    BY <1>21, Names DEF BranchHold, NextPhase, KeepDisk, Phase, IInv, TypeOK
  <1>22. CASE BranchRelease
    BY <1>22, Names DEF BranchRelease, NextPhase, KeepDisk, Phase, IInv, TypeOK
  <1>23. CASE Conclude
    BY <1>23, Names DEF Conclude, NextPhase, KeepDisk, Phase, IInv, TypeOK
  <1>24. CASE Decided
    BY <1>24, Names DEF Decided, End, KeepDisk, IInv, TypeOK
  <1>25. CASE AuthorizePreRelease
    BY <1>25, Names DEF AuthorizePreRelease, IInv, TypeOK
  <1>26. CASE AuthorizeRelease
    BY <1>26, Names DEF AuthorizeRelease, IInv, TypeOK
  <1>27. CASE EditSource
    BY <1>27, Names, TroublesLeft DEF EditSource, IInv, TypeOK
  <1>34. CASE EditHarness
    BY <1>34, Names, TroublesLeft DEF EditHarness, IInv, TypeOK
  <1>28. CASE Interrupt
    BY <1>28, Names, TroublesLeft DEF Interrupt, End, KeepDisk, IInv, TypeOK
  <1>29. CASE SourceBatch
    <2> DEFINE s == "update_source"
               k == 0
    <2>0. s \in Stage /\ k \in Snap /\ CompletedStage(s, k, Go("diagnose"))
      BY <1>29, Names DEF SourceBatch
    <2> HIDE DEF s, k
    <2>1. CASE RunStage(s, k, Go("diagnose"))
      <3>1. PayBatch(s, k, {}) /\ batch[<<s, k>>] = "none"
        BY <2>1 DEF RunStage
      <3>2. /\ batch' \in [Stage \X Snap ->
                {"none", "hold", "inexact", "complete", "better", "same", "pass", "weak"}]
            /\ left' \in Nat /\ edited' \in BOOLEAN
        BY <2>0, <3>1, Paying DEF IInv
      <3>3. UNCHANGED <<registry, whole, broken, says, people>>
        BY <2>1 DEF RunStage
      <3>4. End("held") \/ Go("diagnose")
        BY <2>1 DEF RunStage
      <3> QED
        BY <3>2, <3>3, <3>4, Names DEF End, Go, IInv, TypeOK
    <2>2. CASE ReuseStage(s, k, Go("diagnose"))
      <3>1. (End("held") \/ Go("diagnose")) /\ KeepDisk /\ UNCHANGED <<people, troubles>>
        BY <2>2 DEF ReuseStage
      <3> QED
        BY <3>1, Names DEF End, Go, KeepDisk, IInv, TypeOK
    <2>3. CASE RefuseStage(s, k)
      BY <2>3, Names DEF RefuseStage, End, KeepDisk, IInv, TypeOK
    <2> QED
      BY <2>0, <2>1, <2>2, <2>3 DEF CompletedStage
  <1>30. CASE RunBatch
    <2> DEFINE s == Job.name
               k == Job.on
    <2>0. s \in Stage /\ k \in Snap /\ CompletedStage(s, k, Done)
      BY <1>30, Names, JobKnown DEF RunBatch, Doing, AnyJob
    <2> HIDE DEF s, k
    <2>1. CASE RunStage(s, k, Done)
      <3>1. PayBatch(s, k, {}) /\ batch[<<s, k>>] = "none"
        BY <2>1 DEF RunStage
      <3>2. /\ batch' \in [Stage \X Snap ->
                {"none", "hold", "inexact", "complete", "better", "same", "pass", "weak"}]
            /\ left' \in Nat /\ edited' \in BOOLEAN
        BY <2>0, <3>1, Paying DEF IInv
      <3>3. UNCHANGED <<registry, whole, broken, says, people>>
        BY <2>1 DEF RunStage
      <3>4. End("held") \/ Done
        BY <2>1 DEF RunStage
      <3> QED
        BY <3>2, <3>3, <3>4, Names DEF End, Done, IInv, TypeOK
    <2>2. CASE ReuseStage(s, k, Done)
      <3>1. (End("held") \/ Done) /\ KeepDisk /\ UNCHANGED <<people, troubles>>
        BY <2>2 DEF ReuseStage
      <3> QED
        BY <3>1, Names DEF End, Done, KeepDisk, IInv, TypeOK
    <2>3. CASE RefuseStage(s, k)
      BY <2>3, Names DEF RefuseStage, End, KeepDisk, IInv, TypeOK
    <2> QED
      BY <2>0, <2>1, <2>2, <2>3 DEF CompletedStage
  <1>31. CASE Transition
    <2>1. Job.name \in Status /\ Job.on \in Slot
      BY <1>31, JobKnown DEF Transition, Doing
    <2>2. /\ slot' = slot \/ slot' = [slot EXCEPT ![Job.on] = Job.name]
          /\ Done \/ End("blocked")
          /\ UNCHANGED <<meta, spent, snap, base, evidence, people, troubles>>
      BY <1>31 DEF Transition
    <2>3. slot' \in [Slot -> {"none", "partial", "refusing", "refused"} \union Status]
      BY <2>1, <2>2 DEF IInv, TypeOK
    <2>4. /\ pc' \in {"idle", pc} /\ at' \in {0, at} /\ verdict' \in {"none", verdict}
          /\ seen' \in {{}, seen} /\ answer' \in {"blocked", answer}
      BY <2>2 DEF Done, End
    <2>5. UNCHANGED <<meta, spent, snap, base, batch, whole, broken, says, auth, rev, live,
                      edited, left>>
      BY <2>2 DEF evidence, people, troubles
    <2>6. at' \in Snap /\ seen' \subseteq Slot
      BY <2>4, Names DEF IInv, TypeOK
    <2>7. /\ pc' \in {"idle", "again", "baseline", "source", "diagnose", "authorize", "propose",
                      "updating", "register", "event", "metadata", "choose", "planned"}
                        \union Phase
          /\ verdict' \in {"none", "checked", "held", "refused"}
          /\ answer' \in {"none", "unauthorized", "blocked", "drifted", "held", "failed",
                          "exhausted", "died", "decided"}
      BY <2>4 DEF IInv, TypeOK
    <2> QED
      BY <2>3, <2>5, <2>6, <2>7 DEF IInv, TypeOK
  <1>32. CASE Tear
    <2>1. left' \in Nat /\ edited' \in BOOLEAN
      BY <1>32, TroublesLeft DEF Tear, IInv
    <2>2. End("died") /\ UNCHANGED <<meta, spent, base, batch, whole, says, people>>
      BY <1>32 DEF Tear
    <2>3. CASE TearPaper
      <3>1. Pending \subseteq Paper
        <4>1. \A k : (Doing("advance") \/ Doing("seal")) => <<Job.name, Job.on>> \in Paper
          BY JobKnown DEF Doing, Paper
        <4> QED
          BY <4>1, JobKnown DEF Pending, Paper, Artifact, Doing
      <3>2. broken' \subseteq Paper /\ UNCHANGED <<slot, snap>>
        BY <2>3, <3>1 DEF TearPaper, IInv, TypeOK
      <3> QED
        BY <2>1, <2>2, <3>2, Names DEF End, IInv, TypeOK
    <2>4. CASE TearSnapshot
      <3>1. /\ snap' \in [Snap -> {"none", "partial", "whole"}]
            /\ UNCHANGED <<slot, broken>>
        BY <2>4 DEF TearSnapshot, IInv, TypeOK
      <3> QED
        BY <2>1, <2>2, <3>1, Names DEF End, IInv, TypeOK
    <2>5. CASE TearEvent
      <3>1. /\ slot' \in [Slot -> {"none", "partial", "refusing", "refused"} \union Status]
            /\ UNCHANGED <<snap, broken>>
        BY <2>5 DEF TearEvent, IInv, TypeOK
      <3> QED
        BY <2>1, <2>2, <3>1, Names DEF End, IInv, TypeOK
    <2> QED
      BY <1>32, <2>3, <2>4, <2>5 DEF Tear
  <1>33. ASSUME NEW s \in Stage, NEW k \in Snap, StageCommand(s, k) PROVE TypeOK'
    <2>1. PayBatch(s, k, {"stage"}) /\ batch[<<s, k>>] = "none"
      BY <1>33 DEF StageCommand
    <2>2. /\ batch' \in [Stage \X Snap ->
              {"none", "hold", "inexact", "complete", "better", "same", "pass", "weak"}]
          /\ left' \in Nat /\ edited' \in BOOLEAN
      BY <2>1, Paying DEF IInv
    <2>3. UNCHANGED <<registry, whole, broken, says, people, pc, local, answer>>
      BY <1>33 DEF StageCommand
    <2> QED
      BY <2>2, <2>3 DEF IInv, TypeOK
  <1> QED
    BY <1>1, <1>2, <1>3, <1>4, <1>5, <1>6, <1>7, <1>8, <1>9, <1>10, <1>11, <1>12, <1>13, <1>14, <1>15, <1>16, <1>17, <1>18, <1>19, <1>20, <1>21, <1>22, <1>23, <1>24, <1>25, <1>26, <1>27, <1>28, <1>29, <1>30, <1>31, <1>32, <1>33, <1>34
       DEF Next, Command, Propose, Evaluate, People

-----------------------------------------------------------------------------
(* What never goes away.                                                   *)

(* Whole snapshots, sealed batches, papers and the metadata of proposals   *)
(* stay.                                                                   *)
Grow ==
    /\ \A k \in Snap : snap[k] = "whole" => snap'[k] = "whole"
    /\ \A b \in Stage \X Snap : batch[b] # "none" => batch'[b] = batch[b]
    /\ whole \subseteq whole' /\ broken \subseteq broken' /\ meta \subseteq meta'

(* A job of the work, and one that leaves no final status.                 *)
KnownJob(j) == j.on \in Snap /\ (j.do = "batch" => j.name \in Stage)
PassingJob(j) == KnownJob(j) /\ (j.do = "advance" => j.name \notin Final)

(* What a job left stays, unless it left a final status that changes.      *)
LEMMA EffectStays ==
    ASSUME Grow, NEW j, KnownJob(j), Effect(j),
           (j.do = "advance" /\ j.name \in Final) => slot'[j.on] = slot[j.on]
    PROVE  Effect(j)'
  <1>1. j.on \in Snap /\ (j.do = "batch" => <<j.name, j.on>> \in Stage \X Snap)
    BY DEF KnownJob
  <1>2. j.do = "store" => snap'[j.on] = "whole"
    BY <1>1 DEF Grow, Effect
  <1>3. j.do = "seal" => <<j.name, 0>> \in whole'
    BY DEF Grow, Effect
  <1>4. (j.do = "advance" /\ j.name \in Final) => slot'[j.on] = j.name
    BY DEF Effect
  <1>5. j.do = "batch" => batch'[<<j.name, j.on>>] \notin {"none", "hold"}
    BY <1>1 DEF Grow, Effect
  <1> QED
    BY <1>2, <1>3, <1>4, <1>5 DEF Effect

(* The evaluation and the release leave no final status.                   *)
LEMMA PassingJobs ==
    ASSUME TypeOK
    PROVE  /\ \A j \in EvaluationJobs : PassingJob(j)
           /\ \A j \in ReleaseJobs : PassingJob(j)
           /\ \A j \in HoldJobs : KnownJob(j)
           /\ \A j \in DecisionJobs : KnownJob(j)
  <1>1. Chosen \subseteq Slot /\ Roles \subseteq Snap
    BY DEF TypeOK, Chosen, Roles
  <1>2. ASSUME NEW j \in EvaluationJobs PROVE PassingJob(j)
    BY <1>1, <1>2, Names
       DEF EvaluationJobs, PassingJob, KnownJob, Store, Batch, Advance, Seal, Final
  <1>3. ASSUME NEW j \in ReleaseJobs PROVE PassingJob(j)
    BY <1>1, <1>3, Names DEF ReleaseJobs, PassingJob, KnownJob, Batch, Advance, Seal, Final
  <1>4. ASSUME NEW j \in HoldJobs PROVE KnownJob(j)
    BY <1>1, <1>4, Names DEF HoldJobs, KnownJob, Advance, Seal
  <1>5. ASSUME NEW j \in DecisionJobs PROVE KnownJob(j)
    BY <1>1, <1>5, Names DEF DecisionJobs, KnownJob, Advance, Seal
  <1> QED
    BY <1>2, <1>3, <1>4, <1>5

(* What the evaluation and the release left stays while the plan and the   *)
(* selection say the same.                                                 *)
LEMMA PassedStays ==
    ASSUME TypeOK, Grow
    PROVE  /\ (says'.plan = says.plan /\ \A j \in EvaluationJobs : Effect(j))
                  => (\A j \in EvaluationJobs : Effect(j))'
           /\ (says'.native = says.native /\ says'.governed = says.governed
                 /\ \A j \in ReleaseJobs : Effect(j))
                  => (\A j \in ReleaseJobs : Effect(j))'
  <1>1. ASSUME says'.plan = says.plan, \A j \in EvaluationJobs : Effect(j)
        PROVE  (\A j \in EvaluationJobs : Effect(j))'
    <2>1. EvaluationJobs' = EvaluationJobs
      BY <1>1 DEF EvaluationJobs, Chosen, Store, Batch, Advance, Seal
    <2>2. ASSUME NEW j \in EvaluationJobs PROVE Effect(j)'
      BY <1>1, <2>2, PassingJobs, EffectStays DEF PassingJob
    <2> QED
      BY <2>1, <2>2
  <1>2. ASSUME says'.native = says.native, says'.governed = says.governed,
               \A j \in ReleaseJobs : Effect(j)
        PROVE  (\A j \in ReleaseJobs : Effect(j))'
    <2>1. ReleaseJobs' = ReleaseJobs
      BY <1>2 DEF ReleaseJobs, Roles, Batch, Advance, Seal
    <2>2. ASSUME NEW j \in ReleaseJobs PROVE Effect(j)'
      BY <1>2, <2>2, PassingJobs, EffectStays DEF PassingJob
    <2> QED
      BY <2>1, <2>2
  <1> QED
    BY <1>1, <1>2

(* With the release batches sealed the decisions stand.                    *)
LEMMA DecisionStays ==
    ASSUME TypeOK, Grow, NEW k \in Snap, \A s \in Release : batch[<<s, k>>] # "none"
    PROVE  Decision(k)' = Decision(k)
  <1>1. \A s \in Release : batch'[<<s, k>>] = batch[<<s, k>>]
    BY Names DEF Grow
  <1> QED
    BY <1>1 DEF Decision

(* After the release all its batches are there.                            *)
LEMMA ReleaseSealed ==
    ASSUME TypeOK, \A j \in ReleaseJobs : Effect(j)
    PROVE  \A s \in Release, k \in {0} \union Roles : batch[<<s, k>>] \notin {"none", "hold"}
  <1> SUFFICES ASSUME NEW s \in Release, NEW k \in {0} \union Roles
               PROVE  batch[<<s, k>>] \notin {"none", "hold"}
    OBVIOUS
  <1>1. Batch(s, k) \in ReleaseJobs
    BY DEF ReleaseJobs
  <1> QED
    BY <1>1 DEF Effect, Batch

(* The phases keep their jobs while nothing they go by changes.            *)
LEMMA JobsStay ==
    ASSUME IInv, Grow, pc \in Phase, pc' = pc,
           says'.plan = says.plan,
           pc \in {"release", "decision"} =>
               says'.native = says.native /\ says'.governed = says.governed
    PROVE  JobsOf(pc)' = JobsOf(pc)
  <1>1. CASE pc = "evaluation"
    BY <1>1 DEF JobsOf, EvaluationJobs, Chosen, Store, Batch, Advance, Seal
  <1>2. CASE pc = "hold"
    BY <1>2 DEF JobsOf, HoldJobs, Chosen, Advance, Seal
  <1>3. CASE pc = "release"
    BY <1>3 DEF JobsOf, ReleaseJobs, Roles, Batch, Advance, Seal
  <1>4. CASE pc = "decision"
    <2>1. Roles' = Roles /\ Roles \subseteq Snap
      BY <1>4 DEF Roles, IInv, TypeOK
    <2>2. \A k \in Roles : \A s \in Release : batch[<<s, k>>] # "none"
      BY <1>4, ReleaseSealed DEF IInv, ControlInv, PastInv
    <2>3. \A k \in Roles : Decision(k)' = Decision(k)
      BY <2>1, <2>2, DecisionStays DEF IInv
    <2>4. {Advance(k, Decision(k)) : k \in Roles}' = {Advance(k, Decision(k)) : k \in Roles}
      BY <2>1, <2>3 DEF Advance
    <2> QED
      BY <1>4, <2>4 DEF JobsOf, DecisionJobs, Seal
  <1> QED
    BY <1>1, <1>2, <1>3, <1>4 DEF Phase

(* A sealed outcome stays backed by all that does not go away.             *)
LEMMA BackedStays ==
    ASSUME IInv, Grow, <<"outcome", 0>> \in whole, says' = says, broken' \intersect whole' = {},
           \A k \in Roles : slot'[k] \in {slot[k], "partial", Decision(k)}
    PROVE  OutcomeIsBacked'
  <1>1. OutcomeStands /\ \A k \in Roles : slot[k] = Decision(k) \/ slot[k] = "partial"
    BY DEF IInv, DiskInv, OutcomeIsBacked
  <1>2. Roles \subseteq Snap /\ Roles' = Roles /\ Chosen' = Chosen /\ Chosen \subseteq Snap
    BY Names DEF IInv, TypeOK, Roles, Chosen
  <1>3. ASSUME NEW S \in SUBSET Snap, NEW T \in SUBSET Stage, BatchesOf(S, T)
        PROVE  BatchesOf(S, T)'
    BY <1>3 DEF BatchesOf, Grow
  <1>4. OutcomeStands'
    <2>1. <<"outcome", 0>> \notin broken'
      BY DEF Grow
    <2>2. ({"lineage", "native", "agentloopgate", "roles", "analysis", "ablation", "report"}
               \X {0}) \subseteq whole'
      BY <1>1 DEF Grow, OutcomeStands
    <2>3. BatchesOf({0}, {"update_source"})'
      BY <1>1, <1>3, Names DEF OutcomeStands
    <2>4. BatchesOf({0} \union Chosen, {"update_check", "selection"})'
      <3>1. BatchesOf({0} \union Chosen, {"update_check", "selection"})
            /\ {0} \union Chosen \subseteq Snap /\ {"update_check", "selection"} \subseteq Stage
        BY <1>1, <1>2, Names DEF OutcomeStands
      <3> QED
        BY <1>2, <3>1 DEF BatchesOf, Grow
    <2>5. BatchesOf({0} \union Roles, Release)'
      <3>1. BatchesOf({0} \union Roles, Release)
            /\ {0} \union Roles \subseteq Snap /\ Release \subseteq Stage
        BY <1>1, <1>2, Names DEF OutcomeStands
      <3> QED
        BY <1>2, <3>1 DEF BatchesOf, Grow
    <2>6. \A k \in Chosen' : snap'[k] = "whole"
      BY <1>1, <1>2 DEF OutcomeStands, Grow
    <2> QED
      BY <2>1, <2>2, <2>3, <2>4, <2>5, <2>6 DEF OutcomeStands
  <1>5. \A k \in Roles : Decision(k)' = Decision(k)
    <2>1. \A k \in Roles : \A s \in Release : batch[<<s, k>>] # "none"
      BY <1>1 DEF OutcomeStands, BatchesOf
    <2> QED
      BY <1>2, <2>1, DecisionStays DEF IInv
  <1> QED
    BY <1>1, <1>2, <1>4, <1>5 DEF OutcomeIsBacked

-----------------------------------------------------------------------------
(* Kinds of steps.                                                         *)

(* The disk, when no paper is written and slots only tear.                 *)
LEMMA DiskStays ==
    ASSUME IInv, Grow, UNCHANGED <<meta, whole, says>>, broken' \intersect whole' = {},
           slot' = slot \/ \E k \in Slot : /\ slot[k] # "none"
                                           /\ slot' = [slot EXCEPT ![k] = "partial"],
           spent' = spent \/ pc \in {"propose", "updating"}
    PROVE  DiskInv'
  <1>1. \A k \in Slot : slot'[k] = slot[k] \/ (slot'[k] = "partial" /\ slot[k] # "none")
    BY DEF IInv, TypeOK
  <1>2. SlotInv'
    BY <1>1, Names DEF IInv, DiskInv, SlotInv, TypeOK
  <1>3. PlanInv'
    BY DEF IInv, DiskInv, PlanInv, Chosen, Diverse
  <1>4. HoldCostStands'
    <2>1. <<"hold", 0>> \in whole => spent' = spent
      BY DEF IInv, ControlInv, EndInv, Written
    <2> QED
      BY <2>1 DEF IInv, DiskInv, HoldCostStands
  <1>5. OutcomeIsBacked'
    <2>1. CASE <<"outcome", 0>> \in whole
      <3>1. Roles \subseteq Slot
        <4>1. <<"selection", 0>> \in whole /\ says.governed # 0
          BY <2>1 DEF IInv, DiskInv, PlanInv
        <4> QED
          BY <4>1, RolesAreSlots DEF IInv, DiskInv
      <3> QED
        BY <1>1, <2>1, <3>1, BackedStays
    <2>2. CASE <<"outcome", 0>> \notin whole
      BY <2>2 DEF OutcomeIsBacked
    <2> QED
      BY <2>1, <2>2
  <1> QED
    BY <1>2, <1>3, <1>4, <1>5 DEF DiskInv

(* A command that ends leaves nothing to be said about where it is.        *)
LEMMA Ended ==
    ASSUME NEW why, End(why)
    PROVE  ControlInv'
  BY DEF End, ControlInv, LoopInv, PastInv, WorkInv, EndInv, Proposing, AfterPlan, Phase

(* A step beside the command: a person's, or a batch of another command.   *)
LEMMA BesideStep ==
    ASSUME IInv, Grow, UNCHANGED <<slot, meta, spent, whole, broken, says, pc, local>>
    PROVE  DiskInv' /\ ControlInv'
  <1>1. DiskInv'
    BY DiskStays DEF IInv, DiskInv
  <1>2. LoopInv'
    BY DEF IInv, ControlInv, LoopInv, Enough, Executable, Diverse, local
  <1>3. PastInv'
    <2>1. \A k \in Snap : snap[k] = "whole" => snap'[k] = "whole"
      BY DEF Grow
    <2>2. batch[<<"update_source", 0>>] \notin {"none", "hold"}
              => batch'[<<"update_source", 0>>] \notin {"none", "hold"}
      BY Names DEF Grow
    <2>3. /\ (\A j \in EvaluationJobs : Effect(j)) => (\A j \in EvaluationJobs : Effect(j))'
          /\ (\A j \in ReleaseJobs : Effect(j)) => (\A j \in ReleaseJobs : Effect(j))'
      BY PassedStays DEF IInv
    <2> QED
      BY <2>1, <2>2, <2>3, Names DEF IInv, ControlInv, PastInv
  <1>4. WorkInv'
    <2>1. CASE pc \in Phase
      <3>1. JobsOf(pc)' = JobsOf(pc)
        BY <2>1, JobsStay
      <3>2. ASSUME NEW j \in JobsOf(pc), Effect(j) PROVE Effect(j)'
        <4>1. KnownJob(j)
          BY <2>1, PassingJobs DEF IInv, JobsOf, PassingJob, Phase
        <4> QED
          BY <3>2, <4>1, EffectStays
      <3> QED
        BY <2>1, <3>1, <3>2 DEF IInv, ControlInv, WorkInv, EndsWith, local
    <2>2. CASE pc \notin Phase
      BY <2>2 DEF IInv, ControlInv, WorkInv, local
    <2> QED
      BY <2>1, <2>2
  <1>5. EndInv'
    BY DEF IInv, ControlInv, EndInv, Written
  <1> QED
    BY <1>1, <1>2, <1>3, <1>4, <1>5 DEF ControlInv

(* A job that is done has had its effect, and the others keep theirs.      *)
LEMMA JobDone ==
    ASSUME IInv, pc \in Phase, work # <<>>, pc' = pc, work' = Tail(work),
           JobsOf(pc)' = JobsOf(pc), NEW job, job = Job, Effect(job)',
           \A j \in JobsOf(pc) : Effect(j) => Effect(j)'
    PROVE  WorkInv'
  <1>1. /\ work \in Seq(AnyJob) /\ Range(work) \subseteq JobsOf(pc)
        /\ \A j \in JobsOf(pc) : j \in Range(work) \/ Effect(j)
        /\ pc # "release" => EndsWith(work, LastSeal(pc))
    BY DEF IInv, ControlInv, WorkInv
  <1>2. /\ Tail(work) \in Seq(AnyJob)
        /\ Range(work) = {Job} \union Range(Tail(work))
        /\ \A a : EndsWith(work, a) => EndsWith(Tail(work), a)
    BY <1>1, TailOfQueue DEF Job
  <1>3. \A j \in JobsOf(pc) : j \in Range(Tail(work)) \/ Effect(j)'
    BY <1>1, <1>2
  <1>4. pc # "release" => EndsWith(Tail(work), LastSeal(pc))
    BY <1>1, <1>2
  <1>5. /\ (Range(work) \subseteq JobsOf(pc))' /\ (pc # "release" => EndsWith(work, LastSeal(pc)))'
        /\ (\A j \in JobsOf(pc) : j \in Range(work) \/ Effect(j))'
    <2>1. Range(work)' = Range(Tail(work))
      BY DEF Range
    <2>2. (EndsWith(work, LastSeal(pc)))' <=> EndsWith(Tail(work), LastSeal(pc))
      BY DEF EndsWith, LastSeal
    <2> QED
      BY <1>1, <1>2, <1>3, <1>4, <2>1, <2>2
  <1> QED
    BY <1>2, <1>5 DEF WorkInv

-----------------------------------------------------------------------------
(* Before and in the loop over the proposals.                              *)

(* A step that writes no file leaves the disk as it was.                   *)
LEMMA SameDisk ==
    ASSUME IInv, KeepDisk
    PROVE  Grow /\ DiskInv'
  <1>1. UNCHANGED <<slot, meta, spent, snap, batch, whole, broken, says>>
    BY DEF KeepDisk, registry, evidence
  <1>2. Grow
    BY <1>1 DEF Grow
  <1> QED
    BY <1>1, <1>2, DiskStays DEF IInv, DiskInv

(* While the command works, no file that ends the experiment is there but  *)
(* in the phases that write them.                                          *)
LEMMA NotOver ==
    ASSUME IInv, pc \notin {"idle", "again", "hold", "decision"}
    PROVE  ~Written(<<"hold", 0>>) /\ ~Written(<<"outcome", 0>>)
  BY DEF IInv, ControlInv, EndInv

(* Steps of the command before its phases.                                 *)
LEMMA EarlyStep ==
    ASSUME IInv, Grow, pc \notin Phase \union {"idle", "again"},
           pc' \in {"source", "diagnose", "authorize", "planned"} \union Proposing,
           work' = work, broken' = broken,
           whole' \subseteq whole \union {<<"diagnosis", 0>>, <<"plan", 0>>},
           pc = "baseline" => snap'[0] = "whole" /\ pc' = "source",
           pc = "source" => batch'[<<"update_source", 0>>] \notin {"none", "hold"},
           pc' = "planned" => <<"plan", 0>> \in whole'
    PROVE  PastInv' /\ WorkInv' /\ EndInv'
  <1>1. pc' \notin Phase /\ pc' \notin {"idle", "again", "baseline"}
    BY DEF Phase, Proposing
  <1>2. PastInv'
    <2>1. snap'[0] = "whole"
      BY Names DEF IInv, ControlInv, PastInv, Grow
    <2>2. pc' # "source" => batch'[<<"update_source", 0>>] \notin {"none", "hold"}
      BY Names DEF IInv, ControlInv, PastInv, Grow
    <2>3. pc' \in AfterPlan => <<"plan", 0>> \in whole'
      BY <1>1 DEF AfterPlan
    <2> QED
      BY <1>1, <2>1, <2>2, <2>3 DEF PastInv, Phase
  <1>3. WorkInv'
    BY <1>1 DEF IInv, ControlInv, WorkInv
  <1>4. EndInv'
    <2>1. ~Written(<<"hold", 0>>) /\ ~Written(<<"outcome", 0>>)
      BY NotOver DEF Phase
    <2> QED
      BY <2>1 DEF EndInv, Written
  <1> QED
    BY <1>2, <1>3, <1>4

(* A paper that says nothing the invariant is about.                       *)
LEMMA PaperStep ==
    ASSUME IInv, NEW a \in Artifact \X {0} \union Status \X Slot,
           a \notin {<<"plan", 0>>, <<"selection", 0>>, <<"outcome", 0>>, <<"hold", 0>>},
           ~Written(a), whole' = whole \union {a},
           says' = says \/ (/\ <<"outcome", 0>> \notin whole
                            /\ says' = [says EXCEPT !.ablation = rev]),
           UNCHANGED <<slot, meta, spent, snap, batch, broken>>
    PROVE  Grow /\ DiskInv'
  <1>1. Grow
    BY DEF Grow
  <1>2. /\ Chosen' = Chosen /\ says'.native = says.native /\ says'.governed = says.governed
        /\ says'.cost = says.cost
    BY DEF IInv, TypeOK, Chosen
  <1>3. SlotInv' /\ (broken \intersect whole = {})'
    BY DEF IInv, DiskInv, SlotInv, Written
  <1>4. PlanInv' /\ HoldCostStands'
    BY <1>2 DEF IInv, DiskInv, PlanInv, HoldCostStands, Diverse
  <1>5. OutcomeIsBacked'
    <2>1. CASE <<"outcome", 0>> \in whole
      BY <1>1, <1>3, <2>1, BackedStays
    <2>2. CASE <<"outcome", 0>> \notin whole
      BY <2>2 DEF OutcomeIsBacked
    <2> QED
      BY <2>1, <2>2
  <1> QED
    BY <1>1, <1>3, <1>4, <1>5 DEF DiskInv

(* The slot of the moment and its metadata change.                         *)
LEMMA SlotStep ==
    ASSUME IInv, pc \in Proposing, UNCHANGED <<spent, snap, batch, whole, broken, says>>,
           meta \subseteq meta', meta' \subseteq meta \union {at},
           NEW v \in {"partial", "refusing", "refused"} \union Status,
           slot' = [slot EXCEPT ![at] = v],
           at \in meta' => v \in Status
    PROVE  Grow /\ DiskInv'
  <1>1. Grow
    BY DEF Grow
  <1>2. at \in Slot /\ ~Written(<<"hold", 0>>) /\ ~Written(<<"outcome", 0>>)
    BY NotOver DEF IInv, ControlInv, LoopInv, Proposing
  <1>3. /\ \A k \in Slot : k # at => slot'[k] = slot[k]
        /\ slot'[at] = v /\ v # "none"
    BY <1>2, StatusNames DEF IInv, TypeOK
  <1>4. SlotInv'
    <2>1. \A k \in Slot : k < at => slot[k] # "none"
      <3>1. \A k \in Slot : k < at => k \in seen \/ slot[k] = "refused"
        BY DEF IInv, ControlInv, LoopInv
      <3>2. \A k \in seen : slot[k] \in Status
        BY DEF IInv, ControlInv, LoopInv
      <3> QED
        BY <3>1, <3>2, StatusNames
    <2>2. \A j, k \in Slot : j < k /\ slot[k] # "none" => slot[j] # "none"
      BY DEF IInv, DiskInv, SlotInv
    <2>3. \A j, k \in Slot : j < k /\ slot'[k] # "none" => slot'[j] # "none"
      BY <1>3, <2>1, <2>2
    <2>4. \A k \in meta' : slot'[k] \in Status \union {"partial"}
      BY <1>3 DEF IInv, DiskInv, SlotInv, TypeOK
    <2> QED
      BY <2>3, <2>4 DEF SlotInv
  <1>5. PlanInv'
    BY DEF IInv, DiskInv, PlanInv, Chosen, Diverse
  <1>6. HoldCostStands' /\ OutcomeIsBacked' /\ (broken \intersect whole = {})'
    BY <1>2 DEF IInv, DiskInv, HoldCostStands, OutcomeIsBacked, Written
  <1> QED
    BY <1>1, <1>4, <1>5, <1>6 DEF DiskInv

(* The command starts, verifies an end that is there, or the baseline.     *)
LEMMA StartSteps ==
    ASSUME IInv, Start \/ StartAgain \/ VerifyAgain \/ EnsureBaseline
    PROVE  DiskInv' /\ ControlInv'
  <1>1. CASE Start
    <2>1. DiskInv'
      BY <1>1, SameDisk DEF Start
    <2>2. CASE Go("baseline")
      <3>1. pc = "idle" /\ pc' = "baseline" /\ UNCHANGED <<at, verdict, seen, work>>
        BY <1>1, <2>2 DEF Start, Go, Running, local
      <3>2. LoopInv' /\ WorkInv' /\ PastInv'
        BY <3>1 DEF IInv, ControlInv, LoopInv, WorkInv, PastInv, Proposing, AfterPlan, Phase
      <3>3. EndInv'
        BY <1>1, <3>1 DEF Start, EndInv, Written, KeepDisk, evidence
      <3> QED
        BY <2>1, <3>2, <3>3 DEF ControlInv
    <2> QED
      BY <1>1, <2>1, <2>2, Ended DEF Start
  <1>2. CASE StartAgain
    <2>1. DiskInv'
      BY <1>2, SameDisk DEF StartAgain
    <2>2. CASE Go("again")
      <3>1. pc = "idle" /\ pc' = "again" /\ UNCHANGED <<at, verdict, seen, work>>
        BY <1>2, <2>2 DEF StartAgain, Go, Running, local
      <3>2. LoopInv' /\ WorkInv' /\ PastInv' /\ EndInv'
        BY <3>1
           DEF IInv, ControlInv, LoopInv, WorkInv, PastInv, EndInv, Proposing, AfterPlan, Phase
      <3> QED
        BY <2>1, <3>2 DEF ControlInv
    <2> QED
      BY <1>2, <2>1, <2>2, Ended DEF StartAgain
  <1>3. CASE VerifyAgain
    <2>1. DiskInv'
      BY <1>3, SameDisk DEF VerifyAgain
    <2> QED
      BY <1>3, <2>1, Ended DEF VerifyAgain
  <1>4. CASE EnsureBaseline
    <2>1. UNCHANGED <<slot, meta, spent, batch, whole, broken, says>> /\ pc = "baseline"
      BY <1>4 DEF EnsureBaseline, evidence
    <2>2. Grow /\ DiskInv'
      <3>1. \A k \in Snap : snap[k] = "whole" => snap'[k] = "whole"
        BY <1>4, Names DEF EnsureBaseline, IInv, TypeOK
      <3>2. Grow
        BY <2>1, <3>1 DEF Grow
      <3> QED
        BY <2>1, <3>2, DiskStays DEF IInv, DiskInv
    <2>3. CASE Go("source")
      <3>1. pc' = "source" /\ UNCHANGED <<at, verdict, seen, work>>
        BY <2>3 DEF Go, local
      <3>2. snap'[0] = "whole"
        <4>1. snap[0] = "none" => snap' = [snap EXCEPT ![0] = "whole"]
          BY <1>4 DEF EnsureBaseline
        <4>2. snap[0] # "none" => snap' = snap
          BY <1>4 DEF EnsureBaseline
        <4>3. snap[0] # "none" => snap[0] = "whole"
          BY <1>4, <2>3 DEF EnsureBaseline, Go, End
        <4> QED
          BY <4>1, <4>2, <4>3, Names DEF IInv, TypeOK
      <3>3. PastInv' /\ WorkInv' /\ EndInv'
        BY <2>1, <2>2, <3>1, <3>2, EarlyStep DEF Phase
      <3>4. LoopInv'
        BY <2>1, <3>1 DEF IInv, ControlInv, LoopInv, Proposing
      <3> QED
        BY <2>2, <3>3, <3>4 DEF ControlInv
    <2> QED
      BY <1>4, <2>2, <2>3, Ended DEF EnsureBaseline
  <1> QED
    BY <1>1, <1>2, <1>3, <1>4

(* The first papers and the authorization, before the first proposal.      *)
LEMMA FirstSteps ==
    ASSUME IInv, Diagnose \/ AuthorizeUpdater
    PROVE  DiskInv' /\ ControlInv'
  <1>1. CASE Diagnose
    <2> DEFINE a == <<"diagnosis", 0>>
    <2>1. /\ UNCHANGED <<slot, meta, spent, snap, batch, broken, says>> /\ pc = "diagnose"
          /\ whole' = whole \/ (~Written(a) /\ whole' = whole \union {a})
      BY <1>1 DEF Diagnose, WriteOnce, registry
    <2>2. Grow /\ DiskInv'
      <3>1. CASE whole' = whole
        <4>1. Grow
          BY <2>1, <3>1 DEF Grow
        <4> QED
          BY <2>1, <3>1, <4>1, DiskStays DEF IInv, DiskInv
      <3>2. CASE ~Written(a) /\ whole' = whole \union {a}
        <4>1. a \in Artifact \X {0} \union Status \X Slot
          BY DEF Artifact
        <4>2. a \notin {<<"plan", 0>>, <<"selection", 0>>, <<"outcome", 0>>, <<"hold", 0>>}
          OBVIOUS
        <4> HIDE DEF a
        <4> QED
          BY <2>1, <3>2, <4>1, <4>2, PaperStep
      <3> QED
        BY <2>1, <3>1, <3>2
    <2>3. CASE Go("authorize")
      <3>1. pc' = "authorize" /\ UNCHANGED <<at, verdict, seen, work>>
        BY <2>3 DEF Go, local
      <3>2. PastInv' /\ WorkInv' /\ EndInv'
        BY <2>1, <2>2, <3>1, EarlyStep DEF Phase
      <3>3. LoopInv'
        BY <2>1, <3>1 DEF IInv, ControlInv, LoopInv, Proposing
      <3> QED
        BY <2>2, <3>2, <3>3 DEF ControlInv
    <2>4. Go("authorize") \/ End("blocked")
      BY <1>1 DEF Diagnose, WriteOnce
    <2> QED
      BY <2>2, <2>3, <2>4, Ended
  <1>2. CASE AuthorizeUpdater
    <2>1. pc = "authorize" /\ Grow /\ DiskInv' /\ KeepDisk
      BY <1>2, SameDisk DEF AuthorizeUpdater
    <2>2. CASE pc' = "propose" /\ at' = 1 /\ UNCHANGED <<verdict, seen, work, answer>>
      <3>1. PastInv' /\ WorkInv' /\ EndInv'
        BY <2>1, <2>2, EarlyStep DEF Phase, Proposing, KeepDisk, evidence
      <3>2. seen = {} /\ \A k \in Slot : ~(k < 1)
        BY <2>1, BudgetAssumption DEF IInv, ControlInv, LoopInv, Slot
      <3>3. LoopInv'
        BY <2>2, <3>2, Names DEF LoopInv, Proposing
      <3> QED
        BY <2>1, <3>1, <3>3 DEF ControlInv
    <2>3. CASE End("unauthorized")
      BY <2>1, <2>3, Ended
    <2> QED
      BY <1>2, <2>2, <2>3 DEF AuthorizeUpdater
  <1> QED
    BY <1>1, <1>2

(* The loop over the proposals.                                            *)
LEMMA LoopSteps ==
    ASSUME IInv, LoadProposal \/ StartUpdater \/ UpdaterReturns \/ UpdaterFails \/ NextProposal
    PROVE  DiskInv' /\ ControlInv'
  <1>1. CASE LoadProposal
    <2>1. pc = "propose" /\ Grow /\ DiskInv' /\ KeepDisk
      BY <1>1, SameDisk DEF LoadProposal
    <2>2. CASE See /\ slot[at] \in Status /\ at \in meta
      <3>1. PastInv' /\ WorkInv' /\ EndInv'
        BY <2>1, <2>2, EarlyStep DEF See, Phase, Proposing, KeepDisk, evidence
      <3>2. LoopInv'
        BY <2>1, <2>2
           DEF IInv, ControlInv, LoopInv, See, Proposing, KeepDisk, registry
      <3> QED
        BY <2>1, <3>1, <3>2 DEF ControlInv
    <2>3. CASE Go("choose") /\ slot[at] = "refused"
      <3>1. PastInv' /\ WorkInv' /\ EndInv'
        BY <2>1, <2>3, EarlyStep DEF Go, local, Phase, Proposing, KeepDisk, evidence
      <3>2. LoopInv'
        BY <2>1, <2>3
           DEF IInv, ControlInv, LoopInv, Go, local, Proposing, KeepDisk, registry
      <3> QED
        BY <2>1, <3>1, <3>2 DEF ControlInv
    <2>4. (See /\ slot[at] \in Status /\ at \in meta) \/ (Go("choose") /\ slot[at] = "refused")
            \/ End("blocked")
      BY <1>1 DEF LoadProposal
    <2> QED
      BY <2>1, <2>2, <2>3, <2>4, Ended
  <1>2. CASE StartUpdater
    <2>1. /\ pc = "propose" /\ pc' = "updating" /\ slot[at] = "none"
          /\ UNCHANGED <<slot, meta, snap, batch, whole, broken, says, at, verdict, seen, work>>
      BY <1>2 DEF StartUpdater, Go, evidence, local
    <2>2. Grow /\ DiskInv'
      <3>1. Grow
        BY <2>1 DEF Grow
      <3> QED
        BY <2>1, <3>1, DiskStays DEF IInv, DiskInv
    <2>3. PastInv' /\ WorkInv' /\ EndInv'
      BY <2>1, <2>2, EarlyStep DEF Phase, Proposing
    <2>4. spent'.open > 0
      BY <1>2 DEF StartUpdater, IInv, TypeOK, CostTotals
    <2>5. LoopInv'
      BY <2>1, <2>4 DEF IInv, ControlInv, LoopInv, Proposing
    <2> QED
      BY <2>2, <2>3, <2>5 DEF ControlInv
  <1>3. CASE UpdaterReturns
    <2>1. /\ pc = "updating" /\ pc' = "register" /\ verdict' \in {"checked", "held", "refused"}
          /\ UNCHANGED <<slot, meta, snap, batch, whole, broken, says, at, seen, work>>
      BY <1>3 DEF UpdaterReturns, EndUpdater, evidence
    <2>2. Grow /\ DiskInv'
      <3>1. Grow
        BY <2>1 DEF Grow
      <3> QED
        BY <2>1, <3>1, DiskStays DEF IInv, DiskInv
    <2>3. PastInv' /\ WorkInv' /\ EndInv'
      BY <2>1, <2>2, EarlyStep DEF Phase, Proposing
    <2>4. LoopInv'
      BY <2>1 DEF IInv, ControlInv, LoopInv, Proposing
    <2> QED
      BY <2>2, <2>3, <2>4 DEF ControlInv
  <1>4. CASE UpdaterFails
    <2>1. /\ pc = "updating" /\ End("failed")
          /\ UNCHANGED <<slot, meta, snap, batch, whole, broken, says>>
      BY <1>4 DEF UpdaterFails, EndUpdater, evidence
    <2>2. Grow /\ DiskInv'
      <3>1. Grow
        BY <2>1 DEF Grow
      <3> QED
        BY <2>1, <3>1, DiskStays DEF IInv, DiskInv
    <2> QED
      BY <2>1, <2>2, Ended
  <1>5. CASE NextProposal
    <2>1. pc = "choose" /\ Grow /\ DiskInv' /\ KeepDisk
      BY <1>5, SameDisk DEF NextProposal
    <2>2. CASE /\ ~Enough /\ at < Budget
               /\ pc' = "propose" /\ at' = at + 1 /\ UNCHANGED <<verdict, seen, work, answer>>
      <3>1. PastInv' /\ WorkInv' /\ EndInv'
        BY <2>1, <2>2, EarlyStep DEF Phase, Proposing, KeepDisk, evidence
      <3>2. at \in Slot
        BY <2>1 DEF IInv, ControlInv, LoopInv, Proposing
      <3>3. at + 1 \in Slot /\ \A k \in Slot : k < at + 1 => k < at \/ k = at
        BY <2>2, <3>2, BudgetAssumption DEF Slot
      <3>4. ~Enough'
        BY <2>1, <2>2 DEF Enough, Executable, Diverse, KeepDisk, registry
      <3>5. LoopInv'
        BY <2>1, <2>2, <3>3, <3>4
           DEF IInv, ControlInv, LoopInv, Proposing, KeepDisk, registry
      <3> QED
        BY <2>1, <3>1, <3>5 DEF ControlInv
    <2> QED
      BY <1>5, <2>1, <2>2, Ended DEF NextProposal
  <1> QED
    BY <1>1, <1>2, <1>3, <1>4, <1>5

(* A proposal is registered and retained.                                  *)
LEMMA RegisterSteps ==
    ASSUME IInv, MakeDirectory \/ Register \/ PreserveRaw
    PROVE  DiskInv' /\ ControlInv'
  <1>1. CASE MakeDirectory
    <2>1. /\ pc = "register" /\ pc' = "event"
          /\ UNCHANGED <<meta, spent, snap, batch, whole, broken, says, at, verdict, seen, work>>
      BY <1>1 DEF MakeDirectory, Go, evidence, local
    <2>2. PICK v \in {"partial", "refusing"} : slot' = [slot EXCEPT ![at] = v]
      BY <1>1 DEF MakeDirectory
    <2>3. at \in Slot /\ slot[at] = "none" /\ at \notin meta
      BY <2>1, StatusNames
         DEF IInv, ControlInv, DiskInv, LoopInv, SlotInv, Proposing
    <2>4. Grow /\ DiskInv'
      BY <2>1, <2>2, <2>3, SlotStep DEF Proposing
    <2>5. PastInv' /\ WorkInv' /\ EndInv'
      BY <2>1, <2>4, EarlyStep DEF Phase, Proposing
    <2>6. at \notin seen
      BY <2>3 DEF IInv, ControlInv, LoopInv
    <2>7. slot'[at] = v /\ \A k \in Slot : k # at => slot'[k] = slot[k]
      BY <2>2, <2>3 DEF IInv, TypeOK
    <2>8. \A k \in Slot : k < at => k # at
      BY <2>3, Names
    <2>9. LoopInv'
      BY <2>1, <2>3, <2>6, <2>7, <2>8 DEF IInv, TypeOK, ControlInv, LoopInv, Proposing
    <2> QED
      BY <2>4, <2>5, <2>9 DEF ControlInv
  <1>2. CASE Register
    <2>1. /\ pc = "event" /\ pc' = IF verdict = "refused" THEN "choose" ELSE "metadata"
          /\ slot' = [slot EXCEPT ![at] = verdict]
          /\ UNCHANGED <<meta, spent, snap, batch, whole, broken, says, at, verdict, seen, work>>
      BY <1>2 DEF Register, Go, evidence, local
    <2>2. at \in Slot /\ at \notin meta /\ verdict \in {"checked", "held", "refused"}
      BY <2>1 DEF IInv, ControlInv, LoopInv, Proposing
    <2>3. Grow /\ DiskInv'
      BY <2>1, <2>2, SlotStep, StatusNames DEF Proposing
    <2>4. PastInv' /\ WorkInv' /\ EndInv'
      BY <2>1, <2>3, EarlyStep DEF Phase, Proposing
    <2>5. at \notin seen
      BY <2>2 DEF IInv, ControlInv, LoopInv
    <2>6. slot'[at] = verdict /\ \A k \in Slot : k # at => slot'[k] = slot[k]
      BY <2>1, <2>2 DEF IInv, TypeOK
    <2>7. \A k \in Slot : k < at => k # at
      BY <2>2, Names
    <2>8. LoopInv'
      BY <2>1, <2>2, <2>5, <2>6, <2>7, StatusNames
         DEF IInv, TypeOK, ControlInv, LoopInv, Proposing
    <2> QED
      BY <2>3, <2>4, <2>8 DEF ControlInv
  <1>3. CASE PreserveRaw
    <2>1. /\ pc = "metadata" /\ pc' = "choose" /\ seen' = seen \union {at}
          /\ meta' = meta \union {at}
          /\ UNCHANGED <<slot, spent, snap, batch, whole, broken, says, at, verdict, work>>
      BY <1>3 DEF PreserveRaw, See, evidence
    <2>2. at \in Slot /\ slot[at] \in Status
      BY <2>1 DEF IInv, ControlInv, LoopInv, Proposing
    <2>3. slot' = [slot EXCEPT ![at] = slot[at]]
      BY <2>1, <2>2 DEF IInv, TypeOK
    <2>4. Grow /\ DiskInv'
      BY <2>1, <2>2, <2>3, SlotStep DEF Proposing
    <2>5. PastInv' /\ WorkInv' /\ EndInv'
      BY <2>1, <2>4, EarlyStep DEF Phase, Proposing
    <2>6. LoopInv'
      BY <2>1, <2>2 DEF IInv, ControlInv, LoopInv, Proposing
    <2> QED
      BY <2>4, <2>5, <2>6 DEF ControlInv
  <1> QED
    BY <1>1, <1>2, <1>3

(* The plan is written, or found to be the same.                           *)
LEMMA PlanSteps ==
    ASSUME IInv, WritePlan \/ Plan
    PROVE  DiskInv' /\ ControlInv'
  <1>1. CASE WritePlan
    <2> DEFINE a == <<"plan", 0>>
    <2>1. PICK subset \in DiverseSubsets :
              WriteOnce(a, says.plan = subset, [says EXCEPT !.plan = subset], Go("planned"))
      BY <1>1 DEF WritePlan
    <2>2. /\ pc = "choose" /\ UNCHANGED <<slot, meta, spent, snap, batch, broken>>
          /\ Go("planned") \/ End("blocked")
          /\ pc' = "planned" => a \in whole'
          /\ \/ whole' = whole /\ says' = says
             \/ /\ ~Written(a) /\ whole' = whole \union {a}
                /\ says' = [says EXCEPT !.plan = subset]
      BY <1>1, <2>1 DEF WritePlan, WriteOnce, registry, Written, End
    <2>3. ~Written(<<"hold", 0>>) /\ ~Written(<<"outcome", 0>>)
      BY <2>2, NotOver
    <2>4. Grow
      BY <2>2 DEF Grow
    <2>5. DiskInv'
      <3>1. CASE whole' = whole /\ says' = says
        BY <2>2, <2>4, <3>1, DiskStays DEF IInv, DiskInv
      <3>2. CASE ~Written(a) /\ whole' = whole \union {a} /\ says' = [says EXCEPT !.plan = subset]
        <4>1. Chosen' = subset
          BY <3>2 DEF IInv, TypeOK, Chosen
        <4>2. /\ Cardinality(subset) = CandidateCount /\ Diverse(subset)
              /\ \A k \in subset : k \in meta
          <5>1. /\ Cardinality(subset) = CandidateCount /\ Diverse(subset)
                /\ subset \subseteq Executable
            BY DEF DiverseSubsets
          <5>2. \A k \in seen : k \in meta
            BY DEF IInv, ControlInv, LoopInv
          <5> QED
            BY <5>1, <5>2 DEF Executable
        <4>3. <<"selection", 0>> \notin whole /\ <<"selection", 0>> \notin whole'
          BY <3>2 DEF IInv, DiskInv, PlanInv, Written
        <4>4. PlanInv'
          BY <2>2, <2>3, <3>2, <4>1, <4>2, <4>3 DEF PlanInv, Diverse, Written
        <4>5. SlotInv' /\ (broken \intersect whole = {})'
          BY <2>2, <3>2 DEF IInv, DiskInv, SlotInv, Written
        <4>6. HoldCostStands' /\ OutcomeIsBacked'
          BY <2>3, <3>2 DEF HoldCostStands, OutcomeIsBacked, Written
        <4> QED
          BY <4>4, <4>5, <4>6 DEF DiskInv
      <3> QED
        BY <2>2, <3>1, <3>2
    <2>6. CASE Go("planned")
      <3>1. pc' = "planned" /\ UNCHANGED <<at, verdict, seen, work>>
        BY <2>6 DEF Go, local
      <3>2. PastInv' /\ WorkInv' /\ EndInv'
        BY <2>2, <2>4, <3>1, EarlyStep DEF Phase
      <3>3. LoopInv'
        BY <2>2, <3>1 DEF IInv, ControlInv, LoopInv, Proposing
      <3> QED
        BY <2>5, <3>2, <3>3 DEF ControlInv
    <2> QED
      BY <2>2, <2>5, <2>6, Ended
  <1>2. CASE Plan
    <2>1. /\ pc = "planned" /\ pc' = "evaluation" /\ work' = EvaluationWork
          /\ UNCHANGED <<at, verdict, seen>> /\ KeepDisk
      BY <1>2 DEF Plan
    <2>2. Grow /\ DiskInv' /\ UNCHANGED <<slot, meta, spent, snap, batch, whole, broken, says>>
      BY <2>1, SameDisk DEF KeepDisk, registry, evidence
    <2>3. LoopInv'
      BY <2>1, <2>2 DEF IInv, ControlInv, LoopInv, Proposing
    <2>4. PastInv'
      BY <2>1, <2>2 DEF IInv, ControlInv, PastInv, AfterPlan
    <2>5. WorkInv'
      <3>1. /\ EvaluationWork \in Seq(AnyJob) /\ Range(EvaluationWork) = EvaluationJobs
            /\ EndsWith(EvaluationWork, "selection")
        BY EvaluationQueue DEF IInv
      <3>2. JobsOf(pc)' = EvaluationJobs
        BY <2>1, <2>2 DEF JobsOf, EvaluationJobs, Chosen, Store, Batch, Advance, Seal
      <3>3. EndsWith(work, LastSeal(pc))'
        BY <2>1, <3>1 DEF EndsWith, LastSeal
      <3>4. Range(work)' = EvaluationJobs
        BY <2>1, <3>1 DEF Range
      <3> QED
        BY <2>1, <3>1, <3>2, <3>3, <3>4 DEF WorkInv, Phase
    <2>6. EndInv'
      BY <2>1, <2>2, NotOver DEF EndInv, Written
    <2> QED
      BY <2>2, <2>3, <2>4, <2>5, <2>6 DEF ControlInv
  <1> QED
    BY <1>1, <1>2

(* From one phase to the next: all jobs of the one are done.               *)
LEMMA PhaseSteps ==
    ASSUME IInv, BranchHold \/ BranchRelease \/ Conclude
    PROVE  DiskInv' /\ ControlInv'
  <1>1. /\ KeepDisk /\ work = <<>> /\ UNCHANGED <<at, verdict, seen>>
        /\ pc \in {"evaluation", "release"} /\ pc' \in Phase
    BY DEF BranchHold, BranchRelease, Conclude, NextPhase, Phase
  <1>2. Grow /\ DiskInv' /\ UNCHANGED <<slot, meta, spent, snap, batch, whole, broken, says>>
    BY <1>1, SameDisk DEF KeepDisk, registry, evidence
  <1>3. LoopInv'
    BY <1>1, <1>2 DEF IInv, ControlInv, LoopInv, Proposing, Phase
  <1>4. EndInv'
    BY <1>1, <1>2, NotOver DEF EndInv, Written
  <1>5. \A j \in JobsOf(pc) : Effect(j)
    BY <1>1 DEF IInv, ControlInv, WorkInv, Phase, Range
  <1>6. /\ pc' \in AfterPlan /\ pc \in AfterPlan
        /\ <<"plan", 0>> \in whole' /\ snap'[0] = "whole"
        /\ batch'[<<"update_source", 0>>] \notin {"none", "hold"}
    BY <1>1, <1>2 DEF IInv, ControlInv, PastInv, AfterPlan, Phase
  <1>7. /\ \A j : Effect(j)' <=> Effect(j)
        /\ EvaluationJobs' = EvaluationJobs /\ ReleaseJobs' = ReleaseJobs /\ HoldJobs' = HoldJobs
        /\ DecisionJobs' = DecisionJobs
    BY <1>2 DEF Effect, EvaluationJobs, ReleaseJobs, HoldJobs, DecisionJobs, Chosen, Roles,
                Decision, Store, Batch, Advance, Seal
  <1>8. CASE BranchHold
    <2>1. /\ pc = "evaluation" /\ pc' = "hold" /\ work' = HoldWork /\ says.governed = 0
      BY <1>8 DEF BranchHold, NextPhase
    <2>2. PastInv'
      BY <1>2, <1>5, <1>6, <1>7, <2>1 DEF PastInv, JobsOf
    <2>3. WorkInv'
      <3>1. /\ HoldWork \in Seq(AnyJob) /\ Range(HoldWork) = HoldJobs
            /\ EndsWith(HoldWork, "hold")
        BY HoldQueue DEF IInv
      <3>2. JobsOf(pc)' = HoldJobs
        BY <1>7, <2>1 DEF JobsOf
      <3>3. EndsWith(work, LastSeal(pc))'
        BY <2>1, <3>1 DEF EndsWith, LastSeal
      <3>4. Range(work)' = HoldJobs
        BY <2>1, <3>1 DEF Range
      <3> QED
        BY <2>1, <3>1, <3>2, <3>3, <3>4 DEF WorkInv, Phase
    <2> QED
      BY <1>2, <1>3, <1>4, <2>2, <2>3 DEF ControlInv
  <1>9. CASE BranchRelease
    <2>1. PICK o \in {RoleOrder, Reverse(RoleOrder)} :
              NextPhase("evaluation", "release", ReleaseWork(o))
      BY <1>9 DEF BranchRelease
    <2>2. /\ pc = "evaluation" /\ pc' = "release" /\ work' = ReleaseWork(o) /\ says.governed # 0
      BY <1>9, <2>1 DEF BranchRelease, NextPhase
    <2>3. PastInv'
      BY <1>2, <1>5, <1>6, <1>7, <2>2 DEF PastInv, JobsOf
    <2>4. WorkInv'
      <3>1. ReleaseWork(o) \in Seq(AnyJob) /\ Range(ReleaseWork(o)) = ReleaseJobs
        BY ReleaseQueue DEF IInv
      <3>2. JobsOf(pc)' = ReleaseJobs
        BY <1>7, <2>2 DEF JobsOf
      <3>3. Range(work)' = ReleaseJobs
        BY <2>2, <3>1 DEF Range
      <3> QED
        BY <2>2, <3>1, <3>2, <3>3 DEF WorkInv, Phase
    <2> QED
      BY <1>2, <1>3, <1>4, <2>3, <2>4 DEF ControlInv
  <1>10. CASE Conclude
    <2>1. /\ pc = "release" /\ pc' = "decision" /\ work' = DecisionWork
      BY <1>10 DEF Conclude, NextPhase
    <2>2. PastInv'
      BY <1>2, <1>5, <1>6, <1>7, <2>1 DEF IInv, ControlInv, PastInv, JobsOf
    <2>3. WorkInv'
      <3>1. /\ DecisionWork \in Seq(AnyJob) /\ Range(DecisionWork) = DecisionJobs
            /\ EndsWith(DecisionWork, "outcome")
        BY DecisionQueue DEF IInv
      <3>2. JobsOf(pc)' = DecisionJobs
        BY <1>7, <2>1 DEF JobsOf
      <3>3. EndsWith(work, LastSeal(pc))'
        BY <2>1, <3>1 DEF EndsWith, LastSeal
      <3>4. Range(work)' = DecisionJobs
        BY <2>1, <3>1 DEF Range
      <3> QED
        BY <2>1, <3>1, <3>2, <3>3, <3>4 DEF WorkInv, Phase
    <2> QED
      BY <1>2, <1>3, <1>4, <2>2, <2>3 DEF ControlInv
  <1> QED
    BY <1>8, <1>9, <1>10

(* The steps beside the command, its death, and its end.                   *)
LEMMA PeopleSteps ==
    ASSUME IInv, People \/ Interrupt \/ Decided \/ Tear
    PROVE  DiskInv' /\ ControlInv'
  <1>1. CASE AuthorizePreRelease \/ AuthorizeRelease \/ EditSource \/ EditHarness
    <2>1. KeepDisk /\ UNCHANGED <<pc, local>>
      BY <1>1 DEF AuthorizePreRelease, AuthorizeRelease, EditSource, EditHarness, KeepDisk
    <2>2. Grow
      BY <2>1, SameDisk
    <2> QED
      BY <2>1, <2>2, BesideStep DEF KeepDisk, registry, evidence
  <1>2. CASE FreezeBaseline
    <2>1. UNCHANGED <<slot, meta, spent, batch, whole, broken, says, pc, local>>
      BY <1>2 DEF FreezeBaseline, evidence
    <2>2. \A k \in Snap : snap[k] = "whole" => snap'[k] = "whole"
      BY <1>2, Names DEF FreezeBaseline, IInv, TypeOK
    <2> QED
      BY <2>1, <2>2, BesideStep DEF Grow
  <1>3. ASSUME NEW s \in Stage, NEW k \in Snap, StageCommand(s, k)
        PROVE  DiskInv' /\ ControlInv'
    <2>1. UNCHANGED <<slot, meta, spent, snap, whole, broken, says, pc, local>>
      BY <1>3 DEF StageCommand, registry
    <2>2. \A b \in Stage \X Snap : batch[b] # "none" => batch'[b] = batch[b]
      BY <1>3, Paying DEF StageCommand, IInv
    <2> QED
      BY <2>1, <2>2, BesideStep DEF Grow
  <1>4. CASE Interrupt \/ Decided
    BY <1>4, SameDisk, Ended DEF Interrupt, Decided
  <1>5. CASE Tear
    <2>1. End("died") /\ UNCHANGED <<meta, spent, batch, whole, says>>
      BY <1>5 DEF Tear
    <2>2. CASE TearPaper
      <3>1. UNCHANGED <<slot, snap>> /\ broken \subseteq broken' /\ broken' \intersect whole' = {}
        BY <2>1, <2>2 DEF TearPaper, Written, IInv, DiskInv
      <3>2. Grow
        BY <2>1, <3>1 DEF Grow
      <3> QED
        BY <2>1, <3>1, <3>2, DiskStays, Ended
    <2>3. CASE TearSnapshot
      <3>1. UNCHANGED <<slot, broken>> /\ \A k \in Snap : snap[k] = "whole" => snap'[k] = "whole"
        BY <2>3 DEF TearSnapshot, IInv, TypeOK
      <3>2. Grow
        BY <2>1, <3>1 DEF Grow
      <3> QED
        BY <2>1, <3>1, <3>2, DiskStays, Ended DEF IInv, DiskInv
    <2>4. CASE TearEvent
      <3>1. Job.on \in Slot
        BY <2>4, JobKnown DEF TearEvent, Doing
      <3>2. /\ slot' = [slot EXCEPT ![Job.on] = "partial"] /\ slot[Job.on] # "none"
            /\ UNCHANGED <<snap, broken>>
        BY <2>4, StatusNames DEF TearEvent, Allowed
      <3>3. Grow
        BY <2>1, <3>2 DEF Grow
      <3>4. \E k \in Slot : slot[k] # "none" /\ slot' = [slot EXCEPT ![k] = "partial"]
        BY <3>1, <3>2
      <3> QED
        BY <2>1, <3>2, <3>3, <3>4, DiskStays, Ended DEF IInv, DiskInv
    <2> QED
      BY <1>5, <2>2, <2>3, <2>4 DEF Tear
  <1> QED
    BY <1>1, <1>2, <1>3, <1>4, <1>5 DEF People

(* What a job has to do, or a step before it is done, for the rest of the  *)
(* phase to go on.                                                         *)
LEMMA JobStep ==
    ASSUME IInv, Grow, pc \in Phase, work # <<>>, pc' = pc, seen' = seen,
           NEW job, job = Job,
           work' = work \/ (work' = Tail(work) /\ Effect(job)'),
           says'.plan = says.plan,
           pc # "evaluation" => says'.native = says.native /\ says'.governed = says.governed,
           \A j \in JobsOf(pc) : (j.do = "advance" /\ j.name \in Final /\ Effect(j))
                                     => slot'[j.on] = slot[j.on],
           <<"hold", 0>> \in whole' \union broken' => Written(<<"hold", 0>>) \/ pc = "hold",
           <<"outcome", 0>> \in whole' \union broken'
               => Written(<<"outcome", 0>>) \/ pc = "decision"
    PROVE  ControlInv'
  <1>1. LoopInv'
    BY DEF IInv, ControlInv, LoopInv, Proposing, Phase, Grow
  <1>2. PastInv'
    <2>1. /\ <<"plan", 0>> \in whole' /\ snap'[0] = "whole"
          /\ batch'[<<"update_source", 0>>] \notin {"none", "hold"}
      BY Names DEF IInv, ControlInv, PastInv, Grow, AfterPlan, Phase
    <2>2. pc \in {"hold", "release", "decision"} => (\A j \in EvaluationJobs : Effect(j))'
      BY PassedStays DEF IInv, ControlInv, PastInv
    <2>3. pc = "decision" => (\A j \in ReleaseJobs : Effect(j))'
      BY PassedStays DEF IInv, ControlInv, PastInv
    <2> QED
      BY <2>1, <2>2, <2>3 DEF IInv, ControlInv, PastInv
  <1>3. WorkInv'
    <2>1. JobsOf(pc)' = JobsOf(pc)
      BY JobsStay DEF Phase
    <2>2. ASSUME NEW j \in JobsOf(pc), Effect(j) PROVE Effect(j)'
      <3>1. KnownJob(j)
        BY PassingJobs DEF IInv, JobsOf, PassingJob, Phase
      <3> QED
        BY <2>2, <3>1, EffectStays
    <2>3. CASE work' = work
      BY <2>1, <2>2, <2>3 DEF IInv, ControlInv, WorkInv, EndsWith
    <2>4. CASE work' = Tail(work) /\ Effect(job)'
      BY <2>1, <2>2, <2>4, JobDone
    <2> QED
      BY <2>3, <2>4
  <1>4. EndInv'
    BY DEF IInv, ControlInv, EndInv, Written, Phase
  <1> QED
    BY <1>1, <1>2, <1>3, <1>4 DEF ControlInv

-----------------------------------------------------------------------------
(* The jobs of a phase.                                                    *)

(* A paid or reused batch changes nothing but the batch, and is complete   *)
(* when the command goes on.                                               *)
LEMMA BatchSteps ==
    ASSUME IInv, SourceBatch \/ RunBatch
    PROVE  DiskInv' /\ ControlInv'
  <1> DEFINE s == IF pc = "source" THEN "update_source" ELSE Job.name
             k == IF pc = "source" THEN 0 ELSE Job.on
  <1>1. \/ pc = "source"
        \/ /\ pc \in Phase /\ work # <<>> /\ Job.do = "batch"
    BY DEF SourceBatch, RunBatch, Doing
  <1>2. pc # "source" => Job.name \in Stage /\ Job.on \in Snap
    BY <1>1, JobKnown DEF AnyJob
  <1>3. /\ s \in Stage /\ k \in Snap
    BY <1>2, Names
  <1>4. \/ RunStage(s, k, Go("diagnose")) /\ pc = "source"
        \/ RunStage(s, k, Done) /\ pc \in Phase
        \/ ReuseStage(s, k, Go("diagnose")) /\ pc = "source"
        \/ ReuseStage(s, k, Done) /\ pc \in Phase
        \/ RefuseStage(s, k)
    BY DEF SourceBatch, RunBatch, CompletedStage, Doing, Phase
  <1> HIDE DEF s, k
  <1>5. /\ UNCHANGED <<slot, meta, spent, snap, whole, broken, says>>
        /\ \A b \in Stage \X Snap : batch[b] # "none" => batch'[b] = batch[b]
        /\ \/ \E why : End(why)
           \/ /\ (pc = "source" /\ Go("diagnose")) \/ (pc \in Phase /\ Done)
              /\ batch'[<<s, k>>] \notin {"none", "hold"}
    <2>1. CASE RunStage(s, k, Go("diagnose")) /\ pc = "source"
      <3>1. /\ UNCHANGED <<slot, meta, spent, snap, whole, broken, says>>
            /\ PayBatch(s, k, {}) /\ batch[<<s, k>>] = "none"
            /\ IF batch'[<<s, k>>] = "hold" THEN End("held") ELSE Go("diagnose")
        BY <2>1 DEF RunStage, registry
      <3>2. /\ batch'[<<s, k>>] # "none"
            /\ \A b \in Stage \X Snap : batch[b] # "none" => batch'[b] = batch[b]
        BY <1>3, <3>1, Paying DEF IInv
      <3>3. (\E why : End(why)) \/ (Go("diagnose") /\ batch'[<<s, k>>] # "hold")
        BY <3>1
      <3> QED
        BY <2>1, <3>1, <3>2, <3>3
    <2>2. CASE RunStage(s, k, Done) /\ pc \in Phase
      <3>1. /\ UNCHANGED <<slot, meta, spent, snap, whole, broken, says>>
            /\ PayBatch(s, k, {}) /\ batch[<<s, k>>] = "none"
            /\ IF batch'[<<s, k>>] = "hold" THEN End("held") ELSE Done
        BY <2>2 DEF RunStage, registry
      <3>2. /\ batch'[<<s, k>>] # "none"
            /\ \A b \in Stage \X Snap : batch[b] # "none" => batch'[b] = batch[b]
        BY <1>3, <3>1, Paying DEF IInv
      <3>3. (\E why : End(why)) \/ (Done /\ batch'[<<s, k>>] # "hold")
        BY <3>1
      <3> QED
        BY <2>2, <3>1, <3>2, <3>3
    <2>3. CASE ReuseStage(s, k, Go("diagnose")) /\ pc = "source"
      <3>1. KeepDisk /\ batch[<<s, k>>] # "none"
        BY <2>3 DEF ReuseStage
      <3>2. (\E why : End(why)) \/ (Go("diagnose") /\ batch[<<s, k>>] # "hold")
        BY <2>3 DEF ReuseStage
      <3>3. UNCHANGED <<slot, meta, spent, snap, batch, whole, broken, says>>
        BY <3>1 DEF KeepDisk, registry, evidence
      <3> QED
        BY <2>3, <3>1, <3>2, <3>3
    <2>4. CASE ReuseStage(s, k, Done) /\ pc \in Phase
      BY <2>4 DEF ReuseStage, KeepDisk, registry, evidence
    <2>5. CASE RefuseStage(s, k)
      BY <2>5 DEF RefuseStage, KeepDisk, registry, evidence
    <2> QED
      BY <1>4, <2>1, <2>2, <2>3, <2>4, <2>5
  <1>6. Grow /\ DiskInv'
    <2>1. Grow
      BY <1>5 DEF Grow
    <2> QED
      BY <1>5, <2>1, DiskStays DEF IInv, DiskInv
  <1>7. CASE \E why : End(why)
    BY <1>6, <1>7, Ended
  <1>8. CASE pc = "source" /\ Go("diagnose") /\ batch'[<<s, k>>] \notin {"none", "hold"}
    <2>1. batch'[<<"update_source", 0>>] \notin {"none", "hold"}
      BY <1>8 DEF s, k
    <2>2. pc' = "diagnose" /\ UNCHANGED <<at, verdict, seen, work>>
      BY <1>8 DEF Go, local
    <2>3. PastInv' /\ WorkInv' /\ EndInv'
      BY <1>5, <1>6, <1>8, <2>1, <2>2, EarlyStep DEF Phase
    <2>4. LoopInv'
      BY <1>5, <1>8, <2>2 DEF IInv, ControlInv, LoopInv, Proposing
    <2> QED
      BY <1>6, <2>3, <2>4 DEF ControlInv
  <1>9. CASE pc \in Phase /\ Done /\ batch'[<<s, k>>] \notin {"none", "hold"}
    <2>1. PICK job : job = Job
      OBVIOUS
    <2>2. pc # "source"
      BY <1>9 DEF Phase
    <2>3. job.do = "batch" /\ job.name = s /\ job.on = k /\ work # <<>>
      BY <1>1, <2>1, <2>2 DEF s, k
    <2>4. Effect(job)'
      BY <1>9, <2>3 DEF Effect
    <2>5. pc' = pc /\ seen' = seen /\ work' = Tail(work)
      BY <1>9 DEF Done
    <2>6. ControlInv'
      BY <1>5, <1>6, <1>9, <2>1, <2>3, <2>4, <2>5, JobStep DEF Written
    <2> QED
      BY <1>6, <2>6
  <1> QED
    BY <1>5, <1>7, <1>8, <1>9

(* A snapshot is stored.                                                   *)
LEMMA StoreSteps ==
    ASSUME IInv, StoreChild
    PROVE  DiskInv' /\ ControlInv'
  <1>1. PICK job : job = Job
    OBVIOUS
  <1>2. /\ pc \in Phase /\ work # <<>> /\ job.do = "store"
        /\ UNCHANGED <<slot, meta, spent, batch, whole, broken, says>>
    BY <1>1 DEF StoreChild, Doing, evidence
  <1>3. job.on \in Slot /\ job.on \in Snap
    BY <1>1, <1>2, JobKnown, Names
  <1>4. \/ UNCHANGED snap /\ \E why : End(why)
        \/ snap' = [snap EXCEPT ![job.on] = "whole"] /\ Done
    BY <1>1 DEF StoreChild
  <1>5. Grow /\ DiskInv'
    <2>1. \A k \in Snap : snap[k] = "whole" => snap'[k] = "whole"
      BY <1>3, <1>4 DEF IInv, TypeOK
    <2>2. Grow
      BY <1>2, <2>1 DEF Grow
    <2> QED
      BY <1>2, <2>2, DiskStays DEF IInv, DiskInv
  <1>6. CASE snap' = [snap EXCEPT ![job.on] = "whole"] /\ Done
    <2>1. Effect(job)'
      BY <1>2, <1>3, <1>6 DEF Effect, IInv, TypeOK
    <2>2. pc' = pc /\ seen' = seen /\ work' = Tail(work)
      BY <1>6 DEF Done
    <2>3. ControlInv'
      BY <1>1, <1>2, <1>5, <2>1, <2>2, JobStep DEF Written
    <2> QED
      BY <1>5, <2>3
  <1> QED
    BY <1>4, <1>5, <1>6, Ended

(* The lifecycle evidence of a status is written before the status.        *)
LEMMA LifecycleSteps ==
    ASSUME IInv, WriteLifecycle
    PROVE  DiskInv' /\ ControlInv'
  <1>1. PICK job : job = Job
    OBVIOUS
  <1> DEFINE a == <<job.name, job.on>>
  <1>2. /\ pc \in Phase /\ work # <<>> /\ job.do = "advance" /\ ~Written(a)
        /\ WriteOnce(a, TRUE, says, Stay)
    BY <1>1 DEF WriteLifecycle, Doing
  <1>3. job.name \in Status /\ job.on \in Slot
    BY <1>1, <1>2, JobKnown
  <1>4. /\ a \in Artifact \X {0} \union Status \X Slot
        /\ a \notin {<<"plan", 0>>, <<"selection", 0>>, <<"outcome", 0>>, <<"hold", 0>>}
    BY <1>3, Names
  <1>5. /\ whole' = whole \union {a} /\ says' = says
        /\ UNCHANGED <<slot, meta, spent, snap, batch, broken>>
        /\ UNCHANGED <<pc, at, verdict, seen, work>>
    BY <1>2 DEF WriteOnce, Written, Stay, registry, local
  <1> HIDE DEF a
  <1>6. Grow /\ DiskInv'
    BY <1>2, <1>4, <1>5, PaperStep
  <1>7. ControlInv'
    BY <1>1, <1>2, <1>4, <1>5, <1>6, JobStep DEF Written
  <1> QED
    BY <1>6, <1>7

(* The status of a candidate advances, or has already passed.              *)
LEMMA TransitionSteps ==
    ASSUME IInv, Transition
    PROVE  DiskInv' /\ ControlInv'
  <1>1. PICK job : job = Job
    OBVIOUS
  <1>2. /\ pc \in Phase /\ work # <<>> /\ job.do = "advance"
        /\ UNCHANGED <<meta, spent, snap, batch, whole, broken, says>>
    BY <1>1 DEF Transition, Doing, evidence
  <1>3. job.name \in Status /\ job.on \in Slot /\ job \in JobsOf(pc)
    BY <1>1, <1>2, JobKnown
  <1>4. \/ slot' = slot /\ \E why : End(why)
        \/ slot' = slot /\ Done /\ Passed(slot[job.on], job.name)
        \/ slot' = [slot EXCEPT ![job.on] = job.name] /\ Done /\ Allowed(slot[job.on], job.name)
    BY <1>1 DEF Transition
  <1>5. Grow
    BY <1>2 DEF Grow
  <1>6. CASE slot' = slot /\ \E why : End(why)
    BY <1>2, <1>5, <1>6, DiskStays, Ended DEF IInv, DiskInv
  <1>7. CASE slot' = slot /\ Done /\ Passed(slot[job.on], job.name)
    <2>1. DiskInv'
      BY <1>2, <1>5, <1>7, DiskStays DEF IInv, DiskInv
    <2>2. job.name \in Final => slot[job.on] = job.name
      BY <1>7, StatusNames DEF Passed, Final
    <2>3. Effect(job)'
      BY <1>2, <1>7, <2>2 DEF Effect
    <2>4. pc' = pc /\ seen' = seen /\ work' = Tail(work)
      BY <1>7 DEF Done
    <2>5. ControlInv'
      BY <1>1, <1>2, <1>5, <1>7, <2>3, <2>4, JobStep DEF Written
    <2> QED
      BY <2>1, <2>5
  <1>8. CASE /\ slot' = [slot EXCEPT ![job.on] = job.name] /\ Done
             /\ Allowed(slot[job.on], job.name)
    <2>1. /\ slot'[job.on] = job.name /\ \A k \in Slot : k # job.on => slot'[k] = slot[k]
          /\ slot[job.on] # "none"
      BY <1>3, <1>8, StatusNames DEF IInv, TypeOK, Allowed
    <2>2. SlotInv'
      BY <1>2, <1>3, <2>1, StatusNames DEF IInv, TypeOK, DiskInv, SlotInv
    <2>3. PlanInv' /\ HoldCostStands' /\ (broken \intersect whole = {})'
      BY <1>2 DEF IInv, DiskInv, PlanInv, HoldCostStands, Chosen, Diverse
    <2>4. OutcomeIsBacked'
      <3>1. CASE <<"outcome", 0>> \in whole
        <4>1. pc = "decision"
          BY <1>2, <3>1 DEF IInv, ControlInv, EndInv, Written, Phase
        <4>2. job.name = Decision(job.on)
          BY <1>2, <1>3, <4>1 DEF JobsOf, DecisionJobs, Advance, Seal
        <4>3. Roles \subseteq Slot
          BY <3>1, RolesAreSlots DEF IInv, DiskInv, PlanInv
        <4>4. \A k \in Roles : slot'[k] \in {slot[k], "partial", Decision(k)}
          BY <2>1, <4>2, <4>3
        <4> QED
          BY <1>2, <1>5, <2>3, <3>1, <4>4, BackedStays
      <3>2. CASE <<"outcome", 0>> \notin whole
        BY <1>2, <3>2 DEF OutcomeIsBacked
      <3> QED
        BY <3>1, <3>2
    <2>5. Effect(job)'
      BY <1>2, <2>1 DEF Effect
    <2>6. ASSUME NEW j \in JobsOf(pc), j.do = "advance", j.name \in Final, Effect(j)
          PROVE  slot'[j.on] = slot[j.on]
      <3>1. j.on \in Slot /\ slot[j.on] = j.name
        <4>1. Roles \subseteq Slot \/ pc \notin {"release", "decision"}
          BY RolesInRelease
        <4>2. Chosen \subseteq Slot
          BY DEF IInv, TypeOK, Chosen
        <4>3. j.on \in Slot
          BY <1>2, <2>6, <4>1, <4>2 DEF JobsOf, EvaluationJobs, HoldJobs, ReleaseJobs,
             DecisionJobs, Phase, Store, Batch, Advance, Seal
        <4> QED
          BY <2>6, <4>3 DEF Effect
      <3>2. j.on = job.on => j.name = job.name
        BY <1>2, <1>3, <2>6 DEF JobsOf, EvaluationJobs, HoldJobs, ReleaseJobs,
           DecisionJobs, Phase, Store, Batch, Advance, Seal, Final
      <3> QED
        BY <2>1, <3>1, <3>2
    <2>7. pc' = pc /\ seen' = seen /\ work' = Tail(work)
      BY <1>8 DEF Done
    <2>8. ControlInv'
      BY <1>1, <1>2, <1>5, <2>5, <2>6, <2>7, JobStep DEF Written
    <2> QED
      BY <2>2, <2>3, <2>4, <2>8 DEF DiskInv
  <1> QED
    BY <1>4, <1>6, <1>7, <1>8

(* The artifacts that a phase seals.                                       *)
LEMMA SealNames ==
    ASSUME IInv, pc \in Phase, work # <<>>, Job.do = "seal"
    PROVE  /\ pc = "evaluation" => Job.name = "selection"
           /\ pc = "hold" => Job.name \in {"lineage", "hold"}
           /\ pc = "release" => Job.name \in {"ablation", "roles", "analysis", "lineage", "native",
                                              "agentloopgate"}
           /\ pc = "decision" => Job.name \in {"report", "outcome"}
           /\ Job = Seal(Job.name)
  <1>1. PICK job : job = Job
    OBVIOUS
  <1>2. job \in JobsOf(pc) /\ job.do = "seal"
    BY <1>1, JobKnown
  <1>3. pc = "evaluation" => job = Seal("selection")
    BY <1>2 DEF JobsOf, EvaluationJobs, Store, Batch, Advance, Seal
  <1>4. pc = "hold" => job \in {Seal("lineage"), Seal("hold")}
    BY <1>2 DEF JobsOf, HoldJobs, Advance, Seal
  <1>5. pc = "release" => \E a \in {"ablation", "roles", "analysis", "lineage", "native",
                                    "agentloopgate"} : job = Seal(a)
    BY <1>2 DEF JobsOf, ReleaseJobs, Batch, Advance, Seal
  <1>6. pc = "decision" => job \in {Seal("report"), Seal("outcome")}
    BY <1>2 DEF JobsOf, DecisionJobs, Advance, Seal
  <1> QED
    BY <1>1, <1>3, <1>4, <1>5, <1>6 DEF Phase, Seal

(* The batches of stages and snapshots, pair by pair.                      *)
LEMMA Pairs ==
    ASSUME NEW S, NEW T, \A s \in T, k \in S : batch[<<s, k>>] \notin {"none", "hold"}
    PROVE  BatchesOf(S, T)
  <1> SUFFICES ASSUME NEW b \in T \X S PROVE batch[b] \notin {"none", "hold"}
    BY DEF BatchesOf
  <1>1. PICK s \in T, k \in S : b = <<s, k>>
    OBVIOUS
  <1> QED
    BY <1>1

(* When the outcome is sealed everything it rests on is there.             *)
LEMMA OutcomeReady ==
    ASSUME IInv, pc = "decision", work # <<>>, Job = Seal("outcome"),
           ~Written(<<"outcome", 0>>)
    PROVE  OutcomeStands /\ \A k \in Roles : slot[k] = Decision(k)
  <1>1. /\ work \in Seq(AnyJob)
        /\ \A j \in DecisionJobs : j \in Range(work) \/ Effect(j)
        /\ EndsWith(work, "outcome")
    BY DEF IInv, ControlInv, WorkInv, JobsOf, LastSeal, Phase
  <1>2. Range(work) = {Seal("outcome")}
    <2>1. /\ Range(work) = {Job} \union Range(Tail(work))
          /\ Job = Seal("outcome") <=> Tail(work) = <<>>
      BY <1>1, TailOfQueue DEF Job
    <2>2. Range(<<>>) = {}
      BY DEF Range
    <2> QED
      BY <2>1, <2>2
  <1>3. /\ \A j \in EvaluationJobs : Effect(j)
        /\ \A j \in ReleaseJobs : Effect(j)
        /\ batch[<<"update_source", 0>>] \notin {"none", "hold"}
    BY DEF IInv, ControlInv, PastInv
  <1>4. <<"report", 0>> \in whole
    <2>1. Seal("report") \in DecisionJobs /\ Seal("report") # Seal("outcome")
      BY DEF DecisionJobs, Seal
    <2>2. Effect(Seal("report"))
      BY <1>1, <1>2, <2>1
    <2> QED
      BY <2>2 DEF Effect, Seal
  <1>5. \A k \in Roles : slot[k] = Decision(k)
    <2> SUFFICES ASSUME NEW k \in Roles PROVE slot[k] = Decision(k)
      OBVIOUS
    <2>1. Advance(k, Decision(k)) \in DecisionJobs /\ Advance(k, Decision(k)) # Seal("outcome")
      BY DEF DecisionJobs, Advance, Seal
    <2>2. Effect(Advance(k, Decision(k))) /\ Decision(k) \in Final
      BY <1>1, <1>2, <2>1 DEF Decision, Final
    <2> QED
      BY <2>2 DEF Effect, Advance
  <1>6. \A a \in {"ablation", "roles", "analysis", "lineage", "native", "agentloopgate"} :
            <<a, 0>> \in whole
    <2> SUFFICES ASSUME NEW a \in {"ablation", "roles", "analysis", "lineage", "native",
                                   "agentloopgate"}
                 PROVE  <<a, 0>> \in whole
      OBVIOUS
    <2>1. Seal(a) \in ReleaseJobs
      BY DEF ReleaseJobs
    <2> QED
      BY <1>3, <2>1 DEF Effect, Seal
  <1>7. BatchesOf({0} \union Roles, Release)
    BY <1>3, ReleaseSealed, Pairs DEF IInv
  <1>8. BatchesOf({0} \union Chosen, {"update_check", "selection"})
    <2> SUFFICES ASSUME NEW s \in {"update_check", "selection"}, NEW k \in {0} \union Chosen
                 PROVE  batch[<<s, k>>] \notin {"none", "hold"}
      BY Pairs
    <2>1. Batch(s, k) \in EvaluationJobs
      BY DEF EvaluationJobs
    <2> QED
      BY <1>3, <2>1 DEF Effect, Batch
  <1>9. \A k \in Chosen : snap[k] = "whole"
    <2> SUFFICES ASSUME NEW k \in Chosen PROVE snap[k] = "whole"
      OBVIOUS
    <2>1. Store(k) \in EvaluationJobs
      BY DEF EvaluationJobs
    <2> QED
      BY <1>3, <2>1 DEF Effect, Store
  <1>10. OutcomeStands
    <2>1. ({"lineage", "native", "agentloopgate", "roles", "analysis", "ablation", "report"}
               \X {0}) \subseteq whole
      BY <1>4, <1>6
    <2>2. BatchesOf({0}, {"update_source"})
      BY <1>3 DEF BatchesOf
    <2> QED
      BY <1>7, <1>8, <1>9, <2>1, <2>2 DEF OutcomeStands, Written
  <1> QED
    BY <1>5, <1>10

(* A new artifact keeps what the invariant says of the disk.               *)
LEMMA NewArtifact ==
    ASSUME IInv, pc \in Phase, work # <<>>, Job.do = "seal", ~Refused,
           ~Written(<<Job.name, 0>>), whole' = whole \union {<<Job.name, 0>>}, says' = Content,
           UNCHANGED <<slot, meta, spent, snap, batch, broken>>
    PROVE  Grow /\ DiskInv' /\ says'.plan = says.plan
           /\ (pc # "evaluation" => says'.native = says.native /\ says'.governed = says.governed)
  <1> DEFINE n == Job.name
             a == <<n, 0>>
  <1>0. n \in Artifact
    BY JobKnown
  <1>1. Grow
    BY DEF Grow
  <1>2. SlotInv' /\ (broken \intersect whole = {})'
    BY DEF IInv, DiskInv, SlotInv, Written
  <1>3. says \in [plan : SUBSET Slot, native : Snap, governed : Snap, ablation : 0..2,
                  cost : CostTotals]
    BY DEF IInv, TypeOK
  <1>4. CASE n = "selection"
    <2>1. pc = "evaluation"
      BY <1>4, SealNames DEF Phase
    <2>2. ~Written(<<"hold", 0>>) /\ ~Written(<<"outcome", 0>>)
      BY <2>1, NotOver
    <2>3. says' = [says EXCEPT !.native = Native, !.governed = Governed]
      BY <1>4 DEF Content
    <2>4. /\ says'.plan = says.plan /\ says'.native = Native /\ says'.governed = Governed
      BY <1>3, <2>3
    <2>5. <<"plan", 0>> \in whole
      BY <2>1 DEF IInv, ControlInv, PastInv, AfterPlan, Phase
    <2>6. Native \in Chosen /\ Governed \in {0} \union Chosen
      BY <1>4, Selected
    <2>7. PlanInv'
      BY <1>4, <2>2, <2>4, <2>5, <2>6 DEF IInv, DiskInv, PlanInv, Chosen, Diverse, Written
    <2>8. HoldCostStands' /\ OutcomeIsBacked'
      BY <1>4, <2>2 DEF HoldCostStands, OutcomeIsBacked, Written
    <2> QED
      BY <1>1, <1>2, <2>1, <2>4, <2>7, <2>8 DEF DiskInv
  <1>5. CASE n = "hold"
    <2>1. pc = "hold"
      BY <1>5, SealNames DEF Phase
    <2>2. <<"outcome", 0>> \notin whole'
      BY <1>5, <2>1 DEF IInv, ControlInv, EndInv, Written
    <2>3. says' = [says EXCEPT !.cost = spent]
      BY <1>5 DEF Content
    <2>4. /\ says'.plan = says.plan /\ says'.native = says.native
          /\ says'.governed = says.governed /\ says'.cost = spent
      BY <1>3, <2>3
    <2>5. PlanInv'
      BY <1>5, <2>2, <2>4 DEF IInv, DiskInv, PlanInv, Chosen, Diverse
    <2>6. HoldCostStands' /\ OutcomeIsBacked'
      BY <2>2, <2>4 DEF HoldCostStands, OutcomeIsBacked
    <2> QED
      BY <1>1, <1>2, <2>4, <2>5, <2>6 DEF DiskInv
  <1>6. CASE n = "outcome"
    <2>1. pc = "decision"
      BY <1>6, SealNames DEF Phase
    <2>2. says' = says
      BY <1>6 DEF Content
    <2>3. <<"selection", 0>> \in whole /\ says.governed # 0
      BY <2>1, RolesInRelease
    <2>4. PlanInv' /\ HoldCostStands'
      BY <1>6, <2>2, <2>3 DEF IInv, DiskInv, PlanInv, HoldCostStands, Chosen, Diverse
    <2>5. OutcomeStands /\ \A k \in Roles : slot[k] = Decision(k)
      BY <1>6, <2>1, SealNames, OutcomeReady
    <2>6. OutcomeStands' /\ Roles' = Roles /\ \A k \in Roles : Decision(k)' = Decision(k)
      BY <2>2, <2>5 DEF OutcomeStands, BatchesOf, Chosen, Roles, Decision
    <2>7. OutcomeIsBacked'
      BY <2>5, <2>6 DEF OutcomeIsBacked
    <2> QED
      BY <1>1, <1>2, <2>2, <2>4, <2>7 DEF DiskInv
  <1>7. CASE n \notin {"selection", "hold", "outcome"}
    <2>1. n # "plan"
      BY SealNames DEF Phase
    <2>2. n = "ablation" => pc = "release"
      BY SealNames DEF Phase
    <2>3. says' = says \/ (n = "ablation" /\ says' = [says EXCEPT !.ablation = rev])
      BY <1>7 DEF Content
    <2>4. pc = "release" => <<"outcome", 0>> \notin whole
      BY NotOver DEF Written
    <2>5. a \in Artifact \X {0} \union Status \X Slot
          /\ a \notin {<<"plan", 0>>, <<"selection", 0>>, <<"outcome", 0>>, <<"hold", 0>>}
      BY <1>0, <1>7, <2>1
    <2>6. DiskInv'
      <3> HIDE DEF n
      <3> QED
        BY <2>2, <2>3, <2>4, <2>5, PaperStep DEF n
    <2>7. /\ says'.plan = says.plan /\ says'.native = says.native
          /\ says'.governed = says.governed
      BY <1>3, <2>3
    <2> QED
      BY <1>1, <2>6, <2>7
  <1> QED
    BY <1>4, <1>5, <1>6, <1>7

(* An artifact is sealed, found the same, or stops the command.            *)
LEMMA SealSteps ==
    ASSUME IInv, SealArtifact
    PROVE  DiskInv' /\ ControlInv'
  <1>1. PICK job : job = Job
    OBVIOUS
  <1> DEFINE a == <<job.name, 0>>
  <1>2. pc \in Phase /\ work # <<>> /\ job.do = "seal"
    BY <1>1 DEF SealArtifact, Doing
  <1>3. CASE Refused
    BY <1>3, SameDisk, Ended DEF SealArtifact
  <1>4. CASE ~Refused
    <2>1. WriteOnce(a, Same, Content, Done)
      BY <1>1, <1>4 DEF SealArtifact
    <2>2. UNCHANGED <<slot, meta, spent, snap, batch, broken>>
      BY <2>1 DEF WriteOnce, registry
    <2>3. CASE Written(a)
      <3>1. UNCHANGED <<whole, says>>
        BY <2>1, <2>3 DEF WriteOnce
      <3>2. Grow /\ DiskInv'
        <4>1. Grow
          BY <2>2, <3>1 DEF Grow
        <4> QED
          BY <2>2, <3>1, <4>1, DiskStays DEF IInv, DiskInv
      <3>3. CASE End("blocked")
        BY <3>2, <3>3, Ended
      <3>4. CASE Done /\ a \in whole
        <4>1. Effect(job)'
          BY <1>2, <3>1, <3>4 DEF Effect
        <4>2. pc' = pc /\ seen' = seen /\ work' = Tail(work)
          BY <3>4 DEF Done
        <4>3. ControlInv'
          BY <1>1, <1>2, <2>2, <3>1, <3>2, <4>1, <4>2, JobStep DEF Written
        <4> QED
          BY <3>2, <4>3
      <3> QED
        BY <2>1, <2>3, <3>3, <3>4 DEF WriteOnce, Written
    <2>4. CASE ~Written(a)
      <3>1. whole' = whole \union {a} /\ says' = Content /\ Done
        BY <2>1, <2>4 DEF WriteOnce, Written
      <3>2. Grow /\ DiskInv' /\ says'.plan = says.plan
            /\ (pc # "evaluation" => says'.native = says.native /\ says'.governed = says.governed)
        BY <1>1, <1>2, <1>4, <2>2, <2>4, <3>1, NewArtifact
      <3>3. Effect(job)'
        BY <1>2, <3>1 DEF Effect
      <3>4. pc' = pc /\ seen' = seen /\ work' = Tail(work)
        BY <3>1 DEF Done
      <3>5. /\ <<"hold", 0>> \in whole' \union broken' => Written(<<"hold", 0>>) \/ pc = "hold"
            /\ <<"outcome", 0>> \in whole' \union broken'
                 => Written(<<"outcome", 0>>) \/ pc = "decision"
        BY <1>1, <1>2, <2>2, <3>1, SealNames DEF Written, Phase
      <3>6. ControlInv'
        BY <1>1, <1>2, <2>2, <3>2, <3>3, <3>4, <3>5, JobStep
      <3> QED
        BY <3>2, <3>6
    <2> QED
      BY <2>3, <2>4
  <1> QED
    BY <1>3, <1>4

-----------------------------------------------------------------------------
(* The theorems about every behaviour.                                     *)

(* The invariant holds when nothing was done yet.                          *)
LEMMA InitInv == Init => IInv
  <1> SUFFICES ASSUME Init PROVE IInv
    OBVIOUS
  <1>1. TypeOK
    <2>1. 0 \in Snap /\ left \in Nat
      BY BudgetAssumption, BoundAssumption DEF Init, Snap
    <2>2. /\ slot \in [Slot -> {"none", "partial", "refusing", "refused"} \union Status]
          /\ snap \in [Snap -> {"none", "partial", "whole"}]
          /\ batch \in [Stage \X Snap ->
                {"none", "hold", "inexact", "complete", "better", "same", "pass", "weak"}]
      BY DEF Init
    <2>3. NoCost \in CostTotals /\ NoRelease \in [governed : Snap, rev : 0..2]
      BY <2>1 DEF NoCost, NoRelease, CostTotals
    <2>4. /\ says \in [plan : SUBSET Slot, native : Snap, governed : Snap, ablation : 0..2,
                       cost : CostTotals]
          /\ auth \in [pre : 0..2, release : [governed : Snap, rev : 0..2]]
      BY <2>1, <2>3 DEF Init
    <2>5. /\ meta \subseteq Slot /\ spent \in CostTotals /\ base \in 0..2
          /\ whole \subseteq Paper /\ broken \subseteq Paper /\ rev \in 1..2 /\ live \in BOOLEAN
      BY <2>3 DEF Init
    <2>6. /\ edited \in BOOLEAN /\ left \in Nat /\ at \in Snap /\ seen \subseteq Slot
          /\ pc = "idle" /\ verdict = "none" /\ answer = "none"
      BY <2>1 DEF Init
    <2> QED
      BY <2>2, <2>4, <2>5, <2>6 DEF TypeOK
  <1>2. whole = {} /\ broken = {} /\ meta = {} /\ seen = {} /\ work = <<>> /\ pc = "idle"
        /\ slot = [k \in Slot |-> "none"]
    BY DEF Init
  <1>3. DiskInv
    BY <1>2 DEF DiskInv, SlotInv, PlanInv, HoldCostStands, OutcomeIsBacked
  <1>4. ControlInv
    BY <1>2 DEF ControlInv, LoopInv, PastInv, WorkInv, EndInv, Written, Proposing,
                AfterPlan, Phase
  <1> QED
    BY <1>1, <1>3, <1>4 DEF IInv

(* Every step keeps the invariant.                                         *)
LEMMA NextInv ==
    ASSUME IInv, [Next]_vars
    PROVE  IInv'
  <1>1. CASE Next
    <2>1. TypeOK'
      BY <1>1, TypeStep
    <2>2. DiskInv' /\ ControlInv'
      BY <1>1, StartSteps, FirstSteps, LoopSteps, RegisterSteps, PlanSteps, PhaseSteps,
         PeopleSteps, BatchSteps, StoreSteps, LifecycleSteps, TransitionSteps, SealSteps
         DEF Next, Command, Propose, Evaluate
    <2> QED
      BY <2>1, <2>2 DEF IInv
  <1>2. CASE UNCHANGED vars
    <2>1. UNCHANGED <<registry, evidence, people, pc, local, troubles>> /\ answer' = answer
      BY <1>2 DEF vars
    <2>2. TypeOK'
      BY <2>1 DEF IInv, TypeOK, registry, evidence, people, local, troubles
    <2>3. DiskInv'
      BY <2>1, SameDisk DEF KeepDisk
    <2>4. ControlInv'
      BY <2>1, BesideStep, SameDisk DEF KeepDisk, registry, evidence
    <2> QED
      BY <2>2, <2>3, <2>4 DEF IInv
  <1> QED
    BY <1>1, <1>2

(* The inductive invariant holds in every state the experiment reaches.    *)
THEOREM Invariant == Spec => []IInv
  <1>1. IInv /\ [Next]_vars => IInv'
    BY NextInv
  <1> QED
    BY InitInv, <1>1, PTL DEF Spec

(* Every variable keeps its type.                                          *)
THEOREM TypeCorrect == Spec => []TypeOK
  <1>1. IInv => TypeOK
    BY DEF IInv
  <1> QED
    BY Invariant, <1>1, PTL

(* Once an experiment is held, no command spends on the updater again: the *)
(* costs _seal_pre_release_hold wrote are all there ever are, which is     *)
(* what _load_verified_selection_hold asks of them.                        *)
THEOREM HoldCostHolds == Spec => []HoldCostStands
  <1>1. IInv => HoldCostStands
    BY DEF IInv, DiskInv
  <1> QED
    BY Invariant, <1>1, PTL

(* A sealed outcome keeps all it rests on: whatever was done before, torn, *)
(* edited or run beside the command, the outcome is there only with the    *)
(* batches of all stages, the whole snapshots and the decided candidates   *)
(* that _load_verified_outcome asks for.                                   *)
THEOREM OutcomeHolds == Spec => []OutcomeIsBacked
  <1>1. IInv => OutcomeIsBacked
    BY DEF IInv, DiskInv
  <1> QED
    BY Invariant, <1>1, PTL

-----------------------------------------------------------------------------
(* The plan is final.                                                      *)

(* The candidates of the first j slots that may be chosen, what suffices   *)
(* for a plan, and the plan that is taken.                                 *)
Fit(j) == {k \in 1..j : slot[k] \in Status \ {"held"}}
Suffices(S) == Cardinality(S) >= CandidateCount /\ Diverse(S)
Subsets(S) == {T \in SUBSET S : Cardinality(T) = CandidateCount /\ Diverse(T)}
IsFirst(P, S) == P \in Subsets(S) /\ \A T \in Subsets(S) \ {P} : Earlier(P, T)

(* More candidates suffice when some of them already do; none do not.      *)
LEMMA SufficesGrows ==
    ASSUME NEW S \in SUBSET Slot, NEW T \in SUBSET S, Suffices(T)
    PROVE  Suffices(S)
  <1> DEFINE Union(R) == UNION {Families[k] : k \in R}
  <1>1. IsFiniteSet(S)
    <2>1. IsFiniteSet(1..Budget)
      BY FS_Interval, BudgetAssumption
    <2> QED
      BY <2>1, FS_Subset DEF Slot
  <1>2. Cardinality(S) >= CandidateCount
    <2>1. Cardinality(T) <= Cardinality(S) /\ Cardinality(S) \in Nat /\ Cardinality(T) \in Nat
      BY <1>1, FS_Subset, FS_CardinalityType
    <2> QED
      BY <2>1, CountAssumption, BudgetAssumption DEF Suffices
  <1>3. IsFiniteSet(Union(S))
    <2>1. IsFiniteSet({Families[k] : k \in S})
      <3> DEFINE R == {Families[k] : k \in S}
                 f == [k \in S |-> Families[k]]
      <3>1. f \in Surjection(S, R)
        BY DEF Surjection
      <3> HIDE DEF f, R
      <3>2. IsFiniteSet(R)
        BY <1>1, <3>1, FS_Surjection
      <3> QED
        BY <3>2 DEF R
    <2>2. \A F \in {Families[k] : k \in S} : IsFiniteSet(F)
      BY FamilyAssumption
    <2> QED
      BY <2>1, <2>2, FS_UNION
  <1>4. Union(T) \subseteq Union(S)
    OBVIOUS
  <1>5. /\ Cardinality(Union(T)) <= Cardinality(Union(S))
        /\ Cardinality(Union(S)) \in Nat /\ Cardinality(Union(T)) \in Nat
    BY <1>3, <1>4, FS_Subset, FS_CardinalityType
  <1>6. Diverse(S)
    BY <1>5, CountAssumption, BudgetAssumption DEF Suffices, Diverse
  <1> QED
    BY <1>2, <1>6 DEF Suffices

LEMMA EnoughOfPlan ==
    ASSUME TypeOK, Chosen \subseteq Executable,
           Cardinality(Chosen) = CandidateCount, Diverse(Chosen)
    PROVE  Enough
  <1>1. Executable \in SUBSET Slot /\ Chosen \in SUBSET Executable
    BY DEF TypeOK, Executable
  <1>2. Suffices(Chosen)
    BY CountAssumption, BudgetAssumption DEF Suffices
  <1> QED
    BY <1>1, <1>2, SufficesGrows DEF Enough, Suffices

(* The updater is paid for a proposal only when the loop has come to a free*)
(* slot; then all candidates of a sealed plan lie behind it and, none of   *)
(* them held, would suffice.                                               *)
LEMMA PaidForPlan ==
    ASSUME IInv, pc = "propose", slot[at] = "none", <<"plan", 0>> \in whole
    PROVE  \E k \in Chosen : slot[k] = "held"
  <1> SUFFICES ASSUME \A k \in Chosen : slot[k] # "held"
               PROVE  FALSE
    OBVIOUS
  <1>1. at \in Slot
    BY DEF IInv, ControlInv, LoopInv, Proposing
  <1>2. /\ Cardinality(Chosen) = CandidateCount /\ Diverse(Chosen)
        /\ Chosen # {} /\ Chosen \subseteq Slot /\ Chosen \subseteq meta
    BY PlanNotEmpty DEF IInv, DiskInv, PlanInv
  <1>3. \A k \in Chosen : slot[k] # "none" /\ slot[k] # "refused"
    BY <1>2, StatusNames DEF IInv, DiskInv, SlotInv
  <1>4. \A k \in Chosen : k < at
    <2> TAKE k \in Chosen
    <2>1. k \in Slot /\ k # at /\ ~(at < k)
      BY <1>1, <1>2, <1>3 DEF IInv, DiskInv, SlotInv
    <2> QED
      BY <1>1, <2>1, BudgetAssumption DEF Slot
  <1>5. at # 1
    <2>1. PICK k \in Chosen : k \in Slot /\ k < at
      BY <1>2, <1>4
    <2> QED
      BY <2>1, BudgetAssumption DEF Slot
  <1>6. Chosen \subseteq Executable
    BY <1>2, <1>3, <1>4 DEF IInv, ControlInv, LoopInv, Proposing, Executable
  <1>7. Enough
    BY <1>2, <1>6, EnoughOfPlan DEF IInv
  <1> QED
    BY <1>5, <1>7 DEF IInv, ControlInv, LoopInv

(* Only StartUpdater pays for a proposal.                                  *)
LEMMA OnlyStartUpdater ==
    ASSUME IInv, Next, pc = "propose", pc' = "updating"
    PROVE  StartUpdater
  <1>1. ~Start /\ ~StartAgain /\ ~Interrupt /\ ~Tear /\ ~VerifyAgain /\ ~EnsureBaseline
    BY DEF Start, StartAgain, Interrupt, Tear, VerifyAgain, EnsureBaseline, Running, End
  <1>2. ~People
    BY DEF People, AuthorizePreRelease, AuthorizeRelease, EditSource, EditHarness, FreezeBaseline, StageCommand
  <1>3. ~SourceBatch /\ ~Evaluate
    BY DEF SourceBatch, Evaluate, StoreChild, RunBatch, WriteLifecycle, Transition,
           SealArtifact, BranchHold, BranchRelease, NextPhase, Conclude, Decided, Doing, Phase
  <1>4. ~LoadProposal
    BY DEF LoadProposal, See, Go, End
  <1>5. Propose
    BY <1>1, <1>2, <1>3 DEF Next, Command
  <1> QED
    BY <1>4, <1>5 DEF Propose, Diagnose, AuthorizeUpdater, UpdaterReturns, UpdaterFails,
       EndUpdater, MakeDirectory, Register, PreserveRaw, NextProposal, WritePlan, Plan

(* Once the plan is sealed, no further proposal is paid for unless one of  *)
(* the plan's candidates was held: what _propose walks over again is the   *)
(* plan, in whatever order commands died and were repeated.                *)
THEOREM PlanFinal == Spec => PlanIsFinal
  <1> DEFINE A == pc = "propose" /\ pc' = "updating" =>
                    \/ <<"plan", 0>> \notin whole
                    \/ \E k \in Chosen : slot[k] = "held"
  <1>1. IInv /\ [Next]_vars => A
    <2> SUFFICES ASSUME IInv, [Next]_vars, pc = "propose", pc' = "updating",
                        <<"plan", 0>> \in whole
                 PROVE  \E k \in Chosen : slot[k] = "held"
      OBVIOUS
    <2>1. Next
      BY DEF vars
    <2>2. slot[at] = "none"
      BY <2>1, OnlyStartUpdater DEF StartUpdater
    <2> QED
      BY <2>2, PaidForPlan
  <1>2. IInv /\ [Next]_vars => [A]_vars
    BY <1>1
  <1> QED
    BY Invariant, <1>2, PTL DEF Spec, PlanIsFinal

-----------------------------------------------------------------------------
(* The promise of the experiment.                                          *)

(* What the mapping of Promise shows of a state.                           *)
Paid == {b \in Stage \X Snap : batch[b] # "none"}
Selection == IF <<"selection", 0>> \in whole THEN says.governed ELSE Budget + 1
Outcome ==
    IF <<"hold", 0>> \in whole THEN "hold"
    ELSE IF <<"outcome", 0>> \in whole THEN "release" ELSE "none"

Promised == [Promise!Next]_(<<Paid, Selection, Outcome>>)

(* Not yet selected is no candidate and not the baseline.                  *)
LEMMA NotMadeIs ==
    /\ Promise!NotMade = Budget + 1
    /\ \A k \in Snap : k # Promise!NotMade
  <1>1. Cardinality(0..Budget) = Budget + 1
    BY FS_Interval, BudgetAssumption
  <1>2. Cardinality(Snap) = Budget + 1
    BY <1>1 DEF Snap
  <1>3. Promise!NotMade = Budget + 1
    BY <1>2 DEF Promise!NotMade, Promise!Cardinality, Cardinality
  <1>4. \A k \in Snap : k # Budget + 1
    BY BudgetAssumption DEF Snap
  <1> QED
    BY <1>3, <1>4

(* A paper that is neither the selection nor an end of the experiment says *)
(* nothing the promise is about.                                           *)
Quiet ==
    /\ UNCHANGED batch
    /\ \A a \in {"selection", "hold", "outcome"} : <<a, 0>> \in whole' <=> <<a, 0>> \in whole
    /\ <<"selection", 0>> \in whole => says'.governed = says.governed

(* What is quiet is a stutter of the promise.                              *)
LEMMA QuietSteps ==
    ASSUME Quiet
    PROVE  Promised
  BY DEF Quiet, Promised, Paid, Selection, Outcome

(* The steps of the command up to the plan, and what people do beside it.  *)
LEMMA ProposalsAreQuiet ==
    ASSUME IInv,
           \/ Start \/ StartAgain \/ VerifyAgain \/ EnsureBaseline \/ Propose
           \/ AuthorizePreRelease \/ AuthorizeRelease \/ EditSource \/ EditHarness \/ FreezeBaseline
           \/ Interrupt \/ Tear
    PROVE  Quiet
  <1>1. CASE KeepDisk
    BY <1>1 DEF KeepDisk, evidence, Quiet
  <1>2. CASE UNCHANGED evidence
    BY <1>2 DEF evidence, Quiet
  <1>3. CASE Tear
    BY <1>3 DEF Tear, Quiet
  <1>4. CASE Diagnose
    BY <1>4 DEF Diagnose, WriteOnce, Quiet
  <1>5. CASE WritePlan
    <2>1. PICK subset \in DiverseSubsets :
              WriteOnce(<<"plan", 0>>, says.plan = subset, [says EXCEPT !.plan = subset],
                        Go("planned"))
      BY <1>5 DEF WritePlan
    <2>2. says \in [plan : SUBSET Slot, native : Snap, governed : Snap, ablation : 0..2,
                    cost : CostTotals]
      BY DEF IInv, TypeOK
    <2>3. [says EXCEPT !.plan = subset].governed = says.governed
      BY <2>2
    <2>4. /\ UNCHANGED batch
          /\ (whole' = whole /\ says' = says)
             \/ (whole' = whole \union {<<"plan", 0>>} /\ says'.governed = says.governed)
      BY <2>1, <2>3 DEF WriteOnce
    <2> QED
      BY <2>4 DEF Quiet
  <1>6. CASE Start \/ StartAgain \/ VerifyAgain \/ AuthorizeUpdater \/ LoadProposal
             \/ NextProposal \/ Plan \/ Interrupt
    BY <1>1, <1>6 DEF Start, StartAgain, VerifyAgain, AuthorizeUpdater, LoadProposal,
       NextProposal, Plan, Interrupt
  <1>7. CASE EnsureBaseline \/ StartUpdater \/ UpdaterReturns \/ UpdaterFails
             \/ MakeDirectory \/ Register \/ PreserveRaw
    BY <1>2, <1>7 DEF EnsureBaseline, StartUpdater, UpdaterReturns, UpdaterFails, EndUpdater,
       MakeDirectory, Register, PreserveRaw
  <1>8. CASE AuthorizePreRelease \/ AuthorizeRelease \/ EditSource \/ EditHarness \/ FreezeBaseline
    BY <1>2, <1>8 DEF AuthorizePreRelease, AuthorizeRelease, EditSource, EditHarness, FreezeBaseline
  <1> QED
    BY <1>3, <1>4, <1>5, <1>6, <1>7, <1>8 DEF Propose

(* The steps from phase to phase, and the jobs that neither pay nor seal.  *)
LEMMA JobsAreQuiet ==
    ASSUME IInv,
           \/ StoreChild \/ WriteLifecycle \/ Transition
           \/ BranchHold \/ BranchRelease \/ Conclude \/ Decided
    PROVE  Quiet
  <1>1. CASE WriteLifecycle
    <2>1. PICK job : job = Job
      OBVIOUS
    <2> DEFINE a == <<job.name, job.on>>
    <2>2. /\ pc \in Phase /\ work # <<>> /\ job.do = "advance" /\ WriteOnce(a, TRUE, says, Stay)
      BY <1>1, <2>1 DEF WriteLifecycle, Doing
    <2>3. job.on \in Slot
      BY <2>1, <2>2, JobKnown
    <2>4. job.on # 0
      BY <2>3, Names
    <2> QED
      BY <2>2, <2>4 DEF WriteOnce, Quiet
  <1>2. CASE StoreChild \/ Transition
    BY <1>2 DEF StoreChild, Transition, evidence, Quiet
  <1>3. CASE BranchHold \/ BranchRelease \/ Conclude \/ Decided
    <2>1. KeepDisk
      BY <1>3 DEF BranchHold, BranchRelease, Conclude, Decided, NextPhase
    <2> QED
      BY <2>1 DEF KeepDisk, evidence, Quiet
  <1> QED
    BY <1>1, <1>2, <1>3

(* A batch that may run is paid for as the promise allows: of the release, *)
(* only with a selected candidate.                                         *)
LEMMA PaidAsPromised ==
    ASSUME IInv, NEW s \in Stage, NEW k \in Snap, NEW who, MayRun(s, k),
           batch[<<s, k>>] = "none", PayBatch(s, k, who), UNCHANGED <<whole, says>>
    PROVE  Promised
  <1> DEFINE b == <<s, k>>
  <1>1. /\ batch'[b] # "none" /\ b \in Stage \X Snap
        /\ \A c \in (Stage \X Snap) \ {b} : batch'[c] = batch[c]
    <2>1. PICK r : batch' = [batch EXCEPT ![b] = r]
      BY DEF PayBatch
    <2>2. batch'[b] # "none"
      BY Paying DEF IInv
    <2> QED
      BY <2>1, <2>2 DEF IInv, TypeOK
  <1>2. Paid' = Paid \union {b} /\ b \notin Paid
    BY <1>1 DEF Paid
  <1>3. Selection' = Selection /\ Outcome' = Outcome
    BY DEF Selection, Outcome
  <1>4. CASE s \notin Release
    <2>1. b \in (Stage \ Release) \X Snap
      BY <1>4
    <2>2. Promise!Pay
      BY <1>2, <1>3, <2>1 DEF Promise!Pay, Paid, Selection, Outcome
    <2> QED
      BY <2>2 DEF Promised, Promise!Next
  <1>5. CASE s \in Release
    <2>1. <<"selection", 0>> \in whole /\ says.governed # 0 /\ says.governed \in Snap
      BY <1>5 DEF MayRun, ReleaseAuthorized, IInv, TypeOK
    <2>2. Selection \notin {Promise!NotMade, 0}
      BY <2>1, NotMadeIs DEF Selection
    <2>3. b \in Release \X Snap
      BY <1>5
    <2>4. Promise!PayRelease
      BY <1>2, <1>3, <2>2, <2>3 DEF Promise!PayRelease, Paid, Selection, Outcome
    <2> QED
      BY <2>4 DEF Promised, Promise!Next
  <1> QED
    BY <1>4, <1>5

(* The batches of the command and of `experiment stage`.                   *)
LEMMA BatchesAsPromised ==
    ASSUME IInv,
           SourceBatch \/ RunBatch \/ \E s \in Stage, k \in Snap : StageCommand(s, k)
    PROVE  Promised
  <1>1. ASSUME NEW s \in Stage, NEW k \in Snap, StageCommand(s, k)
        PROVE  Promised
    <2>1. /\ MayRun(s, k) /\ batch[<<s, k>>] = "none" /\ PayBatch(s, k, {"stage"})
          /\ UNCHANGED <<whole, says>>
      BY <1>1 DEF StageCommand
    <2> QED
      BY <2>1, PaidAsPromised
  <1>2. ASSUME NEW s \in Stage, NEW k \in Snap,
               RunStage(s, k, Go("diagnose")) \/ RunStage(s, k, Done)
        PROVE  Promised
    <2>1. /\ MayRun(s, k) /\ batch[<<s, k>>] = "none" /\ PayBatch(s, k, {})
          /\ UNCHANGED <<whole, says>>
      BY <1>2 DEF RunStage
    <2> QED
      BY <2>1, PaidAsPromised
  <1>3. ASSUME NEW s \in Stage, NEW k \in Snap,
               ReuseStage(s, k, Go("diagnose")) \/ ReuseStage(s, k, Done) \/ RefuseStage(s, k)
        PROVE  Promised
    <2>1. Quiet
      BY <1>3 DEF ReuseStage, RefuseStage, KeepDisk, evidence, Quiet
    <2> QED
      BY <2>1, QuietSteps
  <1>4. CASE SourceBatch
    BY <1>2, <1>3, <1>4, Names DEF SourceBatch, CompletedStage
  <1>5. CASE RunBatch
    <2>1. PICK s, k : s = Job.name /\ k = Job.on
      OBVIOUS
    <2>2. pc \in Phase /\ work # <<>> /\ Job.do = "batch"
      BY <1>5 DEF RunBatch, Doing
    <2>3. s \in Stage /\ k \in Snap
      BY <2>1, <2>2, JobKnown DEF AnyJob
    <2>4. CompletedStage(s, k, Done)
      BY <1>5, <2>1 DEF RunBatch
    <2> QED
      BY <1>2, <1>3, <2>3, <2>4 DEF CompletedStage
  <1> QED
    BY <1>1, <1>4, <1>5

(* When the selection is sealed every batch it compares was paid for.      *)
LEMMA SelectionReady ==
    ASSUME IInv, pc = "evaluation", work # <<>>, Job = Seal("selection")
    PROVE  \A s \in {"update_check", "selection"}, k \in {0} \union Chosen :
               batch[<<s, k>>] # "none"
  <1>1. /\ work \in Seq(AnyJob)
        /\ \A j \in EvaluationJobs : j \in Range(work) \/ Effect(j)
        /\ EndsWith(work, "selection")
    BY DEF IInv, ControlInv, WorkInv, JobsOf, LastSeal, Phase
  <1>2. Range(work) = {Seal("selection")}
    <2>1. /\ Range(work) = {Job} \union Range(Tail(work))
          /\ Job = Seal("selection") <=> Tail(work) = <<>>
      BY <1>1, TailOfQueue DEF Job
    <2>2. Range(<<>>) = {}
      BY DEF Range
    <2> QED
      BY <2>1, <2>2
  <1> SUFFICES ASSUME NEW s \in {"update_check", "selection"}, NEW k \in {0} \union Chosen
               PROVE  batch[<<s, k>>] # "none"
    OBVIOUS
  <1>3. Batch(s, k) \in EvaluationJobs /\ Batch(s, k) # Seal("selection")
    BY DEF EvaluationJobs, Batch, Seal
  <1>4. Effect(Batch(s, k))
    BY <1>1, <1>2, <1>3
  <1> QED
    BY <1>4 DEF Effect, Batch

(* The selection is sealed once; the outcome follows it.                   *)
LEMMA SealsAsPromised ==
    ASSUME IInv, SealArtifact
    PROVE  Promised
  <1> DEFINE n == Job.name
             a == <<n, 0>>
  <1>1. pc \in Phase /\ work # <<>> /\ Job.do = "seal"
    BY DEF SealArtifact, Doing
  <1>2. CASE Refused \/ Written(a)
    <2>1. UNCHANGED <<batch, whole, says>>
      BY <1>2 DEF SealArtifact, WriteOnce, KeepDisk, evidence
    <2> QED
      BY <2>1, QuietSteps DEF Quiet
  <1>3. CASE ~Refused /\ ~Written(a)
    <2>1. /\ whole' = whole \union {a} /\ says' = Content /\ UNCHANGED batch
          /\ UNCHANGED <<slot, meta, spent, snap, broken>>
      BY <1>3 DEF SealArtifact, WriteOnce, Written, registry
    <2>2. pc # "evaluation" => says'.governed = says.governed
      BY <1>1, <1>3, <2>1, NewArtifact
    <2>3. says \in [plan : SUBSET Slot, native : Snap, governed : Snap, ablation : 0..2,
                    cost : CostTotals]
      BY DEF IInv, TypeOK
    <2>4. Paid' = Paid
      BY <2>1 DEF Paid
    <2>5. CASE n = "selection"
      <3>1. pc = "evaluation" /\ Job = Seal("selection")
        BY <1>1, <2>5, SealNames DEF Phase
      <3>2. Governed \in {0} \union Chosen /\ Chosen \subseteq Snap /\ 0 \in Snap
        BY <1>1, <2>5, Selected, Names
      <3>3. says'.governed = Governed
        BY <2>1, <2>3, <2>5 DEF Content
      <3>4. Selection = Promise!NotMade /\ Selection' = Governed /\ Outcome' = Outcome
        BY <1>3, <2>1, <2>5, <3>3, NotMadeIs DEF Selection, Outcome, Written
      <3>5. /\ <<"selection", 0>> \in Paid
            /\ Governed # 0 =>
                  {<<"update_check", Governed>>, <<"selection", Governed>>} \subseteq Paid
        BY <1>1, <3>1, <3>2, SelectionReady, Names DEF Paid
      <3>6. Promise!Select
        BY <2>4, <3>2, <3>4, <3>5 DEF Promise!Select, Paid, Selection, Outcome
      <3> QED
        BY <3>6 DEF Promised, Promise!Next
    <2>6. CASE n = "hold"
      <3>1. pc = "hold"
        BY <1>1, <2>6, SealNames DEF Phase
      <3>2. <<"outcome", 0>> \notin whole /\ <<"hold", 0>> \notin whole
        BY <1>3, <2>6, <3>1 DEF IInv, ControlInv, EndInv, Written
      <3>3. says.governed = 0 /\ Seal("selection") \in EvaluationJobs
        BY <3>1 DEF IInv, ControlInv, PastInv, EvaluationJobs
      <3>4. <<"selection", 0>> \in whole
        BY <3>1, <3>3 DEF IInv, ControlInv, PastInv, Effect, Seal
      <3>5. Selection = 0 /\ Selection' = Selection
        BY <2>1, <2>2, <3>1, <3>3, <3>4 DEF Selection
      <3>6. Outcome = "none" /\ Outcome' = "hold"
        BY <2>1, <2>6, <3>2 DEF Outcome
      <3>7. Promise!Decide
        BY <2>4, <3>5, <3>6 DEF Promise!Decide, Paid, Selection, Outcome
      <3> QED
        BY <3>7 DEF Promised, Promise!Next
    <2>7. CASE n = "outcome"
      <3>1. pc = "decision" /\ Job = Seal("outcome")
        BY <1>1, <2>7, SealNames DEF Phase
      <3>2. <<"outcome", 0>> \notin whole /\ <<"hold", 0>> \notin whole
        BY <1>3, <2>7, <3>1 DEF IInv, ControlInv, EndInv, Written
      <3>3. <<"selection", 0>> \in whole /\ says.governed # 0 /\ says.governed \in Snap
        BY <2>3, <3>1, RolesInRelease
      <3>4. Selection = says.governed /\ Selection' = Selection
        BY <2>1, <2>2, <3>1, <3>3 DEF Selection
      <3>5. Selection \notin {Promise!NotMade, 0}
        BY <3>3, <3>4, NotMadeIs
      <3>6. Outcome = "none" /\ Outcome' = "release"
        BY <2>1, <2>7, <3>2 DEF Outcome
      <3>7. BatchesOf({0} \union Roles, Release)
        BY <1>1, <1>3, <2>7, <3>1, OutcomeReady DEF OutcomeStands
      <3>8. Release \X {0, Selection} \subseteq Paid
        BY <3>3, <3>4, <3>7, Names DEF BatchesOf, Roles, Paid
      <3>9. Promise!Decide
        BY <2>4, <3>4, <3>5, <3>6, <3>8 DEF Promise!Decide, Paid, Selection, Outcome
      <3> QED
        BY <3>9 DEF Promised, Promise!Next
    <2>8. CASE n \notin {"selection", "hold", "outcome"}
      <3>1. says'.governed = says.governed
        BY <2>1, <2>3, <2>8 DEF Content
      <3> QED
        BY <2>1, <2>8, <3>1, QuietSteps DEF Quiet
    <2> QED
      BY <2>5, <2>6, <2>7, <2>8
  <1> QED
    BY <1>2, <1>3

(* The experiment keeps its promise: whatever commands die, are repeated or*)
(* run beside each other, evidence is paid for once and kept, the one      *)
(* selection compares paid evidence, and the one outcome follows it.       *)
THEOREM PromiseIsKept == Spec => KeepsPromise
  <1>1. Init => Promise!Init
    BY NotMadeIs DEF Init, Promise!Init
  <1>2. IInv /\ [Next]_vars => Promised
    <2> SUFFICES ASSUME IInv, [Next]_vars PROVE Promised
      OBVIOUS
    <2>1. CASE UNCHANGED vars
      BY <2>1, QuietSteps DEF vars, evidence, Quiet
    <2>2. CASE Next
      BY <2>2, ProposalsAreQuiet, JobsAreQuiet, QuietSteps, BatchesAsPromised, SealsAsPromised
         DEF Next, Command, People, Evaluate
    <2> QED
      BY <2>1, <2>2
  <1> QED
    BY Invariant, <1>1, <1>2, PTL
       DEF Spec, KeepsPromise, Promise!Spec, Promised, Paid, Selection, Outcome

-----------------------------------------------------------------------------
(* A command is blocked only for a reason that is on disk.                 *)

(* The papers something else goes by.                                      *)
Telling == {<<"plan", 0>>, <<"selection", 0>>, <<"ablation", 0>>, <<"hold", 0>>, <<"outcome", 0>>}

(* While the source was never edited it is the first revision, and the     *)
(* baseline and the ablation are of it.                                    *)
EditInv ==
    \/ edited
    \/ /\ rev = 1
       /\ snap[0] = "whole" => base = 1
       /\ <<"ablation", 0>> \in whole => says.ablation = 1

(* The selection says what the batches of the plan say, which are all      *)
(* there; release batches follow a selection that selects.                 *)
SelectionInv ==
    /\ <<"plan", 0>> \notin whole => Chosen = {}
    /\ <<"selection", 0>> \in whole =>
          /\ \A k \in Chosen : batch[<<"selection", k>>] # "none"
          /\ says.native = Native /\ says.governed = Governed
    /\ \A s \in Release, k \in Snap : batch[<<s, k>>] # "none" =>
          <<"selection", 0>> \in whole /\ says.governed # 0

(* What changes which part of the disk.                                    *)
LEMMA Frames ==
    ASSUME IInv, Next
    PROVE  /\ \/ UNCHANGED <<snap, base>>
              \/ EnsureBaseline \/ FreezeBaseline \/ StoreChild \/ (Tear /\ TearSnapshot)
           /\ (edited => edited') /\ (edited' \/ rev' = rev)
           /\ \/ batch' = batch
              \/ SourceBatch \/ RunBatch \/ \E s \in Stage, k \in Snap : StageCommand(s, k)
           /\ \/ UNCHANGED <<whole, says>>
              \/ Diagnose \/ WritePlan \/ WriteLifecycle \/ SealArtifact
           /\ broken' = broken \/ (Tear /\ TearPaper)
           /\ slot' = slot \/ MakeDirectory \/ Register \/ Transition \/ (Tear /\ TearEvent)
           /\ meta' = meta \/ PreserveRaw
  <1>1. CASE Start \/ StartAgain \/ VerifyAgain \/ LoadProposal
             \/ NextProposal \/ Plan \/ Decided
    <2>1. KeepDisk /\ UNCHANGED <<people, troubles>>
      BY <1>1 DEF Start, StartAgain, VerifyAgain, LoadProposal, NextProposal,
                  Plan, Decided
    <2> QED
      BY <2>1 DEF KeepDisk, registry, evidence, people, troubles
  <1>2. CASE BranchHold \/ BranchRelease \/ Conclude
    <2>1. KeepDisk /\ UNCHANGED <<people, troubles>>
      BY <1>2 DEF BranchHold, BranchRelease, Conclude, NextPhase
    <2> QED
      BY <2>1 DEF KeepDisk, registry, evidence, people, troubles
  <1>3. CASE StartUpdater \/ UpdaterReturns \/ UpdaterFails
    <2>1. UNCHANGED <<slot, meta, snap, base, evidence, people>>
      BY <1>3 DEF StartUpdater, UpdaterReturns, UpdaterFails, EndUpdater
    <2>2. UNCHANGED troubles \/ \E T : Happens(T)
      BY <1>3 DEF StartUpdater, UpdaterReturns, UpdaterFails
    <2>3. edited => edited'
      BY <2>2 DEF Happens, troubles
    <2> QED
      BY <2>1, <2>3 DEF evidence, people
  <1>4. CASE AuthorizePreRelease \/ AuthorizeRelease \/ EditHarness \/ Interrupt \/ AuthorizeUpdater
    <2>1. UNCHANGED <<registry, evidence, rev>>
      BY <1>4 DEF AuthorizePreRelease, AuthorizeRelease, EditHarness, Interrupt, AuthorizeUpdater,
         KeepDisk, people
    <2>2. UNCHANGED troubles \/ \E T : Happens(T)
      BY <1>4 DEF AuthorizePreRelease, AuthorizeRelease, EditHarness, Interrupt, AuthorizeUpdater
    <2>3. edited => edited'
      BY <2>2 DEF Happens, troubles
    <2> QED
      BY <2>1, <2>3 DEF registry, evidence
  <1>5. CASE EditSource
    <2>1. UNCHANGED <<registry, evidence>> /\ edited'
      BY <1>5 DEF EditSource, Happens
    <2> QED
      BY <2>1 DEF registry, evidence
  <1>6. CASE EnsureBaseline \/ FreezeBaseline
    BY <1>6 DEF EnsureBaseline, FreezeBaseline, evidence, people, troubles
  <1>7. CASE StoreChild
    BY <1>7 DEF StoreChild, evidence, people, troubles
  <1>8. CASE Diagnose \/ WritePlan \/ WriteLifecycle
    <2>1. UNCHANGED <<registry, batch, broken, people, troubles>>
      BY <1>8 DEF Diagnose, WritePlan, WriteLifecycle, WriteOnce
    <2> QED
      BY <1>8, <2>1 DEF registry, people, troubles
  <1>9. CASE SealArtifact
    <2>1. UNCHANGED <<registry, batch, broken, people, troubles>>
      BY <1>9 DEF SealArtifact, WriteOnce, KeepDisk, evidence
    <2> QED
      BY <1>9, <2>1 DEF registry, people, troubles
  <1>10. CASE MakeDirectory \/ Register \/ PreserveRaw
    BY <1>10 DEF MakeDirectory, Register, PreserveRaw, evidence, people, troubles
  <1>11. CASE Transition
    BY <1>11 DEF Transition, evidence, people, troubles
  <1>12. CASE SourceBatch \/ RunBatch
    <2>1. /\ UNCHANGED <<registry, whole, broken, says, people>>
          /\ UNCHANGED troubles \/ \E T : Happens(T)
      BY <1>12 DEF SourceBatch, RunBatch, CompletedStage, RunStage, ReuseStage, RefuseStage,
                   PayBatch, KeepDisk, evidence
    <2>2. edited => edited'
      BY <2>1 DEF Happens, troubles
    <2> QED
      BY <1>12, <2>1, <2>2 DEF registry, people
  <1>13. ASSUME NEW s \in Stage, NEW k \in Snap, StageCommand(s, k)
         PROVE  /\ UNCHANGED <<registry, whole, broken, says, people>>
                /\ edited => edited'
    BY <1>13 DEF StageCommand, PayBatch, Happens
  <1>14. CASE \E s \in Stage, k \in Snap : StageCommand(s, k)
    <2>1. UNCHANGED <<registry, whole, broken, says, people>> /\ (edited => edited')
      BY <1>13, <1>14
    <2> QED
      BY <1>14, <2>1 DEF registry, people
  <1>15. CASE Tear
    <2>1. UNCHANGED <<meta, spent, base, batch, whole, says, people>> /\ (edited => edited')
      BY <1>15 DEF Tear, Happens
    <2>2. CASE TearPaper
      BY <1>15, <2>1, <2>2 DEF TearPaper, people
    <2>3. CASE TearSnapshot
      BY <1>15, <2>1, <2>3 DEF TearSnapshot, people
    <2>4. CASE TearEvent
      BY <1>15, <2>1, <2>4 DEF TearEvent, people
    <2> QED
      BY <1>15, <2>2, <2>3, <2>4 DEF Tear
  <1> QED
    BY <1>1, <1>2, <1>3, <1>4, <1>5, <1>6, <1>7, <1>8, <1>9, <1>10, <1>11, <1>12, <1>14, <1>15
       DEF Next, Command, Propose, Evaluate, People

(* A paper is written once; the plan, the selection, the ablation and the  *)
(* ends by the steps that make them.                                       *)
PlanWritten ==
    /\ pc = "choose" /\ ~Written(<<"plan", 0>>)
    /\ whole' = whole \union {<<"plan", 0>>}
    /\ \E subset \in DiverseSubsets :
          First(subset) /\ says' = [says EXCEPT !.plan = subset]
    /\ Go("planned")

ArtifactSealed ==
    /\ pc \in Phase /\ work # <<>> /\ Job.do = "seal" /\ ~Refused
    /\ Job.name \in {"selection", "ablation", "hold", "outcome"}
    /\ ~Written(<<Job.name, 0>>)
    /\ whole' = whole \union {<<Job.name, 0>>}
    /\ says' = Content
    /\ Done

LEMMA PaperChange ==
    ASSUME IInv, Next
    PROVE  \/ UNCHANGED <<whole, says>>
           \/ says' = says /\ \E p \in Paper \ Telling : whole' = whole \union {p}
           \/ PlanWritten /\ UNCHANGED <<registry, batch, people>>
           \/ ArtifactSealed /\ UNCHANGED <<registry, batch, people>>
  <1>1. CASE Diagnose
    <2>1. WriteOnce(<<"diagnosis", 0>>, TRUE, says, Go("authorize"))
      BY <1>1 DEF Diagnose
    <2>2. <<"diagnosis", 0>> \in Paper \ Telling
      BY DEF Paper, Telling, Artifact
    <2> QED
      BY <2>1, <2>2 DEF WriteOnce
  <1>2. CASE WriteLifecycle
    <2>1. PICK job : job = Job
      OBVIOUS
    <2>2. WriteOnce(<<job.name, job.on>>, TRUE, says, Stay)
      BY <1>2, <2>1 DEF WriteLifecycle
    <2>3. job.name \in Status /\ job.on \in Slot
      BY <1>2, <2>1, JobKnown DEF WriteLifecycle, Doing
    <2>4. <<job.name, job.on>> \in Paper \ Telling
      BY <2>3, Names DEF Paper, Telling
    <2> QED
      BY <2>2, <2>4 DEF WriteOnce
  <1>3. CASE WritePlan
    <2>1. PICK subset \in DiverseSubsets :
             /\ First(subset)
             /\ WriteOnce(<<"plan", 0>>, says.plan = subset, [says EXCEPT !.plan = subset],
                          Go("planned"))
      BY <1>3 DEF WritePlan
    <2>2. CASE Written(<<"plan", 0>>)
      BY <2>1, <2>2 DEF WriteOnce
    <2>3. CASE ~Written(<<"plan", 0>>)
      <3>1. /\ whole' = whole \union {<<"plan", 0>>} /\ says' = [says EXCEPT !.plan = subset]
            /\ UNCHANGED <<registry, batch, broken, people, troubles>>
            /\ Go("planned")
        BY <2>1, <2>3 DEF WriteOnce, Written
      <3>2. PlanWritten
        BY <1>3, <2>1, <2>3, <3>1 DEF WritePlan, PlanWritten
      <3> QED
        BY <3>1, <3>2
    <2> QED
      BY <2>2, <2>3
  <1>4. CASE SealArtifact
    <2>1. /\ pc \in Phase /\ work # <<>> /\ Job.do = "seal"
      BY <1>4 DEF SealArtifact, Doing
    <2>2. CASE Refused
      BY <1>4, <2>2 DEF SealArtifact, KeepDisk, evidence
    <2>3. CASE ~Refused
      <3>1. WriteOnce(<<Job.name, 0>>, Same, Content, Done)
        BY <1>4, <2>3 DEF SealArtifact
      <3>2. CASE Written(<<Job.name, 0>>)
        BY <3>1, <3>2 DEF WriteOnce
      <3>3. CASE ~Written(<<Job.name, 0>>)
        <4>1. /\ whole' = whole \union {<<Job.name, 0>>} /\ says' = Content
              /\ UNCHANGED <<registry, batch, broken, people, troubles>>
              /\ Done
          BY <3>1, <3>3 DEF WriteOnce, Written
        <4>2. CASE Job.name \in {"selection", "ablation", "hold", "outcome"}
          BY <2>1, <2>3, <3>3, <4>1, <4>2 DEF ArtifactSealed
        <4>3. CASE Job.name \notin {"selection", "ablation", "hold", "outcome"}
          <5>1. PICK n : n = Job.name
            OBVIOUS
          <5>2. says' = says
            BY <4>1, <4>3 DEF Content
          <5>3. n \in Artifact \ {"selection", "ablation", "hold", "outcome"} /\ n # "plan"
            BY <2>1, <4>3, <5>1, SealNames, JobKnown DEF Phase
          <5>4. <<n, 0>> \in Paper \ Telling
            BY <5>3 DEF Paper, Telling
          <5> QED
            BY <4>1, <5>1, <5>2, <5>4
        <4> QED
          BY <4>2, <4>3
      <3> QED
        BY <3>2, <3>3
    <2> QED
      BY <2>2, <2>3
  <1> QED
    BY <1>1, <1>2, <1>3, <1>4, Frames

(* A batch is paid for when it may run and is not there.                   *)
BatchPaid(s, k) ==
    /\ MayRun(s, k)
    /\ batch[<<s, k>>] = "none"
    /\ \E r : /\ r # "none" /\ (r = "inexact" => "inexact" \in Trouble)
             /\ batch' = [batch EXCEPT ![<<s, k>>] = r]
    /\ UNCHANGED <<registry, whole, broken, says, people>>

LEMMA BatchChange ==
    ASSUME IInv, Next
    PROVE  batch' = batch \/ \E s \in Stage, k \in Snap : BatchPaid(s, k)
  <1>1. ASSUME NEW s \in Stage, NEW k \in Snap, NEW who, MayRun(s, k), batch[<<s, k>>] = "none",
               PayBatch(s, k, who), UNCHANGED <<registry, whole, broken, says, people>>
        PROVE  BatchPaid(s, k)
    <2>1. \A r \in Results(s, k) : r # "none"
      BY DEF Results
    <2>2. PICK r \in Results(s, k) :
             /\ batch' = [batch EXCEPT ![<<s, k>>] = r]
             /\ who \union ({r} \intersect {"hold", "inexact"}) \subseteq Trouble
      BY <1>1 DEF PayBatch, Happens
    <2> QED
      BY <1>1, <2>1, <2>2 DEF BatchPaid
  <1>2. CASE SourceBatch
    <2>1. CompletedStage("update_source", 0, Go("diagnose")) /\ "update_source" \in Stage /\ 0 \in Snap
      BY <1>2, Names DEF SourceBatch
    <2>2. CASE RunStage("update_source", 0, Go("diagnose"))
      <3>1. BatchPaid("update_source", 0)
        BY <1>1, <2>1, <2>2 DEF RunStage
      <3> QED
        BY <2>1, <3>1
    <2>3. CASE ReuseStage("update_source", 0, Go("diagnose")) \/ RefuseStage("update_source", 0)
      BY <2>3 DEF ReuseStage, RefuseStage, KeepDisk, evidence
    <2> QED
      BY <2>1, <2>2, <2>3 DEF CompletedStage
  <1>3. CASE RunBatch
    <2>1. PICK s, k : s = Job.name /\ k = Job.on
      OBVIOUS
    <2>2. CompletedStage(s, k, Done) /\ s \in Stage /\ k \in Snap
      BY <1>3, <2>1, Names, JobKnown DEF RunBatch, Doing, AnyJob
    <2>3. CASE RunStage(s, k, Done)
      <3>1. BatchPaid(s, k)
        BY <1>1, <2>2, <2>3 DEF RunStage
      <3> QED
        BY <2>2, <3>1
    <2>4. CASE ReuseStage(s, k, Done) \/ RefuseStage(s, k)
      BY <2>4 DEF ReuseStage, RefuseStage, KeepDisk, evidence
    <2> QED
      BY <2>2, <2>3, <2>4 DEF CompletedStage
  <1>4. ASSUME NEW s \in Stage, NEW k \in Snap, StageCommand(s, k) PROVE BatchPaid(s, k)
    BY <1>1, <1>4 DEF StageCommand
  <1> QED
    BY <1>2, <1>3, <1>4, Frames

(* The disk grows.                                                         *)
LEMMA Growing ==
    ASSUME IInv, Next
    PROVE  Grow
  <1>1. \A k \in Snap : snap[k] = "whole" => snap'[k] = "whole"
    <2>1. CASE EnsureBaseline \/ FreezeBaseline
      BY <2>1, Names DEF EnsureBaseline, FreezeBaseline, IInv, TypeOK
    <2>2. CASE StoreChild
      BY <2>2 DEF StoreChild, IInv, TypeOK
    <2>3. CASE Tear /\ TearSnapshot
      BY <2>3 DEF TearSnapshot, IInv, TypeOK
    <2> QED
      BY <2>1, <2>2, <2>3, Frames
  <1>2. \A b \in Stage \X Snap : batch[b] # "none" => batch'[b] = batch[b]
    <2>1. ASSUME NEW s \in Stage, NEW k \in Snap, BatchPaid(s, k)
          PROVE  \A b \in Stage \X Snap : batch[b] # "none" => batch'[b] = batch[b]
      BY <2>1 DEF BatchPaid, IInv, TypeOK
    <2> QED
      BY <2>1, BatchChange
  <1>3. whole \subseteq whole'
    BY PaperChange DEF PlanWritten, ArtifactSealed
  <1>4. broken \subseteq broken' /\ meta \subseteq meta'
    BY Frames DEF TearPaper, PreserveRaw
  <1> QED
    BY <1>1, <1>2, <1>3, <1>4 DEF Grow

(* The source, the baseline and the ablation stay of one revision.         *)
LEMMA EditStep ==
    ASSUME IInv, EditInv, Next
    PROVE  EditInv'
  <1> SUFFICES ASSUME ~edited'
               PROVE  /\ rev' = 1
                      /\ snap'[0] = "whole" => base' = 1
                      /\ <<"ablation", 0>> \in whole' => says'.ablation = 1
    BY DEF EditInv
  <1>1. /\ rev = 1 /\ rev' = 1
        /\ snap[0] = "whole" => base = 1
        /\ <<"ablation", 0>> \in whole => says.ablation = 1
    BY Frames DEF EditInv
  <1>2. snap'[0] = "whole" => base' = 1
    <2>1. CASE EnsureBaseline \/ FreezeBaseline
      <3>1. UNCHANGED <<snap, base>> \/ base' = rev
        BY <2>1 DEF EnsureBaseline, FreezeBaseline
      <3> QED
        BY <1>1, <3>1
    <2>2. CASE StoreChild
      <3>1. PICK k : k = Job.on
        OBVIOUS
      <3>2. k \in Slot /\ base' = base /\ (snap' = snap \/ snap' = [snap EXCEPT ![k] = "whole"])
        BY <2>2, <3>1, JobKnown DEF StoreChild, Doing
      <3>3. snap'[0] = snap[0]
        BY <3>2, Names DEF IInv, TypeOK
      <3> QED
        BY <1>1, <3>2, <3>3
    <2>3. CASE Tear /\ TearSnapshot
      <3>1. base' = base /\ \E k \in Snap : snap' = [snap EXCEPT ![k] = "partial"]
        BY <2>3 DEF Tear, TearSnapshot
      <3>2. snap'[0] = "whole" => snap[0] = "whole"
        BY <3>1, Names DEF IInv, TypeOK
      <3> QED
        BY <1>1, <3>1, <3>2
    <2> QED
      BY <1>1, <2>1, <2>2, <2>3, Frames
  <1>3. <<"ablation", 0>> \in whole' => says'.ablation = 1
    <2>1. CASE says' = says /\ \E p \in Paper \ Telling : whole' = whole \union {p}
      BY <1>1, <2>1 DEF Telling
    <2>2. CASE PlanWritten
      BY <1>1, <2>2 DEF PlanWritten, IInv, TypeOK
    <2>3. CASE ArtifactSealed
      <3>1. PICK n : n = Job.name
        OBVIOUS
      <3>2. CASE n = "ablation"
        BY <1>1, <2>3, <3>1, <3>2 DEF ArtifactSealed, Content, IInv, TypeOK
      <3>3. CASE n # "ablation"
        <4>1. says'.ablation = says.ablation
          BY <2>3, <3>1, <3>3 DEF ArtifactSealed, Content, IInv, TypeOK
        <4> QED
          BY <1>1, <2>3, <3>1, <3>3, <4>1 DEF ArtifactSealed
      <3> QED
        BY <3>2, <3>3
    <2> QED
      BY <1>1, <2>1, <2>2, <2>3, PaperChange
  <1> QED
    BY <1>1, <1>2, <1>3

(* What was selected of batches that are there stays selected.             *)
LEMMA SelectionSame ==
    ASSUME TypeOK, Grow, Chosen' = Chosen, \A k \in Chosen : batch[<<"selection", k>>] # "none"
    PROVE  /\ Native' = Native /\ Governed' = Governed
           /\ \A k \in Chosen : batch'[<<"selection", k>>] # "none"
  <1>1. \A k \in Chosen : <<"selection", k>> \in Stage \X Snap
    BY Names DEF TypeOK, Chosen
  <1>2. \A k \in Chosen : batch'[<<"selection", k>>] = batch[<<"selection", k>>]
    BY <1>1 DEF Grow
  <1>3. Native' = Native
    BY DEF Native
  <1>4. Better' = Better
    BY <1>2 DEF Better
  <1>5. Governed' = Governed
    BY <1>4 DEF Governed
  <1> QED
    BY <1>2, <1>3, <1>5

(* When the last job is at the front of the queue, the others were done.   *)
LEMMA LastJob ==
    ASSUME IInv, pc \in Phase, pc # "release", work # <<>>, Job = Seal(LastSeal(pc))
    PROVE  Tail(work) = <<>> /\ \A j \in JobsOf(pc) : j # Job => Effect(j)
  <1>1. /\ work \in Seq(AnyJob) /\ EndsWith(work, LastSeal(pc))
        /\ \A j \in JobsOf(pc) : j \in Range(work) \/ Effect(j)
    BY DEF IInv, ControlInv, WorkInv
  <1>2. Range(work) = {Job} \union Range(Tail(work)) /\ Tail(work) = <<>>
    BY <1>1, TailOfQueue DEF Job
  <1>3. Range(Tail(work)) = {}
    BY <1>2 DEF Range
  <1> QED
    BY <1>1, <1>2, <1>3

LEMMA SelectionStep ==
    ASSUME IInv, SelectionInv, Next
    PROVE  SelectionInv'
  <1>0. Grow
    BY Growing
  <1>1. ASSUME says'.plan = says.plan, says'.native = says.native, says'.governed = says.governed,
               <<"selection", 0>> \in whole' <=> <<"selection", 0>> \in whole
        PROVE  SelectionInv'
    <2>1. Chosen' = Chosen
      BY <1>1 DEF Chosen
    <2>2. <<"plan", 0>> \notin whole' => Chosen' = {}
      BY <1>0, <2>1 DEF Grow, SelectionInv
    <2>3. <<"selection", 0>> \in whole' =>
             /\ \A k \in Chosen' : batch'[<<"selection", k>>] # "none"
             /\ says'.native = Native' /\ says'.governed = Governed'
      BY <1>0, <1>1, <2>1, SelectionSame DEF SelectionInv, IInv
    <2>4. ASSUME NEW s \in Release, NEW k \in Snap, batch'[<<s, k>>] # "none"
          PROVE  <<"selection", 0>> \in whole' /\ says'.governed # 0
      <3>1. CASE batch[<<s, k>>] # "none"
        BY <1>1, <3>1 DEF SelectionInv
      <3>2. CASE batch[<<s, k>>] = "none"
        <4>1. PICK t \in Stage, l \in Snap : BatchPaid(t, l)
          BY <2>4, <3>2, BatchChange
        <4>2. t = s
          <5>1. <<s, k>> \in Stage \X Snap
            BY Names
          <5>2. <<s, k>> = <<t, l>>
            BY <2>4, <3>2, <4>1, <5>1 DEF BatchPaid, IInv, TypeOK
          <5> QED
            BY <5>2
        <4>3. ReleaseAuthorized /\ says.governed # 0
          BY <4>1, <4>2 DEF BatchPaid, MayRun
        <4> QED
          BY <1>1, <4>3 DEF ReleaseAuthorized
      <3> QED
        BY <3>1, <3>2
    <2> QED
      BY <2>2, <2>3, <2>4 DEF SelectionInv
  <1>2. CASE UNCHANGED <<whole, says>>
    BY <1>1, <1>2
  <1>3. CASE says' = says /\ \E p \in Paper \ Telling : whole' = whole \union {p}
    BY <1>1, <1>3 DEF Telling
  <1>4. CASE PlanWritten /\ UNCHANGED <<registry, batch, people>>
    <2>1. <<"selection", 0>> \notin whole /\ <<"selection", 0>> \notin whole'
          /\ <<"plan", 0>> \in whole' /\ batch' = batch
      BY <1>4 DEF PlanWritten, Written, IInv, DiskInv, PlanInv
    <2> QED
      BY <2>1 DEF SelectionInv
  <1>5. CASE ArtifactSealed /\ UNCHANGED <<registry, batch, people>>
    <2>1. PICK n : n = Job.name
      OBVIOUS
    <2>2. CASE n # "selection"
      <3>1. says'.plan = says.plan /\ says'.native = says.native /\ says'.governed = says.governed
        BY <1>5, <2>1, <2>2 DEF ArtifactSealed, Content, IInv, TypeOK
      <3>2. <<"selection", 0>> \in whole' <=> <<"selection", 0>> \in whole
        BY <1>5, <2>1, <2>2 DEF ArtifactSealed
      <3> QED
        BY <1>1, <3>1, <3>2
    <2>3. CASE n = "selection"
      <3>1. /\ says'.plan = says.plan /\ says'.native = Native /\ says'.governed = Governed
            /\ batch' = batch /\ whole' = whole \union {<<"selection", 0>>}
            /\ <<"selection", 0>> \notin whole
        BY <1>5, <2>1, <2>3 DEF ArtifactSealed, Content, Written, IInv, TypeOK
      <3>2. Chosen' = Chosen /\ Native' = Native /\ Governed' = Governed
        BY <3>1 DEF Chosen, Native, Governed, Better
      <3>3. pc = "evaluation" /\ Job = Seal("selection")
        BY <1>5, <2>1, <2>3, SealNames DEF ArtifactSealed, Phase
      <3>4. \A k \in Chosen : batch[<<"selection", k>>] # "none"
        BY <1>5, <3>3, SelectionReady DEF ArtifactSealed
      <3>5. <<"plan", 0>> \in whole
        BY <3>3 DEF IInv, ControlInv, PastInv, AfterPlan, Phase
      <3>6. \A s \in Release, k \in Snap : batch[<<s, k>>] = "none"
        BY <3>1 DEF SelectionInv
      <3> QED
        BY <3>1, <3>2, <3>4, <3>5, <3>6 DEF SelectionInv
    <2> QED
      BY <2>2, <2>3
  <1> QED
    BY <1>2, <1>3, <1>4, <1>5, PaperChange

(* Where the command goes.                                                 *)
EarlyPlaces == {"again", "baseline", "source", "diagnose", "authorize"}

JobMove ==
    /\ pc \in Phase /\ work # <<>> /\ Done
    /\ StoreChild \/ RunBatch \/ Transition \/ SealArtifact

LoopMove ==
    \/ AuthorizeUpdater \/ LoadProposal \/ StartUpdater \/ UpdaterReturns
    \/ MakeDirectory \/ Register \/ PreserveRaw \/ NextProposal

LEMMA Moves ==
    ASSUME IInv, Next
    PROVE  \/ UNCHANGED <<pc, at, seen, work>>
           \/ pc' = "idle" /\ work' = <<>> /\ seen' = {}
           \/ pc' \in EarlyPlaces
           \/ LoopMove \/ (WritePlan /\ pc' = "planned") \/ Plan
           \/ BranchHold \/ BranchRelease \/ Conclude
           \/ JobMove
  <1>1. ASSUME NEW why, End(why)
        PROVE  pc' = "idle" /\ work' = <<>> /\ seen' = {}
    BY <1>1 DEF End
  <1>2. CASE Start \/ StartAgain \/ VerifyAgain \/ EnsureBaseline \/ Diagnose
    <2>1. (\E why : End(why)) \/ pc' \in EarlyPlaces
      BY <1>2 DEF Start, StartAgain, VerifyAgain, EnsureBaseline, Diagnose, WriteOnce, Go, EarlyPlaces
    <2> QED
      BY <1>1, <2>1
  <1>3. CASE SourceBatch
    <2>1. (\E why : End(why)) \/ Go("diagnose")
      BY <1>3 DEF SourceBatch, CompletedStage, RunStage, ReuseStage, RefuseStage
    <2> QED
      BY <1>1, <2>1 DEF Go, EarlyPlaces
  <1>4. CASE UpdaterFails \/ Decided \/ Interrupt \/ Tear
    BY <1>1, <1>4 DEF UpdaterFails, Decided, Interrupt, Tear
  <1>5. CASE WritePlan
    <2>1. (\E why : End(why)) \/ Go("planned")
      BY <1>5 DEF WritePlan, WriteOnce
    <2> QED
      BY <1>1, <1>5, <2>1 DEF Go
  <1>6. CASE WriteLifecycle
    <2>1. (\E why : End(why)) \/ Stay
      BY <1>6 DEF WriteLifecycle, WriteOnce
    <2> QED
      BY <1>1, <2>1 DEF Stay, local
  <1>7. CASE StoreChild
    <2>1. pc \in Phase /\ work # <<>>
      BY <1>7 DEF StoreChild, Doing
    <2>2. (\E why : End(why)) \/ Done
      BY <1>7 DEF StoreChild
    <2> QED
      BY <1>1, <1>7, <2>1, <2>2 DEF JobMove
  <1>8. CASE RunBatch
    <2>1. pc \in Phase /\ work # <<>>
      BY <1>8 DEF RunBatch, Doing
    <2>2. (\E why : End(why)) \/ Done
      BY <1>8 DEF RunBatch, CompletedStage, RunStage, ReuseStage, RefuseStage
    <2> QED
      BY <1>1, <1>8, <2>1, <2>2 DEF JobMove
  <1>9. CASE Transition
    <2>1. pc \in Phase /\ work # <<>>
      BY <1>9 DEF Transition, Doing
    <2>2. (\E why : End(why)) \/ Done
      BY <1>9 DEF Transition
    <2> QED
      BY <1>1, <1>9, <2>1, <2>2 DEF JobMove
  <1>10. CASE SealArtifact
    <2>1. pc \in Phase /\ work # <<>>
      BY <1>10 DEF SealArtifact, Doing
    <2>2. (\E why : End(why)) \/ Done
      BY <1>10 DEF SealArtifact, WriteOnce
    <2> QED
      BY <1>1, <1>10, <2>1, <2>2 DEF JobMove
  <1>11. CASE AuthorizePreRelease \/ AuthorizeRelease \/ EditSource \/ EditHarness \/ FreezeBaseline
    BY <1>11 DEF AuthorizePreRelease, AuthorizeRelease, EditSource, EditHarness, FreezeBaseline, local
  <1>12. ASSUME NEW s \in Stage, NEW k \in Snap, StageCommand(s, k)
         PROVE  UNCHANGED <<pc, at, seen, work>>
    BY <1>12 DEF StageCommand, local
  <1> QED
    BY <1>2, <1>3, <1>4, <1>5, <1>6, <1>7, <1>8, <1>9, <1>10, <1>11, <1>12
       DEF Next, Command, Propose, Evaluate, People, LoopMove

(* A sealed HOLD stands.                                                   *)
EndsInv ==
    /\ ~(Written(<<"hold", 0>>) /\ Written(<<"outcome", 0>>))
    /\ Written(<<"hold", 0>>) /\ pc = "hold" => work = <<>>
    /\ {<<"hold", 0>>, <<"outcome", 0>>} \intersect whole # {} => snap[0] = "whole"
    /\ <<"hold", 0>> \in whole => HoldStands

LEMMA HoldStays ==
    ASSUME IInv, IInv', EndsInv, Next, <<"hold", 0>> \in whole
    PROVE  HoldStands'
  <1>1. Grow
    BY Growing
  <1>2. pc \in {"idle", "again", "hold"} /\ (pc \in Phase => work = <<>>)
    BY DEF IInv, ControlInv, EndInv, EndsInv, Written, Phase
  <1>3. slot' = slot
    BY <1>2, Frames DEF MakeDirectory, Register, Transition, TearEvent, Doing
  <1>4. says' = says
    BY <1>2, PaperChange DEF PlanWritten, ArtifactSealed
  <1>5. /\ Chosen' = Chosen /\ Chosen \subseteq Slot
        /\ HoldStands
    BY <1>4 DEF Chosen, EndsInv, IInv, TypeOK
  <1>6. ASSUME NEW S \in SUBSET Snap, NEW T \in SUBSET Stage, BatchesOf(S, T)
        PROVE  BatchesOf(S, T)'
    <2> SUFFICES ASSUME NEW b \in T \X S PROVE batch'[b] \notin {"none", "hold"}
      BY DEF BatchesOf
    <2>1. b \in Stage \X Snap /\ batch[b] \notin {"none", "hold"}
      BY <1>6 DEF BatchesOf
    <2> QED
      BY <1>1, <2>1 DEF Grow
  <1>7. {0} \subseteq Snap /\ {0} \union Chosen \subseteq Snap
        /\ {"update_source"} \subseteq Stage /\ {"update_check", "selection"} \subseteq Stage
    BY <1>5, Names
  <1>8. BatchesOf({0}, {"update_source"})'
    BY <1>5, <1>6, <1>7 DEF HoldStands
  <1>9. BatchesOf({0} \union Chosen, {"update_check", "selection"})'
    <2>1. BatchesOf({0} \union Chosen, {"update_check", "selection"})
      BY <1>5 DEF HoldStands
    <2>2. PICK S \in SUBSET Snap : S = {0} \union Chosen /\ S' = S
      BY <1>5, <1>7
    <2> QED
      BY <1>5, <1>6, <1>7, <2>1 DEF BatchesOf
  <1>10. \A b \in Release \X Snap : batch'[b] = "none"
    <2> SUFFICES ASSUME NEW b \in Release \X Snap, batch'[b] # "none" PROVE FALSE
      OBVIOUS
    <2>1. batch[b] = "none"
      BY <1>5 DEF HoldStands
    <2>2. PICK s \in Stage, k \in Snap : BatchPaid(s, k)
      BY <2>1, BatchChange
    <2>3. b = <<s, k>>
      BY <2>1, <2>2, Names DEF BatchPaid, IInv, TypeOK
    <2>4. s \in Release
      BY <2>3
    <2> QED
      BY <2>2, <2>4 DEF BatchPaid, MayRun, Written
  <1>11. <<"hold", 0>> \in whole' /\ <<"hold", 0>> \notin broken' /\ says'.cost = spent'
         /\ {<<"selection", 0>>, <<"lineage", 0>>} \subseteq whole'
    BY <1>1, <1>5 DEF Grow, IInv, DiskInv, HoldCostStands, HoldStands
  <1>12. says'.governed = 0
    BY <1>4, <1>5 DEF HoldStands
  <1>13. \A k \in Chosen' : snap'[k] = "whole" /\ slot'[k] = "held"
    BY <1>1, <1>3, <1>5, Names DEF HoldStands, Grow
  <1> QED
    BY <1>8, <1>9, <1>10, <1>11, <1>12, <1>13 DEF HoldStands

(* All of the hold phase is done when the HOLD is sealed.                  *)
LEMMA HoldReady ==
    ASSUME IInv, IInv', EndsInv, SelectionInv, ArtifactSealed, UNCHANGED <<registry, batch, people>>,
           Job.name = "hold"
    PROVE  HoldStands' /\ pc = "hold" /\ work' = <<>>
  <1>1. /\ pc = "hold" /\ Job = Seal("hold") /\ work # <<>> /\ work' = Tail(work)
        /\ whole' = whole \union {<<"hold", 0>>}
        /\ UNCHANGED <<slot, snap, spent, batch>>
    BY SealNames DEF ArtifactSealed, Done, Phase, registry
  <1>2. work' = <<>> /\ \A j \in HoldJobs : j # Seal("hold") => Effect(j)
    BY <1>1, LastJob DEF LastSeal, JobsOf, Phase
  <1>3. says'.plan = says.plan /\ says'.governed = says.governed /\ says.governed = 0
    <2>1. says' = [says EXCEPT !.cost = spent]
      BY <1>1 DEF ArtifactSealed, Content, Seal
    <2>2. says.governed = 0
      BY <1>1 DEF IInv, ControlInv, PastInv
    <2> QED
      BY <2>1, <2>2 DEF IInv, TypeOK
  <1>4. Chosen' = Chosen /\ Chosen \subseteq Slot /\ <<"plan", 0>> \in whole
    BY <1>1, <1>3 DEF Chosen, IInv, TypeOK, ControlInv, PastInv, AfterPlan, Phase
  <1>5. <<"lineage", 0>> \in whole
    <2>1. Seal("lineage") \in HoldJobs /\ Seal("lineage") # Seal("hold")
      BY DEF HoldJobs, Seal
    <2> QED
      BY <1>2, <2>1 DEF Effect, Seal
  <1>6. \A k \in Chosen : slot[k] = "held"
    <2> TAKE k \in Chosen
    <2>1. Advance(k, "held") \in HoldJobs /\ Advance(k, "held") # Seal("hold")
      BY DEF HoldJobs, Advance, Seal
    <2>2. Effect(Advance(k, "held"))
      BY <1>2, <2>1
    <2> QED
      BY <2>2 DEF Effect, Advance, Final
  <1>7. \A j \in EvaluationJobs : Effect(j)
    BY <1>1 DEF IInv, ControlInv, PastInv
  <1>8. \A k \in Chosen : snap[k] = "whole"
    <2> TAKE k \in Chosen
    <2>1. Effect(Store(k))
      BY <1>7 DEF EvaluationJobs
    <2> QED
      BY <2>1 DEF Effect, Store
  <1>9. <<"selection", 0>> \in whole
    <2>1. Effect(Seal("selection"))
      BY <1>7 DEF EvaluationJobs
    <2> QED
      BY <2>1 DEF Effect, Seal
  <1>10. BatchesOf({0} \union Chosen, {"update_check", "selection"})
    <2>1. ASSUME NEW s \in {"update_check", "selection"}, NEW k \in {0} \union Chosen
          PROVE  batch[<<s, k>>] \notin {"none", "hold"}
      <3>1. Effect(Batch(s, k))
        BY <1>7 DEF EvaluationJobs
      <3> QED
        BY <3>1 DEF Effect, Batch
    <2> QED
      BY <2>1, Pairs
  <1>11. BatchesOf({0}, {"update_source"})
    <2>1. batch[<<"update_source", 0>>] \notin {"none", "hold"}
      BY <1>1 DEF IInv, ControlInv, PastInv
    <2> QED
      BY <2>1 DEF BatchesOf
  <1>12. \A b \in Release \X Snap : batch[b] = "none"
    BY <1>3 DEF SelectionInv
  <1>13. <<"hold", 0>> \in whole' /\ <<"hold", 0>> \notin broken' /\ says'.cost = spent'
    BY <1>1 DEF IInv, DiskInv, HoldCostStands
  <1> QED
    BY <1>1, <1>2, <1>3, <1>4, <1>5, <1>6, <1>8, <1>9, <1>10, <1>11, <1>12, <1>13
       DEF HoldStands, BatchesOf

(* A paper whose writing is torn is that of the job.                       *)
LEMMA TornPaper ==
    ASSUME IInv, Tear, TearPaper
    PROVE  \E p \in Paper : /\ ~Written(p) /\ broken' = broken \union {p}
                            /\ p = <<"hold", 0>> => pc = "hold"
                            /\ p = <<"outcome", 0>> => pc = "decision"
  <1>1. PICK p \in Pending : ~Written(p) /\ broken' = broken \union {p}
    BY DEF TearPaper
  <1>2. CASE p \in {<<"diagnosis", 0>>, <<"plan", 0>>}
    BY <1>1, <1>2 DEF Paper, Artifact
  <1>3. CASE p \notin {<<"diagnosis", 0>>, <<"plan", 0>>}
    <2>1. PICK job : job = Job
      OBVIOUS
    <2>2. \/ Doing("advance") /\ p = <<job.name, job.on>>
          \/ Doing("seal") /\ p = <<job.name, 0>>
      BY <1>1, <1>3, <2>1 DEF Pending
    <2>3. CASE Doing("advance") /\ p = <<job.name, job.on>>
      <3>1. job.name \in Status /\ job.on \in Slot
        BY <2>1, <2>3, JobKnown DEF Doing
      <3> QED
        BY <1>1, <2>3, <3>1, Names DEF Paper
    <2>4. CASE Doing("seal") /\ p = <<job.name, 0>>
      <3>1. pc \in Phase /\ work # <<>> /\ Job.do = "seal"
        BY <2>4 DEF Doing
      <3>2. job.name \in Artifact
        BY <2>1, <3>1, JobKnown
      <3>3. job.name = "hold" => pc = "hold"
        BY <2>1, <3>1, SealNames DEF Phase
      <3>4. job.name = "outcome" => pc = "decision"
        BY <2>1, <3>1, SealNames DEF Phase
      <3> QED
        BY <1>1, <2>4, <3>2, <3>3, <3>4 DEF Paper
    <2> QED
      BY <2>2, <2>3, <2>4
  <1> QED
    BY <1>2, <1>3

LEMMA EndsStep ==
    ASSUME IInv, IInv', SelectionInv, EndsInv, Next
    PROVE  EndsInv'
  <1>0. Grow
    BY Growing
  <1>1. Written(<<"hold", 0>>) => pc # "decision"
    BY DEF IInv, ControlInv, EndInv
  <1>2. Written(<<"outcome", 0>>) => pc # "hold"
    BY DEF IInv, ControlInv, EndInv
  <1>3. ASSUME NEW a \in {"hold", "outcome"}, <<a, 0>> \in whole', <<a, 0>> \notin whole
        PROVE  /\ ArtifactSealed /\ UNCHANGED <<registry, batch, people>> /\ Job.name = a
               /\ a = "hold" => pc = "hold"
               /\ a = "outcome" => pc = "decision"
    <2>1. ArtifactSealed /\ UNCHANGED <<registry, batch, people>>
      BY <1>3, PaperChange DEF Telling, PlanWritten
    <2>2. Job.name = a
      BY <1>3, <2>1 DEF ArtifactSealed
    <2> QED
      BY <2>1, <2>2, SealNames DEF ArtifactSealed, Phase
  <1>4. ASSUME NEW a \in {"hold", "outcome"}, Written(<<a, 0>>)', ~Written(<<a, 0>>)
        PROVE  /\ a = "hold" => pc = "hold"
               /\ a = "outcome" => pc = "decision"
    <2>1. CASE <<a, 0>> \in whole'
      BY <1>3, <1>4, <2>1 DEF Written
    <2>2. CASE <<a, 0>> \in broken' /\ <<a, 0>> \notin broken
      BY <2>2, Frames, TornPaper
    <2> QED
      BY <1>4, <2>1, <2>2 DEF Written
  <1>5. ~(Written(<<"hold", 0>>)' /\ Written(<<"outcome", 0>>)')
    BY <1>1, <1>2, <1>4 DEF EndsInv
  <1>6. Written(<<"hold", 0>>)' /\ pc' = "hold" => work' = <<>>
    <2> SUFFICES ASSUME Written(<<"hold", 0>>)', pc' = "hold" PROVE work' = <<>>
      OBVIOUS
    <2>1. CASE Written(<<"hold", 0>>)
      <3>1. pc \in {"idle", "again", "hold"} /\ (pc = "hold" => work = <<>>)
        BY <2>1 DEF EndsInv, IInv, ControlInv, EndInv
      <3>2. UNCHANGED <<pc, at, seen, work>>
        BY <3>1, Moves DEF EarlyPlaces, LoopMove, AuthorizeUpdater, LoadProposal, StartUpdater,
           UpdaterReturns, EndUpdater, MakeDirectory, Register, PreserveRaw, NextProposal, Plan,
           BranchHold, BranchRelease, Conclude, NextPhase, JobMove, Phase
      <3> QED
        BY <3>1, <3>2
    <2>2. CASE ~Written(<<"hold", 0>>)
      <3>1. CASE <<"hold", 0>> \in whole'
        BY <1>3, <2>2, <3>1, HoldReady DEF Written
      <3>2. CASE <<"hold", 0>> \in broken'
        <4>1. Tear
          BY <2>2, <3>2, Frames DEF Written
        <4> QED
          BY <4>1 DEF Tear, End
      <3> QED
        BY <3>1, <3>2 DEF Written
    <2> QED
      BY <2>1, <2>2
  <1>7. {<<"hold", 0>>, <<"outcome", 0>>} \intersect whole' # {} => snap'[0] = "whole"
    <2>1. CASE {<<"hold", 0>>, <<"outcome", 0>>} \intersect whole # {}
      BY <1>0, <2>1, Names DEF Grow, EndsInv
    <2>2. ASSUME NEW a \in {"hold", "outcome"}, <<a, 0>> \in whole', <<a, 0>> \notin whole
          PROVE  snap'[0] = "whole"
      <3>1. pc \in {"hold", "decision"}
        BY <1>3, <2>2
      <3>2. snap[0] = "whole"
        BY <3>1 DEF IInv, ControlInv, PastInv
      <3> QED
        BY <1>0, <3>2, Names DEF Grow
    <2> QED
      BY <2>1, <2>2
  <1>8. <<"hold", 0>> \in whole' => HoldStands'
    BY <1>3, HoldStays, HoldReady
  <1> QED
    BY <1>5, <1>6, <1>7, <1>8 DEF EndsInv, Written

(* The statuses of candidates.                                             *)

(* The statuses before one that the evaluation or the release reaches.     *)
Behind(s) ==
    CASE s = "update_evaluated" -> {"checked"}
      [] s = "selection_evaluated" -> {"checked", "update_evaluated"}
      [] s = "release_evaluated" -> {"checked", "update_evaluated", "selection_evaluated"}
      [] OTHER -> {}

Advanced(j) == j.do = "advance" => slot[j.on] \notin Behind(j.name)

(* What a phase did to the statuses of the candidates: none is final       *)
(* before the phase that ends the experiment, and none falls behind.       *)
StatusInv ==
    /\ pc \in {"planned", "evaluation", "release"} => \A k \in Chosen : slot[k] # "held"
    /\ pc = "evaluation" => \A k \in Chosen :
          slot[k] = "ship_recommended" => Advance(k, "update_evaluated") \in Range(work)
    /\ pc = "release" => \A k \in Chosen : slot[k] # "ship_recommended"
    /\ pc = "evaluation" => \A j \in EvaluationJobs : j \in Range(work) \/ Advanced(j)
    /\ pc = "release" => \A j \in ReleaseJobs : j \in Range(work) \/ Advanced(j)
    /\ pc \in {"hold", "release", "decision"} => \A j \in EvaluationJobs : Advanced(j)
    /\ pc = "decision" => \A j \in ReleaseJobs : Advanced(j)
    /\ pc = "decision" => \A k \in Roles : slot[k] \in Final => slot[k] = Decision(k)

(* The places of the statuses in Progress.                                 *)
LEMMA Ranks ==
    /\ Rank("checked") = 1 /\ Rank("update_evaluated") = 2
    /\ Rank("selection_evaluated") = 3 /\ Rank("release_evaluated") = 4
  <1>1. /\ DOMAIN Progress = 1..4
        /\ Progress[1] = "checked" /\ Progress[2] = "update_evaluated"
        /\ Progress[3] = "selection_evaluated" /\ Progress[4] = "release_evaluated"
    BY DEF Progress
  <1>2. \A i \in 1..4 : i = 1 \/ i = 2 \/ i = 3 \/ i = 4
    OBVIOUS
  <1>3. ASSUME NEW i \in 1..4 PROVE Rank(Progress[i]) = i
    <2> DEFINE s == Progress[i]
    <2>1. \A j \in DOMAIN Progress : Progress[j] = s => j = i
      BY <1>1, <1>2
    <2>2. i \in DOMAIN Progress /\ Progress[i] = s
      BY <1>1
    <2> HIDE DEF s
    <2>3. Rank(s) = i
      BY <2>1, <2>2 DEF Rank
    <2> QED
      BY <2>3 DEF s
  <1> QED
    BY <1>1, <1>3

(* A status that is passed or reached lies not behind, and the transitions *)
(* lead forward.                                                           *)
LEMMA Forward ==
    ASSUME NEW from, NEW to
    PROVE  /\ Passed(from, to) => from \notin Behind(to)
           /\ to \notin Behind(to)
           /\ Allowed(from, to) => \A s : from \notin Behind(s) => to \notin Behind(s)
           /\ Allowed(from, to) => from \in Status /\ to \in Status /\ from # "held"
           /\ (Allowed(from, to) /\ to # "held") => from # "ship_recommended"
           /\ (to \in Range(Progress) /\ from = "ship_recommended")
                  => ~Passed(from, to) /\ ~Allowed(from, to)
  <1>1. ASSUME from \in Range(Progress), to \in Range(Progress), Rank(from) > Rank(to)
        PROVE  from \notin Behind(to)
    BY <1>1, StatusNames, Ranks DEF Behind
  <1>2. ASSUME from \in Range(Progress), to \in Range(Progress), Rank(to) = Rank(from) + 1
        PROVE  \A s : from \notin Behind(s) => to \notin Behind(s)
    BY <1>2, StatusNames, Ranks DEF Behind
  <1>3. to \notin Behind(to)
    BY DEF Behind
  <1>4. Passed(from, to) => from \notin Behind(to)
    <2>1. "held" \notin Behind(to)
      BY DEF Behind
    <2> QED
      BY <1>1, <1>3, <2>1 DEF Passed
  <1>5. Allowed(from, to) => \A s : from \notin Behind(s) => to \notin Behind(s)
    <2>1. \A s : "held" \notin Behind(s) /\ "ship_recommended" \notin Behind(s)
      BY DEF Behind
    <2> QED
      BY <1>2, <2>1 DEF Allowed
  <1>6. Allowed(from, to) => from \in Status /\ to \in Status /\ from # "held"
    BY StatusNames DEF Allowed
  <1>7. (Allowed(from, to) /\ to # "held") => from # "ship_recommended"
    BY StatusNames DEF Allowed
  <1>8. (to \in Range(Progress) /\ from = "ship_recommended")
            => ~Passed(from, to) /\ ~Allowed(from, to)
    BY StatusNames DEF Passed, Allowed
  <1> QED
    BY <1>3, <1>4, <1>5, <1>6, <1>7, <1>8

(* The job in hand is about a candidate of the plan.                       *)
LEMMA AdvanceJob ==
    ASSUME IInv, pc \in Phase, work # <<>>, Job.do = "advance"
    PROVE  /\ Job.on \in Chosen /\ Job = Advance(Job.on, Job.name)
           /\ pc = "evaluation" => Job.name \in {"update_evaluated", "selection_evaluated"}
           /\ pc = "hold" => Job.name = "held"
           /\ pc = "release" => Job.name = "release_evaluated"
           /\ pc \in {"release", "decision"} => Job.on \in Roles
           /\ pc = "decision" => Job.name = Decision(Job.on)
  <1>1. PICK job : job = Job
    OBVIOUS
  <1>2. job \in JobsOf(pc) /\ job.do = "advance"
    BY <1>1, JobKnown
  <1>3. pc \in {"release", "decision"} => Roles \subseteq Chosen
    <2>1. pc \in {"release", "decision"} => <<"selection", 0>> \in whole /\ says.governed # 0
      BY RolesInRelease
    <2> QED
      BY <2>1, RolesAreSlots DEF IInv, DiskInv
  <1>4. CASE pc = "evaluation"
    <2>1. \E k \in Chosen, s \in {"update_evaluated", "selection_evaluated"} : job = Advance(k, s)
      BY <1>2, <1>4 DEF JobsOf, EvaluationJobs, Store, Batch, Advance, Seal
    <2> QED
      BY <1>1, <1>4, <2>1 DEF Advance
  <1>5. CASE pc = "hold"
    <2>1. \E k \in Chosen : job = Advance(k, "held")
      BY <1>2, <1>5 DEF JobsOf, HoldJobs, Advance, Seal
    <2> QED
      BY <1>1, <1>5, <2>1 DEF Advance
  <1>6. CASE pc = "release"
    <2>1. \E k \in Roles : job = Advance(k, "release_evaluated")
      BY <1>2, <1>6 DEF JobsOf, ReleaseJobs, Batch, Advance, Seal
    <2> QED
      BY <1>1, <1>3, <1>6, <2>1 DEF Advance
  <1>7. CASE pc = "decision"
    <2>1. PICK k \in Roles : job = Advance(k, Decision(k))
      BY <1>2, <1>7 DEF JobsOf, DecisionJobs, Advance, Seal
    <2>2. job.on = k /\ job.name = Decision(k)
      BY <2>1 DEF Advance
    <2> QED
      BY <1>1, <1>3, <1>7, <2>1, <2>2
  <1> QED
    BY <1>4, <1>5, <1>6, <1>7 DEF Phase

(* How the slots change.                                                   *)
Advancing ==
    /\ pc \in Phase /\ work # <<>> /\ Job.do = "advance" /\ Done
    /\ Job.on \in Chosen /\ Allowed(slot[Job.on], Job.name)
    /\ slot' = [slot EXCEPT ![Job.on] = Job.name]

LEMMA SlotChange ==
    ASSUME IInv, Next
    PROVE  \/ slot' = slot \/ MakeDirectory \/ Register \/ (Transition /\ Advancing)
           \/ Tear /\ \E k \in Chosen : slot[k] \in Status /\ slot' = [slot EXCEPT ![k] = "partial"]
  <1>1. CASE Transition
    <2>1. pc \in Phase /\ work # <<>> /\ Job.do = "advance"
      BY <1>1 DEF Transition, Doing
    <2>2. Job.on \in Chosen
      BY <2>1, AdvanceJob
    <2>3. \/ slot' = slot
          \/ slot' = [slot EXCEPT ![Job.on] = Job.name] /\ Done /\ Allowed(slot[Job.on], Job.name)
      BY <1>1 DEF Transition
    <2> QED
      BY <1>1, <2>1, <2>2, <2>3 DEF Advancing
  <1>2. CASE Tear /\ TearEvent
    <2>1. PICK job : job = Job
      OBVIOUS
    <2>2. /\ pc \in Phase /\ work # <<>> /\ job.do = "advance" /\ Allowed(slot[job.on], job.name)
          /\ slot' = [slot EXCEPT ![job.on] = "partial"]
      BY <1>2, <2>1 DEF TearEvent, Doing
    <2>3. job.on \in Chosen /\ slot[job.on] \in Status
      BY <2>1, <2>2, AdvanceJob, Forward
    <2> QED
      BY <1>2, <2>2, <2>3
  <1> QED
    BY <1>1, <1>2, Frames

(* How a phase comes to be or goes on.                                     *)
LEMMA PhaseSources ==
    ASSUME IInv, Next, pc' \in Phase
    PROVE  \/ pc' = pc /\ work' = work /\ slot' = slot
           \/ Plan /\ slot' = slot
           \/ (BranchHold \/ BranchRelease \/ Conclude) /\ slot' = slot
           \/ JobMove /\ pc' = pc /\ work' = Tail(work)
  <1>1. CASE Transition
    <2>1. pc \in Phase /\ work # <<>>
      BY <1>1 DEF Transition, Doing
    <2>2. Done \/ \E why : End(why)
      BY <1>1 DEF Transition
    <2> QED
      BY <1>1, <2>1, <2>2 DEF JobMove, Done, End, Phase
  <1>2. CASE ~Transition /\ slot' = slot
    <2>1. CASE LoopMove
      BY <2>1 DEF LoopMove, AuthorizeUpdater, LoadProposal, See, Go, StartUpdater, UpdaterReturns,
         MakeDirectory, Register, PreserveRaw, NextProposal, End, Phase
    <2>2. CASE WritePlan /\ pc' = "planned"
      BY <2>2 DEF Phase
    <2>3. CASE pc' = "idle" \/ pc' \in EarlyPlaces
      BY <2>3 DEF EarlyPlaces, Phase
    <2>4. CASE JobMove
      BY <2>4 DEF JobMove, Done
    <2>5. CASE Plan \/ BranchHold \/ BranchRelease \/ Conclude
      BY <1>2, <2>5
    <2>6. CASE UNCHANGED <<pc, at, seen, work>>
      BY <1>2, <2>6
    <2> QED
      BY <2>1, <2>2, <2>3, <2>4, <2>5, <2>6, Moves
  <1>3. CASE ~Transition /\ slot' # slot
    <2>1. MakeDirectory \/ Register \/ Tear
      BY <1>3, SlotChange
    <2> QED
      BY <2>1 DEF MakeDirectory, Register, Go, Tear, End, Phase
  <1> QED
    BY <1>1, <1>2, <1>3

(* In the phases the plan says the same, and after the evaluation so does  *)
(* the selection.                                                          *)
LEMMA PhaseSays ==
    ASSUME IInv, Next, pc \in {"planned"} \union Phase
    PROVE  /\ Chosen' = Chosen /\ EvaluationJobs' = EvaluationJobs
           /\ pc \notin {"planned", "evaluation"} => Roles' = Roles /\ ReleaseJobs' = ReleaseJobs
  <1>1. ~PlanWritten
    BY DEF PlanWritten, Phase
  <1>2. says'.plan = says.plan
    BY <1>1, PaperChange DEF ArtifactSealed, Content, IInv, TypeOK
  <1>3. ASSUME pc \notin {"planned", "evaluation"}
        PROVE  says'.native = says.native /\ says'.governed = says.governed
    <2>1. CASE ArtifactSealed
      <3>1. Job.name # "selection"
        BY <1>3, <2>1, SealNames DEF ArtifactSealed, Phase
      <3> QED
        BY <2>1, <3>1 DEF ArtifactSealed, Content, IInv, TypeOK
    <2> QED
      BY <1>1, <2>1, PaperChange
  <1>4. Chosen' = Chosen /\ EvaluationJobs' = EvaluationJobs
    BY <1>2 DEF Chosen, EvaluationJobs, Store, Batch, Advance, Seal
  <1>5. pc \notin {"planned", "evaluation"} => Roles' = Roles /\ ReleaseJobs' = ReleaseJobs
    BY <1>3 DEF Roles, ReleaseJobs, Batch, Advance, Seal
  <1> QED
    BY <1>4, <1>5

(* What has advanced stays advanced while slots only advance.              *)
LEMMA AdvancedStays ==
    ASSUME TypeOK, slot' = slot \/ Advancing,
           NEW j, j.on \in Slot \/ j.do # "advance", Advanced(j)
    PROVE  Advanced(j)'
  <1>1. CASE slot' = slot
    BY <1>1 DEF Advanced, Behind
  <1>2. CASE Advancing
    <2>1. PICK k, s : k = Job.on /\ s = Job.name
      OBVIOUS
    <2>2. /\ slot' = [slot EXCEPT ![k] = s]
          /\ \A t : slot[k] \notin Behind(t) => s \notin Behind(t)
      BY <1>2, <2>1, Forward DEF Advancing
    <2>3. ASSUME j.do = "advance" PROVE slot'[j.on] \notin Behind(j.name)
      <3>1. j.on \in Slot /\ slot[j.on] \notin Behind(j.name)
        BY <2>3 DEF Advanced
      <3> QED
        BY <2>2, <3>1 DEF TypeOK
    <2> QED
      BY <2>3 DEF Advanced
  <1> QED
    BY <1>1, <1>2

(* A job that is done has advanced its candidate.                          *)
LEMMA AdvanceDone ==
    ASSUME IInv, Next, JobMove, NEW job, job = Job
    PROVE  /\ slot' = slot \/ Advancing
           /\ Advanced(job)'
           /\ (job.do = "advance" /\ job.name \in Range(Progress))
                  => slot'[job.on] # "ship_recommended"
  <1>1. slot' = slot \/ (Transition /\ Advancing)
    BY SlotChange DEF JobMove, Done, Tear, End, MakeDirectory, Register, Phase
  <1>2. CASE job.do # "advance"
    <2>1. ~Transition
      BY <1>2 DEF Transition, Doing
    <2> QED
      BY <1>1, <1>2, <2>1 DEF Advanced
  <1>3. CASE job.do = "advance"
    <2>1. Transition
      BY <1>3 DEF JobMove, StoreChild, RunBatch, SealArtifact, Doing
    <2>2. job.on \in Slot /\ job.name \in Status
      BY <1>3, JobKnown DEF JobMove
    <2>3. \/ slot' = slot /\ Passed(slot[job.on], job.name)
          \/ slot' = [slot EXCEPT ![job.on] = job.name] /\ Allowed(slot[job.on], job.name)
      <3>1. ~(\E why : End(why))
        BY DEF JobMove, End, Done, Phase
      <3> QED
        BY <2>1, <3>1 DEF Transition
    <2>4. \/ slot'[job.on] = slot[job.on] /\ Passed(slot[job.on], job.name)
          \/ slot'[job.on] = job.name
      BY <2>2, <2>3 DEF IInv, TypeOK
    <2>5. Advanced(job)'
      <3>1. slot'[job.on] \notin Behind(job.name)
        BY <2>4, Forward
      <3> QED
        BY <3>1 DEF Advanced
    <2>6. job.name \in Range(Progress) => job.name # "ship_recommended"
      BY StatusNames
    <2> QED
      BY <1>1, <2>4, <2>5, <2>6, Forward
  <1> QED
    BY <1>2, <1>3

(* No candidate of the plan is final before the phase that decides.        *)
LEMMA NotFinalYet ==
    ASSUME IInv, StatusInv, Next
    PROVE  /\ pc' \in {"planned", "evaluation", "release"} => \A k \in Chosen' : slot'[k] # "held"
           /\ pc' = "evaluation" => \A k \in Chosen' :
                 slot'[k] = "ship_recommended" => Advance(k, "update_evaluated") \in Range(work')
           /\ pc' = "release" => \A k \in Chosen' : slot'[k] # "ship_recommended"
  <1>1. Chosen \subseteq Slot
    BY DEF IInv, TypeOK, Chosen
  <1>2. CASE pc' = "planned"
    <2>1. CASE UNCHANGED <<pc, at, seen, work>>
      <3>1. pc = "planned" /\ slot' = slot
        BY <1>2, <2>1, SlotChange DEF MakeDirectory, Register, Advancing, Tear, End, Phase
      <3> QED
        BY <1>2, <3>1, PhaseSays DEF StatusInv
    <2>2. CASE WritePlan
      <3>1. PICK subset \in DiverseSubsets :
                WriteOnce(<<"plan", 0>>, says.plan = subset, [says EXCEPT !.plan = subset],
                          Go("planned"))
        BY <2>2 DEF WritePlan
      <3>2. slot' = slot
        BY <3>1 DEF WriteOnce, registry
      <3>3. Chosen' = subset
        <4>1. ~(\E why : End(why))
          BY <1>2 DEF End
        <4>2. CASE Written(<<"plan", 0>>)
          <5>1. says' = says /\ says.plan = subset
            BY <3>1, <4>1, <4>2 DEF WriteOnce, Written
          <5> QED
            BY <5>1 DEF Chosen
        <4>3. CASE ~Written(<<"plan", 0>>)
          BY <3>1, <4>3 DEF WriteOnce, Chosen, IInv, TypeOK
        <4> QED
          BY <4>2, <4>3
      <3>4. \A k \in subset : slot[k] # "held"
        BY <3>1 DEF DiverseSubsets, Executable
      <3> QED
        BY <1>2, <3>2, <3>3, <3>4
    <2> QED
      BY <1>2, <2>1, <2>2, Moves
         DEF EarlyPlaces, LoopMove, AuthorizeUpdater, LoadProposal, See, Go, StartUpdater,
             UpdaterReturns, MakeDirectory, Register, PreserveRaw, NextProposal, End, Plan,
             BranchHold, BranchRelease, Conclude, NextPhase, JobMove, Done, Phase
  <1>3. CASE pc' \in Phase
    <2>1. pc \in {"planned"} \union Phase
      BY <1>3, PhaseSources DEF Plan, BranchHold, BranchRelease, Conclude, NextPhase, JobMove, Phase
    <2>2. Chosen' = Chosen
      BY <2>1, PhaseSays
    <2>3. CASE pc' = pc /\ work' = work /\ slot' = slot
      <3>1. Range(work') = Range(work)
        BY <2>3
      <3> QED
        BY <1>3, <2>2, <2>3, <3>1 DEF StatusInv, Phase
    <2>4. CASE Plan /\ slot' = slot
      <3>1. pc = "planned" /\ pc' = "evaluation" /\ work' = EvaluationWork
        BY <2>4 DEF Plan
      <3>2. Range(work') = EvaluationJobs
        BY <3>1, EvaluationQueue DEF IInv
      <3>3. \A k \in Chosen : Advance(k, "update_evaluated") \in EvaluationJobs
        BY DEF EvaluationJobs
      <3> QED
        BY <2>2, <2>4, <3>1, <3>2, <3>3 DEF StatusInv
    <2>5. CASE (BranchHold \/ BranchRelease \/ Conclude) /\ slot' = slot
      <3>1. pc' = "release" => pc = "evaluation" /\ work = <<>>
        BY <2>5 DEF BranchHold, BranchRelease, Conclude, NextPhase
      <3>2. Range(<<>>) = {}
        BY DEF Range
      <3>3. pc' \notin {"evaluation", "planned"}
        BY <2>5 DEF BranchHold, BranchRelease, Conclude, NextPhase
      <3> QED
        BY <2>2, <2>5, <3>1, <3>2, <3>3 DEF StatusInv
    <2>6. CASE JobMove /\ pc' = pc /\ work' = Tail(work)
      <3>1. PICK job : job = Job
        OBVIOUS
      <3>2. /\ slot' = slot \/ Advancing
            /\ (job.do = "advance" /\ job.name \in Range(Progress))
                  => slot'[job.on] # "ship_recommended"
        BY <2>6, <3>1, AdvanceDone
      <3>3. ASSUME Advancing, pc \in {"evaluation", "release"}
            PROVE  /\ slot' = [slot EXCEPT ![job.on] = job.name]
                   /\ job.name \in Range(Progress)
        BY <3>1, <3>3, AdvanceJob, StatusNames DEF Advancing
      <3>4. ASSUME pc \in {"evaluation", "release"}, NEW k \in Chosen
            PROVE  /\ slot'[k] # slot[k] => slot'[k] \in Range(Progress)
        BY <1>1, <3>2, <3>3, <3>4 DEF IInv, TypeOK
      <3>5. pc \in {"evaluation", "release"} => \A k \in Chosen :
               /\ slot'[k] = "held" => slot[k] = "held"
               /\ slot'[k] = "ship_recommended" => slot[k] = "ship_recommended"
        BY <3>4, StatusNames
      <3>6. ASSUME pc = "evaluation", NEW k \in Chosen, slot'[k] = "ship_recommended"
            PROVE  Advance(k, "update_evaluated") \in Range(Tail(work))
        <4>1. Advance(k, "update_evaluated") \in Range(work)
          BY <3>5, <3>6 DEF StatusInv
        <4>2. Range(work) = {job} \union Range(Tail(work))
          BY <2>6, <3>1, TailOfQueue DEF Job, JobMove, IInv, ControlInv, WorkInv
        <4>3. job # Advance(k, "update_evaluated")
          BY <3>2, <3>6, StatusNames DEF Advance
        <4> QED
          BY <4>1, <4>2, <4>3
      <3>7. pc' = "evaluation" => \A k \in Chosen :
                slot'[k] = "ship_recommended" => Advance(k, "update_evaluated") \in Range(work')
        <4>1. Range(work') = Range(Tail(work))
          BY <2>6
        <4> QED
          BY <2>6, <3>6, <4>1
      <3> QED
        BY <1>3, <2>2, <2>6, <3>5, <3>7 DEF StatusInv, Phase
    <2> QED
      BY <1>3, <2>3, <2>4, <2>5, <2>6, PhaseSources
  <1> QED
    BY <1>2, <1>3 DEF Phase

(* The jobs of a phase that are about candidates are about slots.          *)
LEMMA JobsOnSlots ==
    ASSUME IInv
    PROVE  /\ \A j \in EvaluationJobs : j.on \in Slot \/ j.do # "advance"
           /\ pc \in {"release", "decision"} =>
                 \A j \in ReleaseJobs : j.on \in Slot \/ j.do # "advance"
  <1>1. Chosen \subseteq Slot
    BY DEF IInv, TypeOK, Chosen
  <1>2. ASSUME NEW j \in EvaluationJobs PROVE j.on \in Slot \/ j.do # "advance"
    BY <1>1, <1>2 DEF EvaluationJobs, Store, Batch, Advance, Seal
  <1>3. ASSUME pc \in {"release", "decision"}, NEW j \in ReleaseJobs
        PROVE  j.on \in Slot \/ j.do # "advance"
    BY <1>3, RolesInRelease DEF ReleaseJobs, Batch, Advance, Seal
  <1> QED
    BY <1>2, <1>3

(* Of the evaluation and the release, what is not to be done has advanced. *)
LEMMA NoneBehind ==
    ASSUME IInv, StatusInv, Next
    PROVE  /\ pc' = "evaluation" => \A j \in EvaluationJobs' : j \in Range(work') \/ Advanced(j)'
           /\ pc' = "release" => \A j \in ReleaseJobs' : j \in Range(work') \/ Advanced(j)'
           /\ pc' \in {"hold", "release", "decision"} => \A j \in EvaluationJobs' : Advanced(j)'
           /\ pc' = "decision" => \A j \in ReleaseJobs' : Advanced(j)'
  <1> SUFFICES ASSUME pc' \in Phase
               PROVE  /\ pc' = "evaluation" =>
                             \A j \in EvaluationJobs' : j \in Range(work') \/ Advanced(j)'
                      /\ pc' = "release" => \A j \in ReleaseJobs' : j \in Range(work') \/ Advanced(j)'
                      /\ pc' \in {"hold", "release", "decision"} =>
                             \A j \in EvaluationJobs' : Advanced(j)'
                      /\ pc' = "decision" => \A j \in ReleaseJobs' : Advanced(j)'
    BY DEF Phase
  <1>0. Range(<<>>) = {}
    BY DEF Range
  <1>1. pc \in {"planned"} \union Phase
    BY PhaseSources DEF Plan, BranchHold, BranchRelease, Conclude, NextPhase, JobMove, Phase
  <1>2. /\ EvaluationJobs' = EvaluationJobs
        /\ pc \notin {"planned", "evaluation"} => ReleaseJobs' = ReleaseJobs
    BY <1>1, PhaseSays
  <1>3. ASSUME slot' = slot \/ Advancing
        PROVE  /\ \A j \in EvaluationJobs : Advanced(j) => Advanced(j)'
               /\ pc \in {"release", "decision"} => \A j \in ReleaseJobs : Advanced(j) => Advanced(j)'
    BY <1>3, JobsOnSlots, AdvancedStays DEF IInv
  <1>4. CASE pc' = pc /\ work' = work /\ slot' = slot
    <2>1. Range(work') = Range(work)
      BY <1>4
    <2> QED
      BY <1>2, <1>3, <1>4, <2>1 DEF StatusInv
  <1>5. CASE Plan /\ slot' = slot
    <2>1. pc' = "evaluation" /\ Range(work') = EvaluationJobs
      BY <1>5, EvaluationQueue DEF Plan, IInv
    <2> QED
      BY <1>2, <2>1
  <1>6. CASE BranchHold /\ slot' = slot
    <2>1. pc = "evaluation" /\ work = <<>> /\ pc' = "hold"
      BY <1>6 DEF BranchHold, NextPhase
    <2> QED
      BY <1>0, <1>2, <1>3, <1>6, <2>1 DEF StatusInv
  <1>7. CASE BranchRelease /\ slot' = slot
    <2>1. PICK o \in {RoleOrder, Reverse(RoleOrder)} :
             NextPhase("evaluation", "release", ReleaseWork(o))
      BY <1>7 DEF BranchRelease
    <2>2. /\ pc = "evaluation" /\ work = <<>> /\ pc' = "release" /\ work' = ReleaseWork(o)
          /\ says' = says
      BY <2>1 DEF NextPhase, KeepDisk, evidence
    <2>3. ReleaseJobs' = ReleaseJobs
      BY <2>2 DEF ReleaseJobs, Roles, Batch, Advance, Seal
    <2>4. Range(work') = ReleaseJobs
      BY <2>2, ReleaseQueue DEF IInv
    <2> QED
      BY <1>0, <1>2, <1>3, <1>7, <2>2, <2>3, <2>4 DEF StatusInv
  <1>8. CASE Conclude /\ slot' = slot
    <2>1. pc = "release" /\ work = <<>> /\ pc' = "decision"
      BY <1>8 DEF Conclude, NextPhase
    <2> QED
      BY <1>0, <1>2, <1>3, <1>8, <2>1 DEF StatusInv
  <1>9. CASE JobMove /\ pc' = pc /\ work' = Tail(work)
    <2>1. PICK job : job = Job
      OBVIOUS
    <2>2. (slot' = slot \/ Advancing) /\ Advanced(job)'
      BY <1>9, <2>1, AdvanceDone
    <2>3. Range(work) = {job} \union Range(work')
      <3>1. Range(work) = {job} \union Range(Tail(work))
        BY <1>9, <2>1, TailOfQueue DEF Job, JobMove, IInv, ControlInv, WorkInv
      <3> QED
        BY <1>9, <3>1
    <2>4. pc = "evaluation" => \A j \in EvaluationJobs : j \in Range(work') \/ Advanced(j)'
      BY <1>3, <2>2, <2>3 DEF StatusInv
    <2>5. pc = "release" => \A j \in ReleaseJobs : j \in Range(work') \/ Advanced(j)'
      BY <1>3, <2>2, <2>3 DEF StatusInv
    <2>6. /\ pc \in {"hold", "release", "decision"} => \A j \in EvaluationJobs : Advanced(j)'
          /\ pc = "decision" => \A j \in ReleaseJobs : Advanced(j)'
      BY <1>3, <2>2 DEF StatusInv
    <2> QED
      BY <1>2, <1>9, <2>4, <2>5, <2>6
  <1> QED
    BY <1>4, <1>5, <1>6, <1>7, <1>8, <1>9, PhaseSources

(* A decision that was taken is that of the gates.                         *)
LEMMA DecidedRight ==
    ASSUME IInv, StatusInv, Next
    PROVE  pc' = "decision" => \A k \in Roles' : slot'[k] \in Final => slot'[k] = Decision(k)'
  <1> SUFFICES ASSUME pc' = "decision", NEW k \in Roles', slot'[k] \in Final
               PROVE  slot'[k] = Decision(k)'
    OBVIOUS
  <1>1. pc \in {"release", "decision"}
    BY PhaseSources DEF Plan, BranchHold, BranchRelease, Conclude, NextPhase, Phase
  <1>2. Roles' = Roles /\ Roles \subseteq Slot /\ Roles \subseteq Chosen
    <2>1. Roles' = Roles
      BY <1>1, PhaseSays DEF Phase
    <2>2. Roles \subseteq Slot /\ <<"selection", 0>> \in whole /\ says.governed # 0
      BY <1>1, RolesInRelease
    <2> QED
      BY <2>1, <2>2, RolesAreSlots DEF IInv, DiskInv
  <1>3. CASE pc = "release"
    <2>1. Conclude /\ slot' = slot
      BY <1>3, PhaseSources DEF Plan, BranchHold, BranchRelease, NextPhase, Phase
    <2>2. slot[k] \notin Final
      BY <1>2, <1>3 DEF StatusInv, Final
    <2> QED
      BY <2>1, <2>2
  <1>4. CASE pc = "decision"
    <2>1. \A j \in ReleaseJobs : Effect(j)
      BY <1>4 DEF IInv, ControlInv, PastInv
    <2>2. \A s \in Release : batch[<<s, k>>] # "none"
      BY <1>2, <2>1, ReleaseSealed DEF IInv
    <2>3. Decision(k)' = Decision(k)
      BY <1>2, <2>2, Names, Growing, DecisionStays DEF IInv
    <2>4. slot' = slot \/ Advancing
      <3>1. JobMove => slot' = slot \/ Advancing
        BY AdvanceDone
      <3> QED
        BY <1>4, <3>1, PhaseSources DEF Plan, BranchHold, BranchRelease, Conclude, NextPhase, Phase
    <2>5. CASE slot'[k] = slot[k]
      BY <1>2, <1>4, <2>3, <2>5 DEF StatusInv
    <2>6. CASE slot'[k] # slot[k]
      <3>1. PICK l, s : l = Job.on /\ s = Job.name
        OBVIOUS
      <3>2. slot' = [slot EXCEPT ![l] = s] /\ s = Decision(l)
        BY <1>4, <2>4, <2>6, <3>1, AdvanceJob DEF Advancing
      <3>3. l = k /\ slot'[k] = s
        BY <1>2, <2>6, <3>2 DEF IInv, TypeOK
      <3> QED
        BY <2>3, <3>2, <3>3
    <2> QED
      BY <2>5, <2>6
  <1> QED
    BY <1>1, <1>3, <1>4

LEMMA StatusStep ==
    ASSUME IInv, StatusInv, Next
    PROVE  StatusInv'
  BY NotFinalYet, NoneBehind, DecidedRight DEF StatusInv, Advance

-----------------------------------------------------------------------------
(* The evaluation goes by its queue's order.                               *)
OrderInv == pc = "evaluation" => InOrder(work)

LEMMA OrderStep ==
    ASSUME IInv, OrderInv, Next
    PROVE  OrderInv'
  <1> SUFFICES ASSUME pc' = "evaluation" PROVE InOrder(work')
    BY DEF OrderInv, InOrder, Level
  <1>1. CASE pc' = pc /\ work' = work
    BY <1>1 DEF OrderInv
  <1>2. CASE Plan
    BY <1>2, EvaluationQueue DEF Plan, IInv
  <1>3. CASE JobMove /\ pc' = pc /\ work' = Tail(work)
    BY <1>3, TailInOrder DEF JobMove, OrderInv, IInv, ControlInv, WorkInv
  <1>4. CASE BranchHold \/ BranchRelease \/ Conclude
    BY <1>4 DEF BranchHold, BranchRelease, Conclude, NextPhase
  <1> QED
    BY <1>1, <1>2, <1>3, <1>4, PhaseSources DEF Phase

(* The plan and the loop over the proposals.                               *)

LEMMA NoneDoNotSuffice == ~Suffices({})
  BY FS_EmptySet, CountAssumption, BudgetAssumption DEF Suffices

(* At most one plan is the first.                                          *)
LEMMA OneIsFirst ==
    ASSUME NEW S \in SUBSET Slot, NEW P, NEW Q, IsFirst(P, S), IsFirst(Q, S)
    PROVE  P = Q
  <1> SUFFICES ASSUME P # Q PROVE FALSE
    OBVIOUS
  <1> DEFINE D == (P \ Q) \union (Q \ P)
  <1>1. P \subseteq Slot /\ Q \subseteq Slot /\ Earlier(P, Q) /\ Earlier(Q, P)
    BY DEF IsFirst, Subsets
  <1>2. D \in SUBSET Slot /\ D # {} /\ (Q \ P) \union (P \ Q) = D
    BY <1>1
  <1>3. Min(D) \in P /\ Min(D) \in Q
    BY <1>1, <1>2 DEF Earlier
  <1>4. Min(D) \in D
    <2> HIDE DEF D
    <2> QED
      BY <1>2, Smallest
  <1> QED
    BY <1>3, <1>4

(* Where the loop is, the slots before it do not suffice.                  *)
LoopHistory ==
    pc \in Proposing => ~Suffices(Fit(at - 1)) /\ seen \subseteq 1..at

(* What the loop may choose from.                                          *)
LEMMA SeenIsFit ==
    ASSUME IInv, LoopHistory, pc = "choose"
    PROVE  /\ at \in Slot /\ Executable = Fit(at) /\ Fit(at) \subseteq Slot
           /\ Enough <=> Suffices(Fit(at))
           /\ DiverseSubsets = Subsets(Fit(at))
           /\ \A P : (P \in DiverseSubsets /\ First(P)) => IsFirst(P, Fit(at))
           /\ \A k \in 1..at : slot[k] \in Status \union {"refused"}
  <1>1. /\ at \in Slot /\ 1..at \subseteq Slot
        /\ \A k \in 1..at : k \in Slot /\ (k < at \/ k = at)
    BY BudgetAssumption DEF IInv, ControlInv, LoopInv, Proposing, Slot
  <1>2. /\ \A k \in seen : slot[k] \in Status
        /\ \A k \in Slot : k < at \/ k = at => k \in seen \/ slot[k] = "refused"
        /\ seen \subseteq 1..at
    BY DEF IInv, ControlInv, LoopInv, Proposing, LoopHistory
  <1>3. \A k \in 1..at : k \in seen \/ slot[k] = "refused"
    BY <1>1, <1>2
  <1>4. Executable = Fit(at)
    <2>1. "refused" \notin Status
      BY StatusNames
    <2> QED
      BY <1>2, <1>3, <2>1 DEF Executable, Fit
  <1>5. Fit(at) \subseteq Slot
    BY <1>1 DEF Fit
  <1>6. DiverseSubsets = Subsets(Fit(at))
    BY <1>4 DEF DiverseSubsets, Subsets
  <1>7. \A P : (P \in DiverseSubsets /\ First(P)) => IsFirst(P, Fit(at))
    BY <1>6 DEF First, IsFirst
  <1>8. Enough <=> Suffices(Fit(at))
    BY <1>4 DEF Enough, Suffices
  <1> QED
    BY <1>1, <1>2, <1>3, <1>4, <1>5, <1>6, <1>7, <1>8

LEMMA LoopStep ==
    ASSUME IInv, LoopHistory, Next
    PROVE  LoopHistory'
  <1> SUFFICES ASSUME pc' \in Proposing
               PROVE  ~Suffices(Fit(at - 1))' /\ seen' \subseteq 1..at'
    BY DEF LoopHistory, Proposing
  <1>1. ASSUME pc \in Proposing, at' = at, \A k \in Slot : k # at => slot'[k] = slot[k]
        PROVE  ~Suffices(Fit(at - 1))' /\ at \in Slot /\ seen \subseteq 1..at /\ at \in 1..at
    <2>1. at \in Slot /\ ~Suffices(Fit(at - 1)) /\ seen \subseteq 1..at
      BY <1>1 DEF LoopHistory, IInv, ControlInv, LoopInv
    <2>2. at \in 1..at /\ \A k \in 1..(at - 1) : k \in Slot /\ k # at
      BY <2>1, BudgetAssumption DEF Slot
    <2>3. Fit(at - 1)' = Fit(at - 1)
      BY <1>1, <2>2 DEF Fit
    <2> QED
      BY <2>1, <2>2, <2>3 DEF Suffices, Diverse
  <1>2. CASE UNCHANGED <<pc, at, seen, work>>
    <2>1. slot' = slot
      BY <1>2, SlotChange DEF MakeDirectory, Register, Go, Advancing, Tear, End, Proposing, Phase
    <2> QED
      BY <1>1, <1>2, <2>1
  <1>3. CASE AuthorizeUpdater
    <2>1. at' = 1 /\ seen' = {}
      BY <1>3 DEF AuthorizeUpdater, End, Proposing, IInv, ControlInv, LoopInv
    <2>2. Fit(at - 1)' = {}
      BY <2>1 DEF Fit
    <2> QED
      BY <2>1, <2>2, NoneDoNotSuffice DEF Suffices, Diverse
  <1>4. CASE LoadProposal
    <2>1. /\ pc = "propose" /\ at' = at /\ slot' = slot
          /\ seen' \subseteq seen \union {at}
      BY <1>4 DEF LoadProposal, See, Go, local, End, Proposing, KeepDisk, registry
    <2> QED
      BY <1>1, <2>1 DEF Proposing
  <1>5. CASE StartUpdater \/ UpdaterReturns
    <2>1. /\ pc \in Proposing /\ at' = at /\ slot' = slot /\ seen' = seen
      BY <1>5 DEF StartUpdater, UpdaterReturns, EndUpdater, Go, local, Proposing
    <2> QED
      BY <1>1, <2>1
  <1>6. CASE MakeDirectory \/ Register
    <2>1. /\ pc \in Proposing /\ at' = at /\ seen' = seen
          /\ \E s : slot' = [slot EXCEPT ![at] = s]
      BY <1>6 DEF MakeDirectory, Register, Go, local, Proposing
    <2>2. \A k \in Slot : k # at => slot'[k] = slot[k]
      BY <2>1 DEF IInv, TypeOK
    <2> QED
      BY <1>1, <2>1, <2>2
  <1>7. CASE PreserveRaw
    <2>1. /\ pc = "metadata" /\ at' = at /\ slot' = slot
          /\ seen' = seen \union {at}
      BY <1>7 DEF PreserveRaw, See
    <2> QED
      BY <1>1, <2>1 DEF Proposing
  <1>8. CASE NextProposal
    <2>1. /\ pc = "choose" /\ ~Enough /\ at' = at + 1 /\ seen' = seen /\ slot' = slot
      BY <1>8 DEF NextProposal, End, Proposing, KeepDisk, registry
    <2>2. at \in Slot /\ ~Suffices(Fit(at)) /\ seen \subseteq 1..at
      BY <2>1, SeenIsFit DEF LoopHistory, Proposing
    <2>3. at' - 1 = at /\ 1..at \subseteq 1..at'
      BY <2>1, <2>2, BudgetAssumption DEF Slot
    <2>4. Fit(at - 1)' = Fit(at)
      BY <2>1, <2>3 DEF Fit
    <2> QED
      BY <2>1, <2>2, <2>3, <2>4 DEF Suffices, Diverse
  <1>9. CASE LoopMove
    BY <1>3, <1>4, <1>5, <1>6, <1>7, <1>8, <1>9 DEF LoopMove
  <1> QED
    BY <1>2, <1>9, Moves
       DEF EarlyPlaces, Plan, BranchHold, BranchRelease, Conclude, NextPhase, JobMove, Done,
           Proposing, Phase

(* A plan that may still be taken was taken at the first slot where the    *)
(* proposals sufficed.                                                     *)
SettledAt(t) ==
    /\ \A k \in 1..t : slot[k] \in Status \union {"refused"}
    /\ Suffices(Fit(t)) /\ ~Suffices(Fit(t - 1))
    /\ IsFirst(Chosen, Fit(t))

PlanHistory ==
    (<<"plan", 0>> \in whole /\ \A k \in Chosen : slot[k] \notin {"held", "partial"})
        => \E t \in Slot : SettledAt(t)

LEMMA SettledStays ==
    ASSUME NEW t \in Slot, SettledAt(t), Chosen' = Chosen,
           \A k \in 1..t : slot'[k] = slot[k] \/ {slot[k], slot'[k]} \subseteq Status \ {"held"}
    PROVE  SettledAt(t)'
  <1>1. /\ {k \in 1..t : slot'[k] \in Status \ {"held"}} = Fit(t)
        /\ {k \in 1..(t - 1) : slot'[k] \in Status \ {"held"}} = Fit(t - 1)
    <2>1. 1..(t - 1) \subseteq 1..t
      BY BudgetAssumption DEF Slot
    <2> QED
      BY <2>1 DEF Fit
  <1>2. \A k \in 1..t : slot'[k] \in Status \union {"refused"}
    BY DEF SettledAt
  <1> QED
    BY <1>1, <1>2 DEF SettledAt, Fit, Suffices, Diverse, IsFirst, Subsets, Earlier

LEMMA PlanStep ==
    ASSUME IInv, PlanHistory, LoopHistory, Next
    PROVE  PlanHistory'
  <1> SUFFICES ASSUME <<"plan", 0>> \in whole',
                      \A k \in Chosen' : slot'[k] \notin {"held", "partial"}
               PROVE  \E t \in Slot : SettledAt(t)'
    BY DEF PlanHistory
  <1>1. CASE <<"plan", 0>> \notin whole
    <2>1. PlanWritten /\ UNCHANGED <<registry, batch, people>>
      BY <1>1, PaperChange DEF Telling, ArtifactSealed
    <2>2. PICK subset \in DiverseSubsets :
             First(subset) /\ says' = [says EXCEPT !.plan = subset]
      BY <2>1 DEF PlanWritten
    <2>3. /\ pc = "choose" /\ slot' = slot /\ Chosen' = subset
      BY <2>1, <2>2 DEF PlanWritten, registry, Chosen, IInv, TypeOK
    <2>4. /\ at \in Slot /\ Fit(at) \subseteq Slot /\ IsFirst(subset, Fit(at))
          /\ \A k \in 1..at : slot[k] \in Status \union {"refused"}
          /\ ~Suffices(Fit(at - 1))
      BY <2>2, <2>3, SeenIsFit DEF LoopHistory, Proposing
    <2>5. Suffices(Fit(at))
      <3>1. subset \in SUBSET Fit(at) /\ Cardinality(subset) = CandidateCount /\ Diverse(subset)
        BY <2>4 DEF IsFirst, Subsets
      <3>2. Suffices(subset)
        BY <3>1, CountAssumption, BudgetAssumption DEF Suffices
      <3> QED
        BY <2>4, <3>1, <3>2, SufficesGrows
    <2>6. PICK t \in Slot : t = at
      BY <2>4
    <2>7. SettledAt(t)'
      BY <2>3, <2>4, <2>5, <2>6
         DEF SettledAt, Fit, Suffices, Diverse, IsFirst, Subsets, Earlier
    <2> QED
      BY <2>7
  <1>2. CASE <<"plan", 0>> \in whole
    <2>1. Chosen' = Chosen /\ Chosen \subseteq Slot /\ Chosen \subseteq meta
      <3>1. ~PlanWritten
        BY <1>2 DEF PlanWritten, Written
      <3>2. says'.plan = says.plan
        BY <3>1, PaperChange DEF ArtifactSealed, Content, IInv, TypeOK
      <3> QED
        BY <1>2, <3>2 DEF Chosen, IInv, TypeOK, DiskInv, PlanInv
    <2>2. ASSUME NEW t \in Slot, SettledAt(t) PROVE 1..t \subseteq Slot
      BY <2>2, BudgetAssumption DEF Slot
    <2>3. CASE slot' = slot
      <3>1. PICK t \in Slot : SettledAt(t)
        BY <1>2, <2>1, <2>3 DEF PlanHistory
      <3> QED
        BY <2>1, <2>3, <3>1, SettledStays
    <2>4. CASE MakeDirectory \/ Register
      <3>1. /\ at \in Slot /\ slot[at] \in {"none", "partial", "refusing"} /\ at \notin Chosen
            /\ \A k \in Slot : k # at => slot'[k] = slot[k]
        <4>1. CASE MakeDirectory
          <5>1. pc = "register" /\ \E s : slot' = [slot EXCEPT ![at] = s]
            BY <4>1 DEF MakeDirectory
          <5>2. at \in Slot /\ slot[at] = "none"
            BY <5>1 DEF IInv, ControlInv, LoopInv, Proposing
          <5>3. at \notin meta
            BY <5>2, StatusNames DEF IInv, DiskInv, SlotInv
          <5> QED
            BY <2>1, <5>1, <5>2, <5>3 DEF IInv, TypeOK
        <4>2. CASE Register
          <5>1. pc = "event" /\ \E s : slot' = [slot EXCEPT ![at] = s]
            BY <4>2 DEF Register
          <5>2. at \in Slot /\ slot[at] \in {"partial", "refusing"} /\ at \notin meta
            BY <5>1 DEF IInv, ControlInv, LoopInv, Proposing
          <5> QED
            BY <2>1, <5>1, <5>2 DEF IInv, TypeOK
        <4> QED
          BY <2>4, <4>1, <4>2
      <3>2. \A k \in Chosen : slot[k] \notin {"held", "partial"}
        BY <2>1, <3>1
      <3>3. PICK t \in Slot : SettledAt(t)
        BY <1>2, <3>2 DEF PlanHistory
      <3>4. \A k \in 1..t : slot'[k] = slot[k]
        <4>1. at \notin 1..t
          BY <3>1, <3>3, StatusNames DEF SettledAt
        <4> QED
          BY <2>2, <3>1, <3>3, <4>1
      <3> QED
        BY <2>1, <3>3, <3>4, SettledStays
    <2>5. CASE Advancing
      <3>1. PICK k, s : k \in Chosen /\ k \in Slot /\ Allowed(slot[k], s) /\ slot' = [slot EXCEPT ![k] = s]
        BY <2>1, <2>5 DEF Advancing
      <3>2. slot'[k] = s /\ \A l \in Slot : l # k => slot'[l] = slot[l]
        BY <3>1 DEF IInv, TypeOK
      <3>3. {slot[k], s} \subseteq Status \ {"held"}
        BY <2>1, <3>1, <3>2, Forward
      <3>4. \A l \in Chosen : slot[l] \notin {"held", "partial"}
        BY <2>1, <3>2, <3>3, StatusNames
      <3>5. PICK t \in Slot : SettledAt(t)
        BY <1>2, <3>4 DEF PlanHistory
      <3>6. \A l \in 1..t : slot'[l] = slot[l] \/ {slot[l], slot'[l]} \subseteq Status \ {"held"}
        BY <2>2, <3>2, <3>3, <3>5
      <3> QED
        BY <2>1, <3>5, <3>6, SettledStays
    <2>6. CASE \E k \in Chosen : slot[k] \in Status /\ slot' = [slot EXCEPT ![k] = "partial"]
      BY <2>1, <2>6 DEF IInv, TypeOK
    <2> QED
      BY <2>3, <2>4, <2>5, <2>6, SlotChange
  <1> QED
    BY <1>1, <1>2

(* The plan that is taken again is the one that is there.                  *)
LEMMA PlanAgain ==
    ASSUME IInv, PlanHistory, LoopHistory, pc = "choose", Enough, <<"plan", 0>> \in whole,
           \A k \in Chosen : slot[k] \notin {"held", "partial"},
           NEW subset \in DiverseSubsets, First(subset)
    PROVE  says.plan = subset
  <1>1. PICK t \in Slot : SettledAt(t)
    BY DEF PlanHistory
  <1>2. /\ at \in Slot /\ Suffices(Fit(at)) /\ ~Suffices(Fit(at - 1))
        /\ IsFirst(subset, Fit(at)) /\ Fit(at) \in SUBSET Slot
    BY SeenIsFit DEF LoopHistory, Proposing
  <1>3. \A i, j \in Nat : i <= j /\ j <= Budget => Fit(j) \in SUBSET Slot /\ Fit(i) \in SUBSET Fit(j)
    <2> SUFFICES ASSUME NEW i \in Nat, NEW j \in Nat, i <= j, j <= Budget
                 PROVE  Fit(j) \in SUBSET Slot /\ Fit(i) \in SUBSET Fit(j)
      OBVIOUS
    <2>1. 1..i \subseteq 1..j /\ 1..j \subseteq Slot
      BY BudgetAssumption DEF Slot
    <2> QED
      BY <2>1 DEF Fit
  <1>4. t \in Nat /\ at \in Nat /\ t - 1 \in Nat /\ at - 1 \in Nat /\ t <= Budget /\ at <= Budget
    BY <1>1, <1>2, BudgetAssumption DEF Slot
  <1>5. ~(t < at)
    <2> SUFFICES ASSUME t < at PROVE FALSE
      OBVIOUS
    <2>1. t <= at - 1 /\ at - 1 <= Budget
      BY <1>4, BudgetAssumption
    <2>2. Suffices(Fit(at - 1))
      BY <1>1, <1>3, <1>4, <2>1, SufficesGrows DEF SettledAt
    <2> QED
      BY <1>2, <2>2
  <1>6. ~(at < t)
    <2> SUFFICES ASSUME at < t PROVE FALSE
      OBVIOUS
    <2>1. at <= t - 1 /\ t - 1 <= Budget
      BY <1>4, BudgetAssumption
    <2>2. Suffices(Fit(t - 1))
      BY <1>2, <1>3, <1>4, <2>1, SufficesGrows
    <2> QED
      BY <1>1, <2>2 DEF SettledAt
  <1>7. t = at
    BY <1>4, <1>5, <1>6
  <1> QED
    BY <1>1, <1>2, <1>7, OneIsFirst DEF SettledAt, Chosen

-----------------------------------------------------------------------------
(* A selection that says HOLD, and a batch its outcome cannot list.        *)
HoldUnpriced == <<"selection", 0>> \in whole /\ says.governed = 0 /\ Unpriced # {}

(* What keeps a command from going on, without what the running command is *)
(* just registering and may still finish.                                  *)
Stuck ==
    \/ broken # {}
    \/ \E k \in Snap : snap[k] = "partial"
    \/ \E k \in Slot : slot[k] \in {"partial", "refusing"} /\ ~(pc = "event" /\ k = at)
    \/ \E k \in Slot \ meta : slot[k] \in Status /\ ~(pc = "metadata" /\ k = at)
    \/ /\ pc \notin {"hold", "decision"}
       /\ \E k \in Chosen : slot[k] \in Final
       /\ {<<"outcome", 0>>, <<"hold", 0>>} \intersect whole = {}
    \/ Inexact # {}
    \/ HoldUnpriced
    \/ edited

(* Where a registration is begun, and where its metadata are written.      *)
LEMMA InFlight ==
    ASSUME IInv, Next
    PROVE  /\ pc' = "event" => at' = at /\ (pc = "event" \/ MakeDirectory)
           /\ pc' = "metadata" => at' = at /\ (pc = "metadata" \/ Register)
  <1>1. CASE LoopMove
    BY <1>1 DEF LoopMove, AuthorizeUpdater, LoadProposal, See, Go, local, StartUpdater,
       UpdaterReturns, MakeDirectory, Register, PreserveRaw, NextProposal, End
  <1>2. CASE UNCHANGED <<pc, at, seen, work>>
    BY <1>2
  <1>3. CASE Plan \/ BranchHold \/ BranchRelease \/ Conclude
    BY <1>3 DEF Plan, BranchHold, BranchRelease, Conclude, NextPhase
  <1>4. CASE JobMove
    <2>1. pc' \in Phase
      BY <1>4 DEF JobMove, Done
    <2> QED
      BY <2>1 DEF Phase
  <1>5. CASE pc' \in EarlyPlaces \union {"idle", "planned"}
    BY <1>5 DEF EarlyPlaces
  <1> QED
    BY <1>1, <1>2, <1>3, <1>4, <1>5, Moves

(* How one slot changes.                                                   *)
LEMMA OneSlot ==
    ASSUME IInv, Next, NEW k \in Slot
    PROVE  \/ slot'[k] = slot[k]
           \/ MakeDirectory /\ k = at /\ slot[k] = "none"
           \/ Register /\ k = at /\ slot[k] \in {"partial", "refusing"} /\ pc = "event"
           \/ /\ slot[k] \in Status /\ slot'[k] \in Status
              /\ slot[k] \in Final => slot'[k] \in Final
           \/ slot[k] \in Status /\ slot'[k] = "partial" /\ pc' = "idle" /\ Tear
  <1>1. CASE MakeDirectory
    <2>1. pc = "register" /\ \E s : slot' = [slot EXCEPT ![at] = s]
      BY <1>1 DEF MakeDirectory
    <2>2. at \in Slot /\ slot[at] = "none"
      BY <2>1 DEF IInv, ControlInv, LoopInv, Proposing
    <2> QED
      BY <1>1, <2>1, <2>2 DEF IInv, TypeOK
  <1>2. CASE Register
    <2>1. pc = "event" /\ \E s : slot' = [slot EXCEPT ![at] = s]
      BY <1>2 DEF Register
    <2>2. at \in Slot /\ slot[at] \in {"partial", "refusing"}
      BY <2>1 DEF IInv, ControlInv, LoopInv, Proposing
    <2> QED
      BY <1>2, <2>1, <2>2 DEF IInv, TypeOK
  <1>3. CASE Advancing
    <2>1. PICK l, s : l = Job.on /\ s = Job.name
      OBVIOUS
    <2>2. slot' = [slot EXCEPT ![l] = s] /\ Allowed(slot[l], s)
      BY <1>3, <2>1 DEF Advancing
    <2>3. slot[l] \in Status /\ s \in Status /\ (slot[l] \in Final => s \in Final)
      <3>1. slot[l] \in Status /\ s \in Status /\ slot[l] # "held"
            /\ (s # "held" => slot[l] # "ship_recommended")
        BY <2>2, Forward
      <3> QED
        BY <3>1 DEF Final
    <2> QED
      BY <2>2, <2>3 DEF IInv, TypeOK
  <1>4. ASSUME Tear, NEW l \in Chosen, slot[l] \in Status, slot' = [slot EXCEPT ![l] = "partial"]
        PROVE  \/ slot'[k] = slot[k]
               \/ slot[k] \in Status /\ slot'[k] = "partial" /\ pc' = "idle" /\ Tear
    <2>1. pc' = "idle"
      BY <1>4 DEF Tear, End
    <2>2. slot \in [Slot -> {"none", "partial", "refusing", "refused"} \union Status]
      BY DEF IInv, TypeOK
    <2> QED
      BY <1>4, <2>1, <2>2
  <1> QED
    BY <1>1, <1>2, <1>3, <1>4, SlotChange

(* The batches a HOLD outcome lists are batches.                           *)
LEMMA ListedBatches ==
    ASSUME TypeOK
    PROVE  Listed \subseteq Stage \X Snap
  <1>1. {0} \union Chosen \subseteq Snap
    BY Names DEF TypeOK, Chosen
  <1> QED
    BY <1>1, Names DEF Listed, Stage

LEMMA StuckStays ==
    ASSUME IInv, SelectionInv, StatusInv, Next, Stuck
    PROVE  Stuck'
  <1>0. Grow
    BY Growing
  <1>1. CASE broken # {}
    BY <1>0, <1>1 DEF Grow, Stuck
  <1>2. CASE \E k \in Snap : snap[k] = "partial"
    <2>1. PICK k \in Snap : snap[k] = "partial"
      BY <1>2
    <2>2. snap'[k] = "partial"
      <3>1. CASE EnsureBaseline \/ FreezeBaseline
        BY <2>1, <3>1, Names DEF EnsureBaseline, FreezeBaseline, IInv, TypeOK
      <3>2. CASE StoreChild
        BY <2>1, <3>2 DEF StoreChild, IInv, TypeOK
      <3>3. CASE Tear /\ TearSnapshot
        BY <2>1, <3>3 DEF TearSnapshot, IInv, TypeOK
      <3> QED
        BY <2>1, <3>1, <3>2, <3>3, Frames
    <2> QED
      BY <2>2 DEF Stuck
  <1>3. CASE \E k \in Slot : slot[k] \in {"partial", "refusing"} /\ ~(pc = "event" /\ k = at)
    <2>1. PICK k \in Slot : slot[k] \in {"partial", "refusing"} /\ ~(pc = "event" /\ k = at)
      BY <1>3
    <2>2. slot'[k] = slot[k]
      BY <2>1, OneSlot, StatusNames
    <2>3. ~(pc' = "event" /\ k = at')
      <3>1. CASE MakeDirectory
        <4>1. pc = "register" /\ at' = at
          BY <3>1 DEF MakeDirectory, Go, local
        <4>2. slot[at] = "none"
          BY <4>1 DEF IInv, ControlInv, LoopInv
        <4> QED
          BY <2>1, <4>1, <4>2
      <3> QED
        BY <2>1, <3>1, InFlight
    <2> QED
      BY <2>1, <2>2, <2>3 DEF Stuck
  <1>4. CASE \E k \in Slot \ meta : slot[k] \in Status /\ ~(pc = "metadata" /\ k = at)
    <2>1. PICK k \in Slot \ meta : slot[k] \in Status /\ ~(pc = "metadata" /\ k = at)
      BY <1>4
    <2>2. k \notin meta'
      BY <2>1, Frames DEF PreserveRaw
    <2>3. ~(pc' = "metadata" /\ k = at')
      <3>1. CASE Register
        <4>1. pc = "event" /\ at' = at
          BY <3>1 DEF Register, Go, local
        <4>2. slot[at] \in {"partial", "refusing"}
          BY <4>1 DEF IInv, ControlInv, LoopInv
        <4> QED
          BY <2>1, <4>1, <4>2, StatusNames
      <3> QED
        BY <2>1, <3>1, InFlight
    <2>4. slot'[k] \in Status \/ (slot'[k] = "partial" /\ pc' = "idle")
      BY <2>1, OneSlot, StatusNames
    <2> QED
      BY <2>1, <2>2, <2>3, <2>4 DEF Stuck
  <1>5. CASE /\ pc \notin {"hold", "decision"}
             /\ \E k \in Chosen : slot[k] \in Final
             /\ {<<"outcome", 0>>, <<"hold", 0>>} \intersect whole = {}
    <2>1. PICK k \in Chosen : slot[k] \in Final
      BY <1>5
    <2>2. k \in Slot
      BY <2>1 DEF IInv, TypeOK, Chosen
    <2>3. k \in Chosen'
      <3>1. ~PlanWritten
        BY <2>1 DEF PlanWritten, Written, SelectionInv
      <3>2. says'.plan = says.plan
        BY <3>1, PaperChange DEF ArtifactSealed, Content, IInv, TypeOK
      <3> QED
        BY <2>1, <3>2 DEF Chosen
    <2>4. {<<"outcome", 0>>, <<"hold", 0>>} \intersect whole' = {}
      <3>1. CASE ArtifactSealed
        <4>1. Job.name \notin {"hold", "outcome"}
          BY <1>5, <3>1, SealNames DEF ArtifactSealed, Phase
        <4> QED
          BY <1>5, <3>1, <4>1 DEF ArtifactSealed
      <3> QED
        BY <1>5, <3>1, PaperChange DEF PlanWritten, Telling
    <2>5. slot'[k] \in Final \/ (slot'[k] = "partial" /\ pc' = "idle")
      BY <2>1, <2>2, OneSlot, StatusNames DEF Final
    <2>6. pc' \notin {"hold", "decision"}
      <3> SUFFICES ASSUME pc' \in {"hold", "decision"} PROVE FALSE
        OBVIOUS
      <3>1. (BranchHold \/ Conclude) /\ slot' = slot
        BY <1>5, PhaseSources DEF Plan, BranchRelease, NextPhase, Phase
      <3>2. (pc = "evaluation" \/ pc = "release") /\ work = <<>>
        BY <3>1 DEF BranchHold, Conclude, NextPhase
      <3>3. Range(work) = {}
        BY <3>2 DEF Range
      <3> QED
        BY <2>1, <3>2, <3>3 DEF StatusInv, Final
    <2> QED
      BY <2>2, <2>3, <2>4, <2>5, <2>6 DEF Stuck
  <1>8. {0} \union Chosen \subseteq {0} \union Chosen'
    <2>1. CASE PlanWritten
      BY <2>1 DEF PlanWritten, Written, SelectionInv
    <2>2. CASE ~PlanWritten
      <3>1. says'.plan = says.plan
        BY <2>2, PaperChange DEF ArtifactSealed, Content, IInv, TypeOK
      <3> QED
        BY <3>1 DEF Chosen
    <2> QED
      BY <2>1, <2>2
  <1>6. CASE Inexact # {}
    <2>1. PICK k \in {0} \union Chosen : batch[<<"selection", k>>] = "inexact"
      BY <1>6 DEF Inexact
    <2>2. k \in {0} \union Chosen'
      BY <1>8, <2>1
    <2>3. batch'[<<"selection", k>>] = "inexact"
      <3>1. <<"selection", k>> \in Stage \X Snap
        BY <2>1, Names DEF IInv, TypeOK, Chosen
      <3> QED
        BY <1>0, <2>1, <3>1 DEF Grow
    <2> QED
      BY <2>2, <2>3 DEF Stuck, Inexact
  <1>9. CASE HoldUnpriced
    <2>1. PICK b \in Listed : batch[b] = "inexact"
      BY <1>9 DEF HoldUnpriced, Unpriced
    <2>2. b \in Listed'
      BY <1>8, <2>1 DEF Listed
    <2>3. batch'[b] = "inexact"
      <3>1. b \in Stage \X Snap
        BY <2>1, ListedBatches DEF IInv
      <3> QED
        BY <1>0, <2>1, <3>1 DEF Grow
    <2>4. <<"selection", 0>> \in whole'
      BY <1>0, <1>9 DEF Grow, HoldUnpriced
    <2>5. says'.governed = 0
      <3>1. CASE PlanWritten
        BY <1>9, <3>1 DEF PlanWritten, HoldUnpriced, IInv, TypeOK
      <3>2. CASE ArtifactSealed
        <4>1. Job.name # "selection"
          BY <1>9, <3>2 DEF ArtifactSealed, Written, HoldUnpriced
        <4> QED
          BY <1>9, <3>2, <4>1 DEF ArtifactSealed, Content, HoldUnpriced, IInv, TypeOK
      <3> QED
        BY <1>9, <3>1, <3>2, PaperChange DEF HoldUnpriced
    <2> QED
      BY <2>2, <2>3, <2>4, <2>5 DEF Stuck, HoldUnpriced, Unpriced
  <1>7. CASE edited
    BY <1>7, Frames DEF Stuck
  <1> QED
    BY <1>1, <1>2, <1>3, <1>4, <1>5, <1>6, <1>7, <1>9 DEF Stuck

(* A command verifies again what has an end.                               *)
AgainInv == pc = "again" => Written(<<"hold", 0>>) \/ Written(<<"outcome", 0>>)

LEMMA AgainStep ==
    ASSUME IInv, AgainInv, Next
    PROVE  AgainInv'
  <1> SUFFICES ASSUME pc' = "again"
               PROVE  Written(<<"hold", 0>>)' \/ Written(<<"outcome", 0>>)'
    BY DEF AgainInv
  <1>1. pc = "again" \/ StartAgain
    <2>1. CASE Start \/ VerifyAgain \/ EnsureBaseline \/ SourceBatch
      BY <2>1 DEF Start, VerifyAgain, EnsureBaseline, SourceBatch, CompletedStage, RunStage,
         ReuseStage, RefuseStage, Go, End
    <2>2. CASE Propose
      BY <2>2 DEF Propose, Diagnose, WriteOnce, AuthorizeUpdater, LoadProposal, See, StartUpdater,
         UpdaterReturns, UpdaterFails, MakeDirectory, Register, PreserveRaw, NextProposal,
         WritePlan, Plan, Go, End
    <2>3. CASE Evaluate
      <3>1. StoreChild \/ RunBatch \/ WriteLifecycle \/ Transition \/ SealArtifact
               => Done \/ Stay \/ \E why : End(why)
        BY DEF StoreChild, RunBatch, CompletedStage, RunStage, ReuseStage, RefuseStage,
           WriteLifecycle, Transition, SealArtifact, WriteOnce
      <3>2. (Done \/ Stay \/ \E why : End(why)) => pc = "again"
        BY DEF Done, Stay, End
      <3>3. ~(BranchHold \/ BranchRelease \/ Conclude \/ Decided)
        BY DEF BranchHold, BranchRelease, Conclude, NextPhase, Decided, End
      <3> QED
        BY <2>3, <3>1, <3>2, <3>3 DEF Evaluate
    <2>4. CASE People
      BY <2>4 DEF People, AuthorizePreRelease, AuthorizeRelease, EditSource, EditHarness, FreezeBaseline,
         StageCommand
    <2>5. CASE Interrupt \/ Tear
      BY <2>5 DEF Interrupt, Tear, End
    <2> QED
      BY <2>1, <2>2, <2>3, <2>4, <2>5 DEF Next, Command
  <1>2. Written(<<"hold", 0>>) \/ Written(<<"outcome", 0>>)
    BY <1>1 DEF AgainInv, StartAgain
  <1> QED
    BY <1>2, Growing DEF Grow, Written

-----------------------------------------------------------------------------
(* Everything that is known about what a command finds.                    *)
HistoryInv ==
    EditInv /\ SelectionInv /\ EndsInv /\ StatusInv /\ OrderInv /\ LoopHistory /\ PlanHistory /\ AgainInv

(* What a command finds that nothing keeps from going on.                  *)
LEMMA NotStuck ==
    ASSUME IInv, HistoryInv, ~Stuck
    PROVE  /\ broken = {} /\ Inexact = {} /\ rev = 1 /\ ~HoldUnpriced
           /\ \A p : Written(p) <=> p \in whole
           /\ \A k \in Snap : snap[k] # "partial"
           /\ snap[0] = "whole" => base = rev
           /\ <<"ablation", 0>> \in whole => says.ablation = rev
           /\ pc \notin {"event", "metadata"} =>
                 /\ \A k \in Slot : slot[k] \in {"none", "refused"} \union Status
                 /\ \A k \in Slot : slot[k] \in Status => k \in meta
                 /\ \A k \in meta : slot[k] \in Status
           /\ \/ pc \in {"hold", "decision"}
              \/ {<<"outcome", 0>>, <<"hold", 0>>} \intersect whole # {}
              \/ \A k \in Chosen : slot[k] \notin Final
  <1>1. /\ broken = {} /\ Inexact = {} /\ ~edited /\ ~HoldUnpriced
        /\ \A k \in Snap : snap[k] # "partial"
    BY DEF Stuck
  <1>2. ASSUME pc \notin {"event", "metadata"}
        PROVE  /\ \A k \in Slot : slot[k] \in {"none", "refused"} \union Status
               /\ \A k \in Slot : slot[k] \in Status => k \in meta
               /\ \A k \in meta : slot[k] \in Status
    <2>1. \A k \in Slot : slot[k] \in {"none", "refused"} \union Status
      BY <1>2 DEF Stuck, IInv, TypeOK
    <2>2. \A k \in Slot : slot[k] \in Status => k \in meta
      BY <1>2 DEF Stuck
    <2>3. \A k \in meta : k \in Slot /\ slot[k] \in Status \union {"partial"}
      BY DEF IInv, TypeOK, DiskInv, SlotInv
    <2>4. \A k \in meta : slot[k] \in Status
      BY <2>1, <2>3
    <2> QED
      BY <2>1, <2>2, <2>4
  <1>3. \/ pc \in {"hold", "decision"}
        \/ {<<"outcome", 0>>, <<"hold", 0>>} \intersect whole # {}
        \/ \A k \in Chosen : slot[k] \notin Final
    BY DEF Stuck
  <1>4. /\ rev = 1
        /\ snap[0] = "whole" => base = rev
        /\ <<"ablation", 0>> \in whole => says.ablation = rev
    BY <1>1 DEF HistoryInv, EditInv
  <1> QED
    BY <1>1, <1>2, <1>3, <1>4 DEF Written

(* After the plan, and before the experiment ends, no candidate of the     *)
(* plan has a final status and every one of them is registered.            *)
LEMMA ChosenStatus ==
    ASSUME IInv, HistoryInv, ~Stuck, pc \in Phase
    PROVE  /\ \A k \in Chosen : slot[k] \in Status
           /\ pc \in {"evaluation", "release"} => \A k \in Chosen : slot[k] \in Range(Progress)
  <1>1. \A k \in Chosen : slot[k] \in Status
    BY NotStuck, PlanNotEmpty DEF IInv, DiskInv, ControlInv, PastInv, AfterPlan, Phase
  <1>2. ASSUME pc \in {"evaluation", "release"} PROVE \A k \in Chosen : slot[k] \in Range(Progress)
    <2>1. {<<"outcome", 0>>, <<"hold", 0>>} \intersect whole = {}
      BY <1>2 DEF IInv, ControlInv, EndInv, Written
    <2>2. \A k \in Chosen : slot[k] \notin Final
      BY <1>2, <2>1, NotStuck
    <2> QED
      BY <1>1, <2>2 DEF Status
  <1> QED
    BY <1>1, <1>2

(* What stands verifies again, and so does the baseline.                   *)
LEMMA VerifyNotBlocked ==
    ASSUME IInv, HistoryInv, ~Stuck, VerifyAgain
    PROVE  answer' # "blocked"
  <1>1. pc = "again" /\ (<<"hold", 0>> \in whole \/ <<"outcome", 0>> \in whole)
    BY NotStuck DEF VerifyAgain, HistoryInv, AgainInv
  <1>2. snap[0] = "whole" /\ base = rev
    BY <1>1, NotStuck DEF HistoryInv, EndsInv
  <1>3. ~(Written(<<"hold", 0>>) /\ Written(<<"outcome", 0>>))
    BY DEF HistoryInv, EndsInv
  <1>4. IF Written(<<"hold", 0>>) THEN HoldStands ELSE OutcomeStands
    BY <1>1, NotStuck DEF HistoryInv, EndsInv, IInv, DiskInv, OutcomeIsBacked
  <1> QED
    BY <1>2, <1>3, <1>4 DEF VerifyAgain, End

LEMMA BaselineNotBlocked ==
    ASSUME IInv, HistoryInv, ~Stuck, EnsureBaseline, answer # "blocked"
    PROVE  answer' # "blocked"
  <1>1. snap[0] = "none" \/ (snap[0] = "whole" /\ base = rev)
    <2>1. 0 \in Snap /\ snap[0] \in {"none", "partial", "whole"}
      BY Names DEF IInv, TypeOK
    <2> QED
      BY <2>1, NotStuck
  <1>2. Go("source") \/ End("drifted")
    BY <1>1 DEF EnsureBaseline
  <1> QED
    BY <1>2 DEF Go, End

(* A proposal that is there is loaded or was refused.                      *)
LEMMA LoadNotBlocked ==
    ASSUME IInv, HistoryInv, ~Stuck, LoadProposal, answer # "blocked"
    PROVE  answer' # "blocked"
  <1>1. pc = "propose" /\ at \in Slot /\ slot[at] # "none"
    BY DEF LoadProposal, IInv, ControlInv, LoopInv, Proposing
  <1>2. (slot[at] \in Status /\ at \in meta) \/ slot[at] = "refused"
    BY <1>1, NotStuck
  <1>3. See \/ Go("choose")
    BY <1>2 DEF LoadProposal
  <1> QED
    BY <1>3 DEF See, Go

(* The plan that is there is taken again.                                  *)
LEMMA PlanNotBlocked ==
    ASSUME IInv, HistoryInv, ~Stuck, WritePlan, answer # "blocked"
    PROVE  answer' # "blocked"
  <1>1. PICK subset \in DiverseSubsets :
           /\ First(subset)
           /\ WriteOnce(<<"plan", 0>>, says.plan = subset, [says EXCEPT !.plan = subset],
                        Go("planned"))
    BY DEF WritePlan
  <1>2. pc = "choose" /\ Enough
    BY DEF WritePlan
  <1>3. ASSUME <<"plan", 0>> \in whole PROVE says.plan = subset
    <2>1. {<<"outcome", 0>>, <<"hold", 0>>} \intersect whole = {}
      BY <1>2 DEF IInv, ControlInv, EndInv, Written
    <2>2. \A k \in Chosen : slot[k] \notin Final
      BY <1>2, <2>1, NotStuck
    <2>3. \A k \in Chosen : slot[k] # "partial"
      <3>1. Chosen \subseteq Slot
        BY DEF IInv, TypeOK, Chosen
      <3> QED
        BY <1>2, <3>1, NotStuck, StatusNames
    <2>4. \A k \in Chosen : slot[k] \notin {"held", "partial"}
      BY <2>2, <2>3 DEF Final
    <2> QED
      BY <1>1, <1>2, <1>3, <2>4, PlanAgain DEF HistoryInv
  <1>4. Go("planned")
    BY <1>1, <1>3, NotStuck DEF WriteOnce
  <1> QED
    BY <1>4 DEF Go

(* The baseline and the candidates that are to run are stored.             *)
LEMMA JobStored ==
    ASSUME IInv, HistoryInv, pc \in Phase, work # <<>>, Job.do = "batch"
    PROVE  snap[Job.on] = "whole"
  <1>1. PICK job : job = Job
    OBVIOUS
  <1>2. job \in JobsOf(pc) /\ job.do = "batch" /\ snap[0] = "whole"
        /\ pc \in {"evaluation", "release"}
    BY <1>1, JobKnown DEF IInv, ControlInv, PastInv, Phase
  <1>3. CASE pc = "evaluation" /\ job.on # 0
    <2>1. job.on \in Chosen /\ job.name \in {"update_check", "selection"}
      BY <1>2, <1>3 DEF JobsOf, EvaluationJobs, Store, Batch, Advance, Seal
    <2>2. PICK store : store = Store(job.on)
      OBVIOUS
    <2>3. store \in EvaluationJobs /\ store.do = "store" /\ store.on = job.on
      BY <2>1, <2>2 DEF EvaluationJobs, Store
    <2>4. store \notin Range(work)
      <3>1. Level(store) = 1 /\ Level(job) \in {2, 3}
        BY <1>2, <2>3 DEF Level
      <3>2. \A x \in Range(work) : Level(job) <= Level(x)
        BY <1>1, <1>3, TailInOrder DEF Job, HistoryInv, OrderInv, IInv, ControlInv, WorkInv
      <3> QED
        BY <3>1, <3>2
    <2>5. Effect(store)
      BY <1>3, <2>3, <2>4 DEF IInv, ControlInv, WorkInv, JobsOf, Phase
    <2> QED
      BY <1>1, <2>3, <2>5 DEF Effect
  <1>4. CASE pc = "release" /\ job.on # 0
    <2>1. job.on \in Roles
      BY <1>2, <1>4 DEF JobsOf, ReleaseJobs, Batch, Advance, Seal
    <2>2. job.on \in Chosen
      <3>1. <<"selection", 0>> \in whole /\ says.governed # 0
        BY <1>4, RolesInRelease
      <3> QED
        BY <2>1, <3>1, RolesAreSlots DEF IInv, DiskInv
    <2>3. Effect(Store(job.on))
      BY <1>4, <2>2 DEF EvaluationJobs, IInv, ControlInv, PastInv
    <2> QED
      BY <1>1, <2>3 DEF Effect, Store
  <1> QED
    BY <1>1, <1>2, <1>3, <1>4

LEMMA BatchNotBlocked ==
    ASSUME IInv, HistoryInv, SourceBatch \/ RunBatch, answer # "blocked"
    PROVE  answer' # "blocked"
  <1>1. CASE SourceBatch
    <2>1. snap[0] = "whole" /\ CompletedStage("update_source", 0, Go("diagnose"))
      BY <1>1 DEF SourceBatch, IInv, ControlInv, PastInv
    <2>2. Go("diagnose") \/ End("held") \/ End("unauthorized")
      BY <2>1 DEF CompletedStage, RunStage, ReuseStage, RefuseStage
    <2> QED
      BY <2>2 DEF Go, End
  <1>2. CASE RunBatch
    <2>1. PICK s, k : s = Job.name /\ k = Job.on
      OBVIOUS
    <2>2. snap[k] = "whole" /\ CompletedStage(s, k, Done)
      BY <1>2, <2>1, JobStored DEF RunBatch, Doing
    <2>3. Done \/ End("held") \/ End("unauthorized")
      BY <2>2 DEF CompletedStage, RunStage, ReuseStage, RefuseStage
    <2> QED
      BY <2>3 DEF Done, End
  <1> QED
    BY <1>1, <1>2

(* A candidate of the plan is no HOLD when it is stored.                   *)
LEMMA StoreNotBlocked ==
    ASSUME IInv, HistoryInv, ~Stuck, StoreChild, answer # "blocked"
    PROVE  answer' # "blocked"
  <1>1. PICK job : job = Job
    OBVIOUS
  <1>2. pc = "evaluation" /\ work # <<>> /\ job.do = "store" /\ job.on \in Slot /\ job \in EvaluationJobs
    BY <1>1, JobKnown DEF StoreChild, Doing, JobsOf
  <1>3. job.on \in Chosen
    BY <1>2 DEF EvaluationJobs, Store, Batch, Advance, Seal
  <1>4. slot[job.on] # "held"
    BY <1>2, <1>3 DEF HistoryInv, StatusInv
  <1>5. snap[0] = "whole" /\ snap[job.on] # "partial"
    BY <1>2, Names, NotStuck DEF IInv, ControlInv, PastInv
  <1>6. Done
    BY <1>1, <1>4, <1>5 DEF StoreChild
  <1> QED
    BY <1>6 DEF Done

(* A candidate that is to be advanced can be, or was.                      *)
LEMMA CanAdvance ==
    ASSUME IInv, HistoryInv, ~Stuck, pc \in Phase, work # <<>>, Job.do = "advance"
    PROVE  /\ slot[Job.on] \in Status
           /\ Passed(slot[Job.on], Job.name) \/ Allowed(slot[Job.on], Job.name)
           /\ slot[Job.on] = "held" => Job.name = "held"
  <1>1. PICK k, s : k = Job.on /\ s = Job.name
    OBVIOUS
  <1>2. /\ k \in Chosen /\ Job = Advance(k, s) /\ s \in Status
        /\ pc = "evaluation" => s \in {"update_evaluated", "selection_evaluated"}
        /\ pc = "hold" => s = "held"
        /\ pc = "release" => s = "release_evaluated"
        /\ pc = "decision" => k \in Roles /\ s = Decision(k)
        /\ pc = "release" => k \in Roles
    BY <1>1, AdvanceJob, JobKnown
  <1>3. slot[k] \in Status /\ (pc \in {"evaluation", "release"} => slot[k] \in Range(Progress))
    BY <1>2, ChosenStatus
  <1>4. ASSUME slot[k] \in Range(Progress), s \in Range(Progress), Rank(slot[k]) + 1 >= Rank(s)
        PROVE  Passed(slot[k], s) \/ Allowed(slot[k], s)
    BY <1>4, StatusNames, Ranks DEF Passed, Allowed
  <1>5. CASE pc = "evaluation"
    <2>1. Rank(slot[k]) + 1 >= Rank(s)
      <3>1. CASE s = "update_evaluated"
        BY <1>3, <1>5, <3>1, StatusNames, Ranks
      <3>2. CASE s = "selection_evaluated"
        <4>1. PICK before : before = Advance(k, "update_evaluated")
          OBVIOUS
        <4>2. before \in EvaluationJobs /\ Level(before) = 2 /\ Level(Job) = 3
          BY <1>2, <3>2, <4>1 DEF EvaluationJobs, Advance, Level
        <4>3. \A x \in Range(work) : Level(Job) <= Level(x)
          BY <1>5, TailInOrder DEF Job, HistoryInv, OrderInv, IInv, ControlInv, WorkInv
        <4>4. before \notin Range(work)
          BY <4>2, <4>3
        <4>5. Advanced(before)
          BY <1>5, <4>2, <4>4 DEF HistoryInv, StatusInv
        <4>6. slot[k] # "checked"
          BY <4>1, <4>5 DEF Advanced, Advance, Behind
        <4> QED
          BY <1>3, <1>5, <3>2, <4>6, StatusNames, Ranks
      <3> QED
        BY <1>2, <1>5, <3>1, <3>2
    <2> QED
      BY <1>1, <1>2, <1>3, <1>4, <1>5, <2>1, StatusNames
  <1>6. CASE pc = "hold"
    BY <1>1, <1>2, <1>3, <1>6, StatusNames DEF Passed, Allowed
  <1>7. CASE pc = "release"
    <2>1. Advance(k, "selection_evaluated") \in EvaluationJobs
      BY <1>2 DEF EvaluationJobs
    <2>2. Advanced(Advance(k, "selection_evaluated"))
      BY <1>7, <2>1 DEF HistoryInv, StatusInv
    <2>3. slot[k] \notin {"checked", "update_evaluated"}
      BY <2>2 DEF Advanced, Advance, Behind
    <2>4. Rank(slot[k]) + 1 >= Rank(s)
      BY <1>2, <1>3, <1>7, <2>3, StatusNames, Ranks
    <2> QED
      BY <1>1, <1>2, <1>3, <1>4, <1>7, <2>4, StatusNames
  <1>8. CASE pc = "decision"
    <2>1. Advance(k, "release_evaluated") \in ReleaseJobs
      BY <1>2, <1>8 DEF ReleaseJobs
    <2>2. Advanced(Advance(k, "release_evaluated"))
      BY <1>8, <2>1 DEF HistoryInv, StatusInv
    <2>3. slot[k] \notin {"checked", "update_evaluated", "selection_evaluated"}
      BY <2>2 DEF Advanced, Advance, Behind
    <2>4. slot[k] \in Final => slot[k] = s
      BY <1>2, <1>8 DEF HistoryInv, StatusInv
    <2>5. s \in Final
      BY <1>2, <1>8 DEF Decision, Final
    <2>6. slot[k] = s \/ slot[k] = "release_evaluated"
      BY <1>3, <2>3, <2>4, StatusNames DEF Final
    <2> QED
      BY <1>1, <1>3, <2>4, <2>5, <2>6, StatusNames DEF Passed, Allowed, Final
  <1> QED
    BY <1>5, <1>6, <1>7, <1>8 DEF Phase

LEMMA TransitionNotBlocked ==
    ASSUME IInv, HistoryInv, ~Stuck, Transition, answer # "blocked"
    PROVE  answer' # "blocked"
  <1>1. pc \in Phase /\ work # <<>> /\ Job.do = "advance"
    BY DEF Transition, Doing
  <1>2. /\ slot[Job.on] \in Status
        /\ Passed(slot[Job.on], Job.name) \/ Allowed(slot[Job.on], Job.name)
        /\ slot[Job.on] = "held" => Job.name = "held"
    BY <1>1, CanAdvance
  <1>3. <<Job.name, Job.on>> \in whole
    BY NotStuck DEF Transition
  <1>4. Done
    BY <1>2, <1>3 DEF Transition
  <1> QED
    BY <1>4 DEF Done

(* An artifact that is to be sealed is not refused, and one that is there  *)
(* says the same.                                                          *)
LEMMA SealNotBlocked ==
    ASSUME IInv, HistoryInv, ~Stuck, SealArtifact, answer # "blocked"
    PROVE  answer' # "blocked"
  <1>1. pc \in Phase /\ work # <<>> /\ Job.do = "seal"
    BY DEF SealArtifact, Doing
  <1>2. ~Refused
    <2>1. Inexact = {} /\ (snap[0] = "whole" => base = rev)
      BY NotStuck
    <2>2. snap[0] = "whole"
      BY <1>1 DEF IInv, ControlInv, PastInv, Phase
    <2>3. Job.name = "hold" => pc = "hold" /\ says.governed = 0
      BY <1>1, SealNames DEF IInv, ControlInv, PastInv, Phase
    <2>4. Job.name = "hold" => <<"selection", 0>> \in whole
      <3>1. Seal("selection") \in EvaluationJobs
        BY DEF EvaluationJobs
      <3> QED
        BY <2>3, <3>1 DEF Effect, Seal, IInv, ControlInv, PastInv
    <2>5. Job.name = "hold" => Unpriced = {}
      BY <2>3, <2>4, NotStuck DEF HoldUnpriced
    <2> QED
      BY <2>1, <2>2, <2>3, <2>5 DEF Refused
  <1>3. <<Job.name, 0>> \in whole => Same
    <2>1. <<"selection", 0>> \in whole => says.native = Native /\ says.governed = Governed
      BY DEF HistoryInv, SelectionInv
    <2>2. <<"ablation", 0>> \in whole => says.ablation = rev
      BY NotStuck
    <2>3. <<"hold", 0>> \in whole => says.cost = spent
      BY DEF IInv, DiskInv, HoldCostStands
    <2> QED
      BY <2>1, <2>2, <2>3 DEF Same
  <1>4. Done
    <2>1. WriteOnce(<<Job.name, 0>>, Same, Content, Done)
      BY <1>2 DEF SealArtifact
    <2> QED
      BY <1>3, <2>1, NotStuck DEF WriteOnce
  <1> QED
    BY <1>4 DEF Done

-----------------------------------------------------------------------------
(* A command that ends blocked has changed nothing.                        *)
LEMMA BlockedEnds ==
    ASSUME Next, answer' = "blocked", answer # "blocked"
    PROVE  /\ pc' = "idle" /\ UNCHANGED <<slot, meta, snap, batch, whole, broken, says, edited>>
           /\ \/ VerifyAgain \/ EnsureBaseline \/ SourceBatch \/ RunBatch \/ LoadProposal
              \/ WritePlan \/ StoreChild \/ Transition \/ SealArtifact
              \/ Diagnose \/ WriteLifecycle
  <1> DEFINE Idle == pc' = "idle"
             Kept == UNCHANGED <<slot, meta, snap, batch, whole, broken, says, edited>>
  <1>1. CASE VerifyAgain
    BY <1>1 DEF VerifyAgain, End, KeepDisk, registry, evidence, troubles
  <1>2. CASE EnsureBaseline
    BY <1>2 DEF EnsureBaseline, Go, End, evidence, troubles
  <1>3. ASSUME NEW s, NEW k, NEW after, CompletedStage(s, k, after), after => answer' = answer
        PROVE  Idle /\ Kept
    <2>1. RefuseStage(s, k)
      BY <1>3 DEF CompletedStage, RunStage, ReuseStage, End
    <2> QED
      BY <2>1 DEF RefuseStage, End, KeepDisk, registry, evidence, troubles
  <1>4. CASE SourceBatch
    BY <1>3, <1>4 DEF SourceBatch, Go
  <1>5. CASE RunBatch
    <2>1. PICK s, k : s = Job.name /\ k = Job.on
      OBVIOUS
    <2>2. CompletedStage(s, k, Done) /\ (Done => answer' = answer)
      BY <1>5, <2>1 DEF RunBatch, Done
    <2> QED
      BY <1>3, <1>5, <2>2
  <1>6. CASE LoadProposal
    BY <1>6 DEF LoadProposal, See, Go, End, KeepDisk, registry, evidence, troubles
  <1>7. ASSUME NEW paper, NEW same, NEW new, NEW after, WriteOnce(paper, same, new, after),
               after => answer' = answer
        PROVE  Idle /\ Kept
    <2>1. (paper \in broken \/ (paper \in whole /\ ~same)) /\ End("blocked")
      BY <1>7 DEF WriteOnce
    <2>2. UNCHANGED <<whole, says>> /\ UNCHANGED <<registry, batch, broken, people, troubles>>
      BY <1>7, <2>1 DEF WriteOnce, Written
    <2> QED
      BY <2>1, <2>2 DEF End, registry, troubles
  <1>8. CASE WritePlan
    <2>1. PICK subset \in DiverseSubsets :
             WriteOnce(<<"plan", 0>>, says.plan = subset, [says EXCEPT !.plan = subset],
                       Go("planned"))
      BY <1>8 DEF WritePlan
    <2>2. Go("planned") => answer' = answer
      BY DEF Go
    <2> QED
      BY <1>7, <1>8, <2>1, <2>2
  <1>9. CASE Diagnose
    <2>1. PICK p : p = <<"diagnosis", 0>>
      OBVIOUS
    <2>2. WriteOnce(p, TRUE, says, Go("authorize")) /\ ~Go("authorize")
      BY <1>9, <2>1 DEF Diagnose, Go
    <2>3. End("blocked") /\ UNCHANGED <<whole, says>>
          /\ UNCHANGED <<registry, batch, broken, people, troubles>>
      BY <2>2 DEF WriteOnce, Written
    <2> QED
      BY <1>9, <2>3 DEF End, registry, troubles
  <1>10. CASE WriteLifecycle
    <2>1. PICK p : p = <<Job.name, Job.on>>
      OBVIOUS
    <2>2. WriteOnce(p, TRUE, says, Stay) /\ ~Stay
      BY <1>10, <2>1 DEF WriteLifecycle, Stay
    <2>3. End("blocked") /\ UNCHANGED <<whole, says>>
          /\ UNCHANGED <<registry, batch, broken, people, troubles>>
      BY <2>2 DEF WriteOnce, Written
    <2> QED
      BY <1>10, <2>3 DEF End, registry, troubles
  <1>11. CASE StoreChild
    <2>1. UNCHANGED <<slot, meta, evidence, troubles>> /\ (Done => answer' = answer)
      BY <1>11 DEF StoreChild, Done
    <2>2. End("blocked") /\ UNCHANGED snap
      BY <1>11, <2>1 DEF StoreChild, End
    <2> QED
      BY <1>11, <2>1, <2>2 DEF End, evidence, troubles
  <1>12. CASE Transition
    <2>1. UNCHANGED <<meta, snap, evidence, troubles>> /\ (Done => answer' = answer)
      BY <1>12 DEF Transition, Done
    <2>2. End("blocked") /\ UNCHANGED slot
      BY <1>12, <2>1 DEF Transition, End
    <2> QED
      BY <1>12, <2>1, <2>2 DEF End, evidence, troubles
  <1>13. CASE SealArtifact
    <2>1. CASE Refused
      BY <1>13, <2>1 DEF SealArtifact, End, KeepDisk, registry, evidence, troubles
    <2>2. CASE ~Refused
      <3>1. WriteOnce(<<Job.name, 0>>, Same, Content, Done) /\ (Done => answer' = answer)
        BY <1>13, <2>2 DEF SealArtifact, Done
      <3>2. PICK p, same, new : p = <<Job.name, 0>> /\ same = Same /\ new = Content
        OBVIOUS
      <3>3. WriteOnce(p, same, new, Done)
        BY <3>1, <3>2
      <3> QED
        BY <1>7, <1>13, <3>1, <3>3
    <2> QED
      BY <2>1, <2>2
  <1>14. ~(Start \/ StartAgain \/ AuthorizeUpdater \/ StartUpdater \/ UpdaterReturns \/ UpdaterFails
           \/ MakeDirectory \/ Register \/ PreserveRaw \/ NextProposal)
    BY DEF Start, StartAgain, AuthorizeUpdater, StartUpdater, UpdaterReturns, UpdaterFails,
       MakeDirectory, Register, PreserveRaw, See, NextProposal, Go, local, End
  <1>15. ~(Plan \/ BranchHold \/ BranchRelease \/ Conclude \/ Decided \/ Interrupt \/ Tear)
    BY DEF Plan, BranchHold, BranchRelease, Conclude, NextPhase, Decided, Interrupt, Tear, End
  <1>16. ~People
    BY DEF People, AuthorizePreRelease, AuthorizeRelease, EditSource, EditHarness, FreezeBaseline, StageCommand
  <1> QED
    BY <1>1, <1>2, <1>4, <1>5, <1>6, <1>8, <1>9, <1>10, <1>11, <1>12, <1>13, <1>14, <1>15, <1>16
       DEF Next, Command, Propose, Evaluate

(* A command ends blocked only where something was in its way.             *)
LEMMA NotBlocked ==
    ASSUME IInv, HistoryInv, ~Stuck, Next, answer # "blocked"
    PROVE  answer' # "blocked"
  <1> SUFFICES ASSUME answer' = "blocked" PROVE FALSE
    OBVIOUS
  <1>1. CASE Diagnose
    <2>1. Go("authorize")
      BY <1>1, NotStuck DEF Diagnose, WriteOnce
    <2> QED
      BY <2>1 DEF Go
  <1>2. CASE WriteLifecycle
    <2>1. Stay
      BY <1>2, NotStuck DEF WriteLifecycle, WriteOnce
    <2> QED
      BY <2>1 DEF Stay
  <1> QED
    BY <1>1, <1>2, BlockedEnds, VerifyNotBlocked, BaselineNotBlocked, BatchNotBlocked,
       LoadNotBlocked, PlanNotBlocked, StoreNotBlocked, TransitionNotBlocked, SealNotBlocked

(* The answer "blocked" has a reason that stays.                           *)
BlockedInv == answer = "blocked" => Stuck

LEMMA BlockedStep ==
    ASSUME IInv, HistoryInv, BlockedInv, Next
    PROVE  BlockedInv'
  <1> SUFFICES ASSUME answer' = "blocked" PROVE Stuck'
    BY DEF BlockedInv
  <1>1. CASE answer = "blocked"
    BY <1>1, StuckStays DEF BlockedInv, HistoryInv
  <1>2. CASE answer # "blocked"
    <2>1. pc' = "idle" /\ UNCHANGED <<slot, meta, snap, batch, whole, broken, says, edited>>
      BY <1>2, BlockedEnds
    <2>2. Stuck
      BY <1>2, NotBlocked
    <2> QED
      BY <2>1, <2>2 DEF Stuck, HoldUnpriced, Unpriced, Listed, Chosen, Inexact
  <1> QED
    BY <1>1, <1>2

(* All of it holds at the start, and every step keeps it.                  *)
HonestInv == IInv /\ HistoryInv /\ BlockedInv

LEMMA HonestInit == Init => HonestInv
  <1> SUFFICES ASSUME Init PROVE HonestInv
    OBVIOUS
  <1>1. /\ pc = "idle" /\ work = <<>> /\ answer = "none" /\ whole = {} /\ broken = {}
        /\ says.plan = {} /\ rev = 1
        /\ snap = [k \in Snap |-> "none"] /\ batch = [b \in Stage \X Snap |-> "none"]
    BY DEF Init
  <1>2. IInv
    BY InitInv
  <1>3. EditInv /\ EndsInv
    BY <1>1, Names DEF EditInv, EndsInv, Written
  <1>4. SelectionInv
    BY <1>1, Names DEF SelectionInv, Chosen
  <1>5. StatusInv /\ OrderInv /\ LoopHistory /\ PlanHistory /\ AgainInv
    BY <1>1 DEF StatusInv, OrderInv, LoopHistory, PlanHistory, AgainInv, Proposing
  <1> QED
    BY <1>1, <1>2, <1>3, <1>4, <1>5 DEF HonestInv, HistoryInv, BlockedInv

LEMMA HonestSame ==
    ASSUME HonestInv, UNCHANGED vars
    PROVE  HonestInv'
  <1>1. UNCHANGED <<registry, evidence, people, pc, local, troubles>> /\ answer' = answer
    BY DEF vars
  <1>2. UNCHANGED <<slot, meta, spent, snap, base, batch, whole, broken, says, rev, pc, at, seen, work,
                    answer, edited>>
    BY <1>1 DEF registry, evidence, people, local, troubles
  <1>3. /\ Chosen' = Chosen /\ Native' = Native /\ Governed' = Governed /\ Inexact' = Inexact
        /\ HoldUnpriced' = HoldUnpriced
    BY <1>2 DEF Chosen, Native, Governed, Better, Inexact, HoldUnpriced, Unpriced, Listed
  <1>4. EditInv' /\ SelectionInv' /\ AgainInv'
    BY <1>2, <1>3 DEF HonestInv, HistoryInv, EditInv, SelectionInv, AgainInv, Written
  <1>5. EndsInv'
    BY <1>2, <1>3 DEF HonestInv, HistoryInv, EndsInv, Written, HoldStands, BatchesOf
  <1>6. StatusInv'
    <2>1. /\ Roles' = Roles /\ EvaluationJobs' = EvaluationJobs /\ ReleaseJobs' = ReleaseJobs
          /\ \A k : Decision(k)' = Decision(k)
          /\ \A j : Advanced(j)' = Advanced(j)
          /\ Range(work') = Range(work)
      BY <1>2, <1>3 DEF Roles, EvaluationJobs, ReleaseJobs, Store, Batch, Advance, Seal, Decision,
         Advanced, Behind
    <2> QED
      BY <1>2, <1>3, <2>1 DEF HonestInv, HistoryInv, StatusInv, Advance
  <1>7. OrderInv'
    BY <1>2 DEF HonestInv, HistoryInv, OrderInv, InOrder, Level
  <1>8. LoopHistory' /\ PlanHistory'
    <2>1. LoopHistory'
      BY <1>2 DEF HonestInv, HistoryInv, LoopHistory, Fit, Suffices, Diverse
    <2>2. PlanHistory'
      BY <1>2, <1>3, SettledStays DEF HonestInv, HistoryInv, PlanHistory
    <2> QED
      BY <2>1, <2>2
  <1>9. BlockedInv'
    BY <1>2, <1>3 DEF HonestInv, BlockedInv, Stuck
  <1>10. IInv'
    BY NextInv DEF HonestInv
  <1> QED
    BY <1>4, <1>5, <1>6, <1>7, <1>8, <1>9, <1>10 DEF HonestInv, HistoryInv

LEMMA HonestStep ==
    ASSUME HonestInv, [Next]_vars
    PROVE  HonestInv'
  <1>1. CASE Next
    <2>1. IInv /\ HistoryInv /\ BlockedInv /\ IInv'
      BY <1>1, NextInv DEF HonestInv
    <2>2. EditInv' /\ SelectionInv' /\ EndsInv' /\ StatusInv'
      BY <1>1, <2>1, EditStep, SelectionStep, EndsStep, StatusStep DEF HistoryInv
    <2>3. OrderInv' /\ LoopHistory' /\ PlanHistory' /\ AgainInv'
      BY <1>1, <2>1, OrderStep, LoopStep, PlanStep, AgainStep DEF HistoryInv
    <2>4. BlockedInv'
      BY <1>1, <2>1, BlockedStep
    <2> QED
      BY <2>1, <2>2, <2>3, <2>4 DEF HonestInv, HistoryInv
  <1>2. CASE UNCHANGED vars
    BY <1>2, HonestSame
  <1> QED
    BY <1>1, <1>2

LEMMA Honest == Spec => []HonestInv
  <1>1. HonestInv /\ [Next]_vars => HonestInv'
    BY HonestStep
  <1> QED
    BY HonestInit, <1>1, PTL DEF Spec

(* A command ends blocked only when something is on the disk that keeps    *)
(* it, and every later command, from going on: a part of a file, a cut     *)
(* registration, a final status without its outcome, a selection batch of  *)
(* unknown cost, any batch of unknown cost that a HOLD outcome has to      *)
(* list, or a changed source.  Whatever else a command finds of the ones   *)
(* before it, it verifies and goes on; a harness/ that differs from the    *)
(* baseline refuses a command with an answer of its own.                   *)
THEOREM BlockedHolds == Spec => []BlockedHasReason
  <1>1. HonestInv => BlockedHasReason
    BY DEF HonestInv, BlockedInv, BlockedHasReason, Stuck, HoldUnpriced, Residue
  <1> QED
    BY Honest, <1>1, PTL

-----------------------------------------------------------------------------
(* What is in the way of one command is in the way of every later one:     *)
(* nothing the command or the people do takes a torn file, a cut           *)
(* registration, a status without its outcome or an edit back.             *)
THEOREM StuckForGood == Spec => [][Stuck => Stuck']_vars
  <1>1. HonestInv /\ [Next]_vars => [Stuck => Stuck']_vars
    <2> SUFFICES ASSUME HonestInv, Next, Stuck PROVE Stuck'
      OBVIOUS
    <2> QED
      BY StuckStays DEF HonestInv, HistoryInv
  <1> QED
    BY Honest, <1>1, PTL DEF Spec

(* Without these troubles nothing is ever in the way.                      *)
Rough == {"death", "torn", "edit", "drift", "inexact"}

(* A status beyond the first is that of a candidate of the plan.           *)
PlainInv ==
    \A k \in Slot : slot[k] \in Status => slot[k] \in {"checked", "held"} \/ k \in Chosen

SmoothInv ==
    /\ ~Stuck /\ answer \notin {"blocked", "drifted"} /\ live /\ PlainInv
    /\ \A b \in Stage \X Snap : batch[b] # "inexact"

(* What does not happen then.                                              *)
LEMMA NotRough ==
    ASSUME Trouble \intersect Rough = {}, Next
    PROVE  ~Interrupt /\ ~Tear /\ ~EditHarness /\ (edited' => edited)
  <1>1. \A T : Happens(T) => T \intersect Rough = {} /\ (edited' => edited)
    BY DEF Happens, Rough
  <1>2. ~Interrupt /\ ~Tear /\ ~EditSource /\ ~EditHarness
    BY <1>1 DEF Interrupt, Tear, EditSource, EditHarness, Rough
  <1>3. CASE SourceBatch \/ RunBatch
    <2>1. UNCHANGED troubles \/ \E T : Happens(T)
      BY <1>3 DEF SourceBatch, RunBatch, CompletedStage, RunStage, ReuseStage, RefuseStage, PayBatch
    <2> QED
      BY <1>1, <1>2, <2>1 DEF troubles
  <1>4. CASE UpdaterFails \/ AuthorizeUpdater
    BY <1>1, <1>2, <1>4 DEF UpdaterFails, AuthorizeUpdater, troubles
  <1>5. ASSUME NEW s \in Stage, NEW k \in Snap, StageCommand(s, k) PROVE edited' => edited
    BY <1>1, <1>5 DEF StageCommand, PayBatch
  <1>6. CASE Start \/ StartAgain \/ VerifyAgain \/ EnsureBaseline \/ FreezeBaseline
             \/ AuthorizePreRelease \/ AuthorizeRelease \/ LoadProposal
             \/ StartUpdater \/ UpdaterReturns \/ MakeDirectory \/ Register \/ PreserveRaw
             \/ NextProposal \/ Plan \/ StoreChild \/ Transition \/ BranchHold \/ BranchRelease
             \/ Conclude \/ Decided
    <2>1. UNCHANGED troubles
      BY <1>6 DEF Start, StartAgain, VerifyAgain, EnsureBaseline, FreezeBaseline,
         AuthorizePreRelease, AuthorizeRelease, LoadProposal, StartUpdater,
         UpdaterReturns, MakeDirectory, Register, PreserveRaw, NextProposal, Plan, StoreChild,
         Transition, BranchHold, BranchRelease, Conclude, NextPhase, Decided
    <2> QED
      BY <1>2, <2>1 DEF troubles
  <1>7. CASE Diagnose \/ WritePlan \/ WriteLifecycle \/ SealArtifact
    <2>1. UNCHANGED troubles
      BY <1>7 DEF Diagnose, WritePlan, WriteLifecycle, SealArtifact, WriteOnce
    <2> QED
      BY <1>2, <2>1 DEF troubles
  <1> QED
    BY <1>2, <1>3, <1>4, <1>5, <1>6, <1>7 DEF Next, Command, Propose, Evaluate, People

(* A registration that is begun is finished, and an ended phase seals its  *)
(* end, unless the command dies.                                           *)
LEMMA RegistrationEnds ==
    ASSUME IInv, Next, ~Interrupt, ~Tear, pc \in {"event", "metadata"}
    PROVE  \/ pc' = pc /\ at' = at
           \/ pc = "event" /\ Register
           \/ pc = "metadata" /\ PreserveRaw
  <1>1. ~(Start \/ StartAgain \/ VerifyAgain \/ EnsureBaseline \/ SourceBatch)
    BY DEF Start, StartAgain, Running, VerifyAgain, EnsureBaseline, SourceBatch
  <1>2. ~(Diagnose \/ AuthorizeUpdater \/ LoadProposal \/ StartUpdater \/ UpdaterReturns
          \/ UpdaterFails \/ MakeDirectory \/ NextProposal \/ WritePlan \/ Plan)
    BY DEF Diagnose, AuthorizeUpdater, LoadProposal, StartUpdater, UpdaterReturns, UpdaterFails,
       EndUpdater, MakeDirectory, NextProposal, WritePlan, Plan
  <1>3. ~Evaluate
    BY DEF Evaluate, StoreChild, RunBatch, WriteLifecycle, Transition, SealArtifact, Doing,
       BranchHold, BranchRelease, Conclude, NextPhase, Decided, Phase
  <1>4. CASE People
    BY <1>4 DEF People, AuthorizePreRelease, AuthorizeRelease, EditSource, EditHarness, FreezeBaseline,
       StageCommand, local
  <1> QED
    BY <1>1, <1>2, <1>3, <1>4 DEF Next, Command, Propose, Register, PreserveRaw

LEMMA EndIsSealed ==
    ASSUME IInv, Next, ~Interrupt, ~Tear, answer' # "blocked",
           pc \in {"hold", "decision"}, pc' \notin {"hold", "decision"}
    PROVE  {<<"outcome", 0>>, <<"hold", 0>>} \intersect whole # {}
  <1>1. ~(Start \/ StartAgain \/ VerifyAgain \/ EnsureBaseline \/ SourceBatch)
    BY DEF Start, StartAgain, Running, VerifyAgain, EnsureBaseline, SourceBatch
  <1>2. ~Propose
    BY DEF Propose, Diagnose, AuthorizeUpdater, LoadProposal, StartUpdater, UpdaterReturns,
       UpdaterFails, EndUpdater, MakeDirectory, Register, PreserveRaw, NextProposal, WritePlan, Plan
  <1>3. ~People
    BY DEF People, AuthorizePreRelease, AuthorizeRelease, EditSource, EditHarness, FreezeBaseline, StageCommand
  <1>4. ~RunBatch
    BY JobKnown DEF RunBatch, Doing
  <1>5. ~(StoreChild \/ WriteLifecycle \/ Transition)
    BY DEF StoreChild, WriteLifecycle, Transition, WriteOnce, Done, Stay, End
  <1>6. ~SealArtifact
    BY DEF SealArtifact, WriteOnce, Done, End
  <1>7. Decided
    BY <1>1, <1>2, <1>3, <1>4, <1>5, <1>6
       DEF Next, Command, Evaluate, BranchHold, BranchRelease, Conclude, NextPhase
  <1>8. work = <<>> /\ Range(<<>>) = {}
    BY <1>7 DEF Decided, Range
  <1>9. CASE pc = "hold"
    <2>1. Seal("hold") \in HoldJobs /\ \A j \in HoldJobs : Effect(j)
      BY <1>8, <1>9 DEF HoldJobs, IInv, ControlInv, WorkInv, JobsOf, Phase
    <2>2. <<"hold", 0>> \in whole
      BY <2>1 DEF Effect, Seal
    <2> QED
      BY <2>2
  <1>10. CASE pc = "decision"
    <2>1. Seal("outcome") \in DecisionJobs /\ \A j \in DecisionJobs : Effect(j)
      BY <1>8, <1>10 DEF DecisionJobs, IInv, ControlInv, WorkInv, JobsOf, Phase
    <2>2. <<"outcome", 0>> \in whole
      BY <2>1 DEF Effect, Seal
    <2> QED
      BY <2>2
  <1> QED
    BY <1>9, <1>10

(* What becomes of the candidates of a plan.                               *)
LEMMA ChosenChange ==
    ASSUME IInv, SelectionInv, Next
    PROVE  /\ Chosen' = Chosen \/ (PlanWritten /\ Chosen = {} /\ Chosen' \in DiverseSubsets /\ slot' = slot)
           /\ Chosen \subseteq Chosen'
           /\ MakeDirectory \/ Register => at \in Slot /\ at \notin Chosen
  <1>1. CASE PlanWritten /\ UNCHANGED <<registry, batch, people>>
    <2>1. Chosen = {} /\ slot' = slot
      BY <1>1 DEF PlanWritten, Written, SelectionInv, registry
    <2>2. Chosen' \in DiverseSubsets
      BY <1>1 DEF PlanWritten, Chosen, IInv, TypeOK
    <2> QED
      BY <1>1, <2>1, <2>2 DEF PlanWritten, MakeDirectory, Register
  <1>2. CASE ~PlanWritten
    <2>1. Chosen' = Chosen
      <3>1. says'.plan = says.plan
        BY <1>2, PaperChange DEF ArtifactSealed, Content, IInv, TypeOK
      <3> QED
        BY <3>1 DEF Chosen
    <2>2. ASSUME MakeDirectory \/ Register PROVE at \in Slot /\ at \notin Chosen
      <3>1. pc \in {"register", "event"}
        BY <2>2 DEF MakeDirectory, Register
      <3>2. at \in Slot /\ at \notin meta
        BY <3>1, StatusNames DEF IInv, ControlInv, LoopInv, Proposing, DiskInv, SlotInv
      <3>3. Chosen \subseteq meta
        BY DEF SelectionInv, IInv, DiskInv, PlanInv
      <3> QED
        BY <3>2, <3>3
    <2> QED
      BY <2>1, <2>2
  <1>3. PlanWritten => UNCHANGED <<registry, batch, people>>
    BY PaperChange DEF PlanWritten, Written, Telling, ArtifactSealed, Phase
  <1> QED
    BY <1>1, <1>2, <1>3

LEMMA PlainStep ==
    ASSUME IInv, SelectionInv, PlainInv, Next
    PROVE  PlainInv'
  <1> SUFFICES ASSUME NEW k \in Slot, slot'[k] \in Status
               PROVE  slot'[k] \in {"checked", "held"} \/ k \in Chosen'
    BY DEF PlainInv
  <1>1. CASE slot'[k] = slot[k]
    BY <1>1, ChosenChange DEF PlainInv
  <1>2. CASE Register
    <2>1. slot' = [slot EXCEPT ![at] = verdict] /\ verdict \in {"checked", "held", "refused"}
      BY <1>2 DEF Register, IInv, ControlInv, LoopInv
    <2>2. slot'[k] = slot[k] \/ slot'[k] \in {"checked", "held", "refused"}
      BY <2>1 DEF IInv, TypeOK
    <2> QED
      BY <1>1, <2>2, StatusNames
  <1>3. CASE MakeDirectory
    <2>1. \E s \in {"refusing", "partial"} : slot' = [slot EXCEPT ![at] = s]
      BY <1>3 DEF MakeDirectory
    <2>2. slot'[k] = slot[k]
      BY <2>1, StatusNames DEF IInv, TypeOK
    <2> QED
      BY <1>1, <2>2
  <1>4. CASE Advancing
    <2>1. PICK l, s : l \in Chosen /\ slot' = [slot EXCEPT ![l] = s]
      BY <1>4 DEF Advancing
    <2>2. slot'[k] = slot[k] \/ k \in Chosen
      BY <2>1 DEF IInv, TypeOK
    <2> QED
      BY <1>1, <2>2, ChosenChange
  <1>5. ASSUME NEW l \in Chosen, slot' = [slot EXCEPT ![l] = "partial"]
        PROVE  slot'[k] = slot[k]
    BY <1>5, StatusNames DEF IInv, TypeOK
  <1> QED
    BY <1>1, <1>2, <1>3, <1>4, <1>5, SlotChange

(* No batch is sealed with calls of unknown price.                         *)
LEMMA ExactStep ==
    ASSUME IInv, Next, Trouble \intersect Rough = {}, \A b \in Stage \X Snap : batch[b] # "inexact"
    PROVE  \A b \in Stage \X Snap : batch'[b] # "inexact"
  <1>1. ASSUME NEW s \in Stage, NEW k \in Snap, BatchPaid(s, k)
        PROVE  \A b \in Stage \X Snap : batch'[b] # "inexact"
    <2>1. \E r : r # "inexact" /\ batch' = [batch EXCEPT ![<<s, k>>] = r]
      BY <1>1 DEF BatchPaid, Rough
    <2> QED
      BY <2>1 DEF IInv, TypeOK
  <1> QED
    BY <1>1, BatchChange

(* Only a person changes harness/, and only the baseline minds.            *)
LEMMA HarnessStays ==
    ASSUME Next, ~EditHarness
    PROVE  live' = live
  <1>1. CASE Start \/ StartAgain \/ VerifyAgain \/ EnsureBaseline \/ SourceBatch \/ Decided
    BY <1>1 DEF Start, StartAgain, VerifyAgain, EnsureBaseline, SourceBatch, CompletedStage,
       RunStage, ReuseStage, RefuseStage, Decided, people
  <1>2. CASE Propose
    BY <1>2 DEF Propose, Diagnose, WriteOnce, AuthorizeUpdater, LoadProposal, StartUpdater,
       UpdaterReturns, UpdaterFails, EndUpdater, MakeDirectory, Register, PreserveRaw,
       NextProposal, WritePlan, Plan, people
  <1>3. CASE StoreChild \/ RunBatch \/ WriteLifecycle \/ Transition
    BY <1>3 DEF StoreChild, RunBatch, CompletedStage, RunStage, ReuseStage, RefuseStage,
       WriteLifecycle, WriteOnce, Transition, people
  <1>4. CASE SealArtifact
    BY <1>4 DEF SealArtifact, WriteOnce, people
  <1>5. CASE BranchHold \/ BranchRelease \/ Conclude
    BY <1>5 DEF BranchHold, BranchRelease, Conclude, NextPhase, people
  <1>6. CASE People
    BY <1>6 DEF People, AuthorizePreRelease, AuthorizeRelease, EditSource, FreezeBaseline,
       StageCommand, people
  <1>7. CASE Interrupt \/ Tear
    BY <1>7 DEF Interrupt, Tear, people
  <1> QED
    BY <1>1, <1>2, <1>3, <1>4, <1>5, <1>6, <1>7 DEF Next, Command, Evaluate

(* A harness/ that is the baseline's refuses nothing.                      *)
LEMMA NotDrifted ==
    ASSUME Next, live, answer # "drifted"
    PROVE  answer' # "drifted"
  <1>1. CASE Start \/ StartAgain \/ VerifyAgain \/ EnsureBaseline \/ SourceBatch \/ Decided
    BY <1>1 DEF Start, StartAgain, VerifyAgain, EnsureBaseline, SourceBatch, CompletedStage,
       RunStage, ReuseStage, RefuseStage, Decided, Go, End
  <1>2. CASE Propose
    BY <1>2 DEF Propose, Diagnose, WriteOnce, AuthorizeUpdater, LoadProposal, See, StartUpdater,
       UpdaterReturns, UpdaterFails, MakeDirectory, Register, PreserveRaw,
       NextProposal, WritePlan, Plan, Go, End
  <1>3. CASE StoreChild \/ RunBatch \/ WriteLifecycle \/ Transition
    BY <1>3 DEF StoreChild, RunBatch, CompletedStage, RunStage, ReuseStage, RefuseStage,
       WriteLifecycle, WriteOnce, Stay, Transition, Done, End
  <1>4. CASE SealArtifact
    BY <1>4 DEF SealArtifact, WriteOnce, Done, End
  <1>5. CASE BranchHold \/ BranchRelease \/ Conclude
    BY <1>5 DEF BranchHold, BranchRelease, Conclude, NextPhase
  <1>6. CASE People
    BY <1>6 DEF People, AuthorizePreRelease, AuthorizeRelease, EditSource, EditHarness,
       FreezeBaseline, StageCommand
  <1>7. CASE Interrupt \/ Tear
    BY <1>7 DEF Interrupt, Tear, End
  <1> QED
    BY <1>1, <1>2, <1>3, <1>4, <1>5, <1>6, <1>7 DEF Next, Command, Evaluate

LEMMA SmoothStep ==
    ASSUME Trouble \intersect Rough = {}, HonestInv, SmoothInv, Next
    PROVE  SmoothInv'
  <1>1. IInv /\ HistoryInv /\ SelectionInv /\ ~Stuck
    BY DEF HonestInv, HistoryInv, SmoothInv
  <1>2. answer' \notin {"blocked", "drifted"}
    BY <1>1, NotBlocked, NotDrifted DEF SmoothInv
  <1>12. live'
    BY NotRough, HarnessStays DEF SmoothInv
  <1>3. ~Interrupt /\ ~Tear /\ ~edited' /\ broken' = {} /\ meta \subseteq meta'
    BY <1>1, NotRough, Frames, Growing DEF Stuck, Grow
  <1>4. PlainInv'
    BY <1>1, PlainStep DEF SmoothInv
  <1>5. \A b \in Stage \X Snap : batch'[b] # "inexact"
    BY <1>1, ExactStep DEF SmoothInv
  <1>6. Inexact' = {}
    <2>1. Chosen' \subseteq Slot
      BY <1>1, NextInv DEF IInv, TypeOK, Chosen
    <2>2. \A k \in {0} \union Chosen' : <<"selection", k>> \in Stage \X Snap
      BY <2>1, Names
    <2> QED
      BY <1>5, <2>2 DEF Inexact
  <1>13. ~HoldUnpriced'
    <2>1. Listed' \subseteq Stage \X Snap
      <3>1. TypeOK'
        BY <1>1, NextInv DEF IInv
      <3>2. {0} \union Chosen' \subseteq Snap
        BY <3>1, Names DEF TypeOK, Chosen
      <3> QED
        BY <3>2, Names DEF Listed, Stage
    <2> QED
      BY <1>5, <2>1 DEF HoldUnpriced, Unpriced
  <1>7. \A k \in Snap : snap'[k] # "partial"
    <2>1. \A k \in Snap : snap[k] # "partial"
      BY <1>1 DEF Stuck
    <2>2. snap' = snap \/ \E k : snap' = [snap EXCEPT ![k] = "whole"]
      BY <1>1, <1>3, Frames DEF EnsureBaseline, FreezeBaseline, StoreChild
    <2> QED
      BY <1>1, <2>1, <2>2 DEF IInv, TypeOK
  <1>8. ASSUME NEW k \in Slot, slot'[k] \in {"partial", "refusing"}
        PROVE  pc' = "event" /\ k = at'
    <2>1. CASE slot'[k] = slot[k]
      <3>1. pc = "event" /\ k = at
        BY <1>1, <1>8, <2>1 DEF Stuck
      <3>2. ~Register
        <4>1. slot' = [slot EXCEPT ![at] = verdict] /\ verdict \in {"checked", "held", "refused"}
              => slot'[k] \in {"checked", "held", "refused"}
          BY <1>1, <3>1 DEF IInv, TypeOK
        <4> QED
          BY <1>1, <1>8, <4>1 DEF Register, IInv, ControlInv, LoopInv
      <3> QED
        BY <1>1, <1>3, <3>1, <3>2, RegistrationEnds
    <2>2. CASE MakeDirectory /\ k = at
      BY <2>2 DEF MakeDirectory, Go, local
    <2>3. CASE Register /\ k = at
      <3>1. slot'[k] \in {"checked", "held", "refused"}
        BY <1>1, <2>3 DEF Register, IInv, TypeOK, ControlInv, LoopInv
      <3> QED
        BY <1>8, <3>1
    <2> QED
      BY <1>1, <1>3, <1>8, <2>1, <2>2, <2>3, OneSlot, StatusNames
  <1>9. ASSUME NEW k \in Slot \ meta', slot'[k] \in Status
        PROVE  pc' = "metadata" /\ k = at'
    <2>1. k \in Slot \ meta
      BY <1>3
    <2>2. CASE slot[k] \in Status
      <3>1. pc = "metadata" /\ k = at
        BY <1>1, <2>1, <2>2 DEF Stuck
      <3>2. ~PreserveRaw
        BY <3>1 DEF PreserveRaw
      <3> QED
        BY <1>1, <1>3, <3>1, <3>2, RegistrationEnds
    <2>3. CASE MakeDirectory /\ k = at
      <3>1. slot'[k] \in {"refusing", "partial"}
        BY <1>1, <2>3 DEF MakeDirectory, IInv, TypeOK
      <3> QED
        BY <1>9, <3>1, StatusNames
    <2>4. CASE Register /\ k = at
      <3>1. slot'[k] = verdict
        BY <1>1, <2>4 DEF Register, IInv, TypeOK
      <3>2. verdict # "refused"
        BY <1>9, <3>1, StatusNames
      <3> QED
        BY <2>4, <3>2 DEF Register, Go, local
    <2> QED
      BY <1>1, <1>9, <2>1, <2>2, <2>3, <2>4, OneSlot
  <1>10. ASSUME pc' \notin {"hold", "decision"}, NEW k \in Chosen', slot'[k] \in Final,
                {<<"outcome", 0>>, <<"hold", 0>>} \intersect whole' = {}
         PROVE  FALSE
    <2>0. {<<"outcome", 0>>, <<"hold", 0>>} \intersect whole = {}
      BY <1>1, <1>10, Growing DEF Grow
    <2>1. CASE Chosen' # Chosen
      <3>1. Chosen = {} /\ Chosen' \in DiverseSubsets /\ slot' = slot
        BY <1>1, <2>1, ChosenChange
      <3>2. k \in Slot /\ slot[k] # "held" /\ slot[k] \in Final
        BY <1>1, <1>10, <3>1 DEF DiverseSubsets, Executable, IInv, TypeOK
      <3> QED
        BY <3>1, <3>2, StatusNames DEF SmoothInv, PlainInv, Final
    <2>2. CASE Chosen' = Chosen
      <3>1. k \in Chosen /\ k \in Slot
        BY <1>1, <1>10, <2>2 DEF IInv, TypeOK, Chosen
      <3>2. CASE slot[k] \in Final
        <4>1. pc \in {"hold", "decision"}
          BY <1>1, <2>0, <3>1, <3>2 DEF Stuck
        <4> QED
          BY <1>1, <1>2, <1>3, <1>10, <2>0, <4>1, EndIsSealed
      <3>3. CASE slot[k] \notin Final
        <4>1. ~((MakeDirectory \/ Register) /\ k = at)
          BY <1>1, <3>1, ChosenChange
        <4>2. slot'[k] # slot[k] /\ slot[k] \in Status
          BY <1>1, <1>3, <1>10, <3>1, <3>3, <4>1, OneSlot
        <4>3. Advancing
          BY <1>1, <1>3, <3>1, <4>1, <4>2, SlotChange, ChosenChange
             DEF MakeDirectory, Register, IInv, TypeOK
        <4>4. PICK l, s : l = Job.on /\ s = Job.name
          OBVIOUS
        <4>5. /\ pc \in {"evaluation", "release"} /\ slot' = [slot EXCEPT ![l] = s]
              /\ s \in Range(Progress)
          <5>1. pc \in Phase /\ pc' = pc /\ work # <<>> /\ Job.do = "advance"
            BY <4>3 DEF Advancing, Done
          <5> QED
            BY <1>1, <1>10, <4>3, <4>4, <5>1, AdvanceJob, StatusNames DEF Advancing, Phase
        <4> QED
          BY <1>1, <1>10, <3>1, <3>3, <4>5, StatusNames DEF Final, IInv, TypeOK
      <3> QED
        BY <3>2, <3>3
    <2> QED
      BY <2>1, <2>2
  <1>11. ~Stuck'
    BY <1>3, <1>6, <1>7, <1>8, <1>9, <1>10, <1>13 DEF Stuck
  <1> QED
    BY <1>2, <1>4, <1>5, <1>11, <1>12 DEF SmoothInv

(* The recovery path as it is documented: as long as no command is killed, *)
(* no write torn, no batch sealed without its price and neither the source *)
(* nor harness/ edited, the same command is never refused by what is on    *)
(* the disk, however often it failed, was held, had to wait for an         *)
(* authorization or was run beside single stages.                          *)
THEOREM SmoothRecovery ==
    ASSUME Trouble \intersect Rough = {}
    PROVE  Spec => []SameCommandRecovers
  <1>1. Init => SmoothInv
    <2> SUFFICES ASSUME Init PROVE SmoothInv
      OBVIOUS
    <2>1. Chosen = {} /\ Inexact = {} /\ ~HoldUnpriced
      BY Names DEF Init, Chosen, Inexact, HoldUnpriced
    <2> QED
      BY <2>1, StatusNames, Names DEF Init, SmoothInv, Stuck, PlainInv
  <1>2. HonestInv /\ SmoothInv /\ [Next]_vars => SmoothInv'
    <2> SUFFICES ASSUME HonestInv, SmoothInv, UNCHANGED vars PROVE SmoothInv'
      BY SmoothStep
    <2>1. /\ UNCHANGED <<slot, meta, snap, batch, whole, broken, says, live>>
          /\ UNCHANGED <<pc, at, answer, edited>>
      BY DEF vars, registry, evidence, people, local, troubles
    <2> QED
      BY <2>1 DEF SmoothInv, PlainInv, Stuck, HoldUnpriced, Unpriced, Listed, Chosen, Inexact
  <1>3. SmoothInv => SameCommandRecovers
    BY DEF SmoothInv, SameCommandRecovers
  <1> QED
    BY Honest, <1>1, <1>2, <1>3, PTL DEF Spec
=============================================================================
