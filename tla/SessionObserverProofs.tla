----------------------- MODULE SessionObserverProofs -----------------------
(***************************************************************************)
(* Proofs about SessionObserver for any sizes of batch and buffer and any  *)
(* number of events, flushes, faults and torn files.  The invariant says   *)
(* where the open call's request is on the wire, that what is still on the *)
(* wire before a sync is in the inbox already, and how a session that was  *)
(* disposed of ends.                                                       *)
(***************************************************************************)
EXTENDS SessionObserver, FiniteSetTheorems, SequenceTheorems, WellFoundedInduction, TLAPS

-----------------------------------------------------------------------------
(* The invariant.                                                          *)

(* The events there are, and what is made of them.                         *)
Upto(n) == 0..(n - 1)
Drained(E) == [batch : Seq(E), sync : BOOLEAN]
Observer(E) ==
    [seen : SUBSET E, pending : SUBSET E, buffer : Seq(E), queued : Int,
     dropped : SUBSET E, loss : BOOLEAN, chain : Seq(Drained(E))]
Message(E) == [kind : {"ingest", "sync"}, batch : Seq(E)]

TypeInv ==
    LET E == Upto(session) IN
    /\ session \in 0..MaxEvents
    /\ inbox \in SUBSET Seq(E) /\ torn \in SUBSET Seq(E)
    /\ refs \in SUBSET SUBSET E /\ tornRefs \in SUBSET SUBSET E
    /\ state \in Observer(E)
    /\ at \in {"idle", "start", "batch", "reconcile", "check", "sync"}
    /\ next \in 0..session /\ batch \in Seq(E)
    /\ call \in {"none", "open", "accepted", "verified", "incomplete", "failed"}
    /\ wire \in Seq(Message(E))
    /\ disposing \in BOOLEAN /\ faults \in 0..MaxFaults

(* No element twice.                                                       *)
Distinct(s) == \A i, j \in DOMAIN s : s[i] = s[j] => i = j

(* The request of the open call.                                           *)
Asked ==
    IF at = "sync" THEN Request("sync", <<>>)
    ELSE Request("ingest", IF at = "batch" THEN Item.batch ELSE batch)

(* The open call's request is the youngest one; its answer tells what the  *)
(* bridge did.                                                             *)
CallInv ==
    /\ at # "idle" => state.chain # <<>>
    /\ call # "none" => at \in {"batch", "reconcile", "check", "sync"}
    /\ call = "open" => wire # <<>> /\ Last(wire) = Asked
    /\ call = "accepted" => at # "sync" /\ ToSet(Asked.batch) \subseteq Cursor
    /\ call = "verified" => at = "sync" /\ wire = <<>> /\ Cursor \in refs

(* All events up to some number, at least one.                             *)
Gapless(events) == \E k \in 1..session : events = Upto(k)

(* When a sync is on the wire the inbox has no gap, and it will not change *)
(* before the sync is served.                                              *)
WireInv ==
    \A i \in 1..Len(wire) :
        wire[i].kind = "sync" =>
            Gapless(Cursor) /\ \A j \in 1..(i - 1) : ToSet(wire[j].batch) \subseteq Cursor

(* A reference has no gap and is part of the inbox.                        *)
EvidenceInv ==
    /\ state.seen \subseteq Cursor
    /\ \A ref \in refs : Gapless(ref) /\ ref \subseteq Cursor
    /\ WireInv

(* A session that was disposed of ends with a flush.                       *)
DisposalInv ==
    disposing =>
        /\ state.chain # <<>> => Last(state.chain).sync
        /\ state.chain = <<>> /\ ~state.loss => wire = <<>> /\ Cursor \in refs

IInv == TypeInv /\ CallInv /\ EvidenceInv /\ DisposalInv

-----------------------------------------------------------------------------
(* Sequences.                                                              *)

(* More numbers are there up to a greater one.                             *)
LEMMA UptoGrows ==
    ASSUME NEW m \in Nat, NEW n \in Nat, m <= n
    PROVE  Upto(m) \subseteq Upto(n)
  BY DEF Upto

(* Sequences of fewer elements are sequences of more.                      *)
LEMMA SeqGrows ==
    ASSUME NEW E, NEW F, E \subseteq F
    PROVE  Seq(E) \subseteq Seq(F)
  OBVIOUS

(* An appended sequence keeps its head and ends with what was appended.    *)
LEMMA Appending ==
    ASSUME NEW S, NEW s \in Seq(S), NEW e \in S
    PROVE  /\ Append(s, e) \in Seq(S) /\ Append(s, e) # <<>>
           /\ Len(Append(s, e)) = Len(s) + 1 /\ Last(Append(s, e)) = e
           /\ s # <<>> => Head(Append(s, e)) = Head(s)
           /\ \A i \in 1..Len(s) : Append(s, e)[i] = s[i]
           /\ Append(s, e)[Len(s) + 1] = e
  <1>1. /\ Append(s, e) \in Seq(S) /\ Append(s, e) # <<>> /\ Len(Append(s, e)) = Len(s) + 1
        /\ \A i \in 1..Len(s) : Append(s, e)[i] = s[i] /\ Append(s, e)[Len(s) + 1] = e
    BY AppendProperties
  <1>2. s # <<>> => Len(s) >= 1
    BY EmptySeq
  <1> QED
    BY <1>1, <1>2 DEF Last

(* What is left of a sequence without its head, and with another head.     *)
LEMMA Beheading ==
    ASSUME NEW S, NEW s \in Seq(S), s # <<>>
    PROVE  /\ Tail(s) \in Seq(S) /\ Head(s) \in S /\ Len(Tail(s)) = Len(s) - 1
           /\ Len(s) \in Nat \ {0} /\ Head(s) = s[1]
           /\ \A i \in 1..(Len(s) - 1) : Tail(s)[i] = s[i + 1]
           /\ Tail(s) = <<>> <=> Len(s) = 1
           /\ Tail(s) # <<>> => Last(Tail(s)) = Last(s)
           /\ Tail(s) = <<>> => Last(s) = Head(s)
  <1>1. /\ Tail(s) \in Seq(S) /\ Head(s) \in S /\ Len(Tail(s)) = Len(s) - 1
        /\ Len(s) \in Nat \ {0} /\ Head(s) = s[1]
        /\ \A i \in 1..(Len(s) - 1) : Tail(s)[i] = s[i + 1]
    BY HeadTailProperties
  <1>2. Tail(s) = <<>> <=> Len(s) = 1
    <2> DEFINE t == Tail(s)
    <2>1. t \in Seq(S) /\ Len(t) = Len(s) - 1 /\ Len(s) \in Nat
      BY <1>1
    <2> HIDE DEF t
    <2>2. t = <<>> <=> Len(t) = 0
      BY <2>1, EmptySeq
    <2>3. t = <<>> <=> Len(s) = 1
      BY <2>1, <2>2
    <2> QED
      BY <2>3 DEF t
  <1>3. Len(s) - 1 # 0 => Tail(s)[Len(s) - 1] = s[Len(s)]
    BY <1>1
  <1> QED
    BY <1>1, <1>2, <1>3 DEF Last

(* A set of numbers that holds 0 and with a number the next holds them all.*)
LEMMA Induction ==
    ASSUME NEW S \in SUBSET Nat, 0 \in S, \A n \in S : n + 1 \in S
    PROVE  S = Nat
  <1> DEFINE T == Nat \ S
             R == OpToRel(<, Nat)
  <1> SUFFICES ASSUME T # {} PROVE FALSE
    OBVIOUS
  <1>1. IsWellFoundedOn(R, Nat)
    BY NatLessThanWellFounded
  <1>2. T \subseteq Nat /\ T # {}
    OBVIOUS
  <1>3. PICK x \in T : \A y \in T : ~ (<<y, x>> \in R)
    BY <1>1, <1>2, WFMin
  <1>4. x # 0 /\ x - 1 \in Nat /\ <<x - 1, x>> \in R
    BY <1>3 DEF OpToRel
  <1>5. x - 1 \in S
    BY <1>3, <1>4
  <1>6. x \in Nat /\ x \notin S
    BY <1>3
  <1> HIDE DEF T, R
  <1>7. (x - 1) + 1 = x
    BY <1>6
  <1> QED
    BY <1>5, <1>6, <1>7

-----------------------------------------------------------------------------
(* What the entry points make of the observer's state.                     *)

(* The observer knows as much as before, and at most one drain more.       *)
Longer(s, t, E) ==
    /\ t \in Observer(E) /\ t.seen = s.seen
    /\ t.chain = s.chain \/ \E item \in Drained(E) : t.chain = Append(s.chain, item)

(* More events make no state wrong.                                        *)
LEMMA ObserverGrows ==
    ASSUME NEW E, NEW F, E \subseteq F
    PROVE  Observer(E) \subseteq Observer(F) /\ Message(E) \subseteq Message(F)
  <1>1. Seq(E) \subseteq Seq(F)
    BY SeqGrows
  <1>2. Drained(E) \subseteq Drained(F)
    BY <1>1 DEF Drained
  <1>3. Seq(Drained(E)) \subseteq Seq(Drained(F))
    BY <1>2, SeqGrows
  <1>4. SUBSET E \subseteq SUBSET F
    OBVIOUS
  <1> QED
    BY <1>1, <1>3, <1>4 DEF Observer, Message

(* A drain that is scheduled.                                              *)
LEMMA Draining ==
    ASSUME NEW E, NEW s \in Observer(E), NEW sync \in BOOLEAN
    PROVE  /\ Longer(s, Drain(s, sync), E)
           /\ sync => \E item \in Drained(E) :
                         item.sync /\ Drain(s, sync).chain = Append(s.chain, item)
           /\ Drain(s, sync).loss = s.loss
  <1> DEFINE item == [batch |-> s.buffer, sync |-> sync]
             t == [s EXCEPT !.chain = Append(@, item), !.buffer = <<>>]
  <1>1. s.buffer \in Seq(E) /\ s.chain \in Seq(Drained(E))
    BY DEF Observer
  <1>2. item \in Drained(E)
    BY <1>1 DEF Drained
  <1>3. Append(s.chain, item) \in Seq(Drained(E)) /\ <<>> \in Seq(E)
    BY <1>1, <1>2
  <1> HIDE DEF item
  <1>4. /\ t.chain = Append(s.chain, item) /\ t.buffer = <<>>
        /\ t.seen = s.seen /\ t.loss = s.loss
    BY DEF Observer
  <1>5. t \in Observer(E)
    BY <1>3 DEF Observer
  <1>6. Drain(s, sync) = IF s.buffer = <<>> /\ ~sync THEN s ELSE t
    BY DEF Drain, item
  <1> HIDE DEF t
  <1>7. CASE s.buffer = <<>> /\ ~sync
    BY <1>6, <1>7 DEF Longer
  <1>8. CASE ~(s.buffer = <<>> /\ ~sync)
    <2>1. t.chain = Append(s.chain, item) /\ t.seen = s.seen /\ t.loss = s.loss
      BY <1>4
    <2>2. item.sync = sync
      BY DEF item
    <2> QED
      BY <1>2, <1>5, <1>6, <1>8, <2>1, <2>2 DEF Longer
  <1> QED
    BY <1>7, <1>8

(* An event that is observed.                                              *)
LEMMA Observing ==
    ASSUME NEW E, NEW s \in Observer(E), NEW e \in E
    PROVE  Longer(s, Observe(s, e), E)
  <1> DEFINE d == [s EXCEPT !.dropped = @ \cup {e}, !.loss = TRUE]
             t == [s EXCEPT !.pending = @ \cup {e}, !.buffer = Append(@, e), !.queued = @ + 1]
  <1>1. d \in Observer(E) /\ d.seen = s.seen /\ d.chain = s.chain
    BY DEF Observer
  <1>2. t \in Observer(E) /\ t.seen = s.seen /\ t.chain = s.chain
    <2>1. Append(s.buffer, e) \in Seq(E) /\ s.queued + 1 \in Int /\ s.pending \cup {e} \in SUBSET E
      BY DEF Observer
    <2> QED
      BY <2>1 DEF Observer
  <1>3. Observe(s, e) \in {s, d, t, Drain(t, FALSE)}
    BY DEF Observe
  <1> HIDE DEF d, t
  <1>4. Longer(s, s, E) /\ Longer(s, d, E) /\ Longer(s, t, E)
    BY <1>1, <1>2 DEF Longer
  <1>5. Longer(t, Drain(t, FALSE), E)
    BY <1>2, Draining
  <1>6. Longer(s, Drain(t, FALSE), E)
    BY <1>2, <1>5 DEF Longer
  <1> QED
    BY <1>3, <1>4, <1>6

(* The function Backfill is defined by exists.                             *)
LEMMA BackfillExists ==
    ASSUME NEW s, NEW n \in Nat
    PROVE  \E f : f = [i \in 0..n |-> IF i = 0 THEN s ELSE Observe(f[i - 1], i - 1)]
  <1> DEFINE Fits(f, m) == f = [i \in 0..m |-> IF i = 0 THEN s ELSE Observe(f[i - 1], i - 1)]
             S == {m \in Nat : \E f : Fits(f, m)}
  <1>1. 0 \in S
    <2>1. Fits([i \in 0..0 |-> s], 0)
      OBVIOUS
    <2> QED
      BY <2>1
  <1>2. ASSUME NEW m \in S PROVE m + 1 \in S
    <2>1. PICK f : Fits(f, m)
      OBVIOUS
    <2> DEFINE g == [i \in 0..(m + 1) |-> IF i <= m THEN f[i] ELSE Observe(f[i - 1], i - 1)]
    <2>2. \A i \in 0..(m + 1) : g[i] = IF i = 0 THEN s ELSE Observe(g[i - 1], i - 1)
      <3> SUFFICES ASSUME NEW i \in 0..(m + 1)
                   PROVE  g[i] = IF i = 0 THEN s ELSE Observe(g[i - 1], i - 1)
        OBVIOUS
      <3>1. i # 0 => i - 1 \in 0..m /\ g[i - 1] = f[i - 1]
        OBVIOUS
      <3>2. CASE i <= m
        <4>1. i \in 0..m /\ g[i] = f[i]
          BY <3>2
        <4>2. f[i] = IF i = 0 THEN s ELSE Observe(f[i - 1], i - 1)
          BY <2>1, <4>1
        <4> QED
          BY <3>1, <4>1, <4>2
      <3>3. CASE ~ (i <= m)
        BY <3>1, <3>3
      <3> QED
        BY <3>2, <3>3
    <2>3. Fits(g, m + 1)
      BY <2>2
    <2> HIDE DEF g, Fits
    <2>4. \E h : Fits(h, m + 1)
      BY <2>3
    <2> QED
      BY <2>4
  <1> HIDE DEF S
  <1>3. S = Nat
    BY <1>1, <1>2, Induction DEF S
  <1> QED
    BY <1>3 DEF S

(* A session that is resumed is observed from its log, event by event.     *)
LEMMA BackfillSteps ==
    ASSUME session \in Nat
    PROVE  \E after :
              /\ Backfill(Fresh) = after[session] /\ after[0] = Fresh
              /\ \A m \in 0..(session - 1) : after[m + 1] = Observe(after[m], m)
  <1> DEFINE Fits(f) == f = [i \in 0..session |-> IF i = 0 THEN Fresh ELSE Observe(f[i - 1], i - 1)]
             after == CHOOSE f : Fits(f)
  <1>1. Fits(after)
    BY BackfillExists
  <1>2. Backfill(Fresh) = after[session]
    BY DEF Backfill
  <1> HIDE DEF after
  <1>3. \A i \in 0..session : after[i] = IF i = 0 THEN Fresh ELSE Observe(after[i - 1], i - 1)
    BY <1>1
  <1>4. after[0] = Fresh
    BY <1>3
  <1>5. ASSUME NEW m \in 0..(session - 1) PROVE after[m + 1] = Observe(after[m], m)
    <2>1. m + 1 \in 0..session /\ m + 1 # 0 /\ (m + 1) - 1 = m
      OBVIOUS
    <2> QED
      BY <1>3, <2>1
  <1> HIDE DEF Fits
  <1> QED
    BY <1>2, <1>4, <1>5

(* The observer of a resumed session has seen nothing.                     *)
LEMMA Backfilling ==
    ASSUME session \in Nat
    PROVE  Backfill(Fresh) \in Observer(Upto(session)) /\ Backfill(Fresh).seen = {}
  <1> DEFINE E == Upto(session)
             Good(s) == s \in Observer(E) /\ s.seen = {}
  <1>1. PICK after :
            /\ Backfill(Fresh) = after[session] /\ after[0] = Fresh
            /\ \A m \in 0..(session - 1) : after[m + 1] = Observe(after[m], m)
    BY BackfillSteps
  <1> DEFINE S == {m \in Nat : m \in 0..session => Good(after[m])}
  <1>2. 0 \in S
    <2>1. Good(Fresh)
      BY DEF Fresh, Observer
    <2> HIDE DEF Good
    <2> QED
      BY <1>1, <2>1
  <1>3. ASSUME NEW m \in S PROVE m + 1 \in S
    <2> SUFFICES ASSUME m + 1 \in 0..session PROVE Good(after[m + 1])
      OBVIOUS
    <2>1. m \in E /\ m \in 0..(session - 1) /\ Good(after[m])
      BY DEF Upto
    <2> HIDE DEF E
    <2>2. Longer(after[m], Observe(after[m], m), E)
      BY <2>1, Observing
    <2> QED
      BY <1>1, <2>1, <2>2 DEF Longer
  <1> HIDE DEF S, Good
  <1>4. S = Nat
    BY <1>2, <1>3, Induction DEF S
  <1>5. Good(after[session])
    BY <1>4 DEF S
  <1> QED
    BY <1>1, <1>5 DEF Good

(* The function Chunk is defined by exists.                                *)
LEMMA ChunkExists ==
    ASSUME NEW n \in Nat
    PROVE  \E f : f = [i \in 0..n |->
                          IF i = 0 THEN <<>>
                          ELSE IF Unobserved(i - 1) /\ Len(f[i - 1]) < MaxBatch
                               THEN Append(f[i - 1], i - 1)
                               ELSE f[i - 1]]
  <1> DEFINE Step(s, e) == IF Unobserved(e) /\ Len(s) < MaxBatch THEN Append(s, e) ELSE s
             Fits(f, m) == f = [i \in 0..m |-> IF i = 0 THEN <<>> ELSE Step(f[i - 1], i - 1)]
             S == {m \in Nat : \E f : Fits(f, m)}
  <1> HIDE DEF Step
  <1>1. 0 \in S
    <2>1. Fits([i \in 0..0 |-> <<>>], 0)
      OBVIOUS
    <2> QED
      BY <2>1
  <1>2. ASSUME NEW m \in S PROVE m + 1 \in S
    <2>1. PICK f : Fits(f, m)
      OBVIOUS
    <2> DEFINE g == [i \in 0..(m + 1) |-> IF i <= m THEN f[i] ELSE Step(f[i - 1], i - 1)]
    <2>2. \A i \in 0..(m + 1) : g[i] = IF i = 0 THEN <<>> ELSE Step(g[i - 1], i - 1)
      <3> SUFFICES ASSUME NEW i \in 0..(m + 1)
                   PROVE  g[i] = IF i = 0 THEN <<>> ELSE Step(g[i - 1], i - 1)
        OBVIOUS
      <3>1. i # 0 => i - 1 \in 0..m /\ g[i - 1] = f[i - 1]
        OBVIOUS
      <3>2. CASE i <= m
        <4>1. i \in 0..m /\ g[i] = f[i]
          BY <3>2
        <4>2. f[i] = IF i = 0 THEN <<>> ELSE Step(f[i - 1], i - 1)
          BY <2>1, <4>1
        <4> QED
          BY <3>1, <4>1, <4>2
      <3>3. CASE ~ (i <= m)
        BY <3>1, <3>3
      <3> QED
        BY <3>2, <3>3
    <2>3. Fits(g, m + 1)
      BY <2>2
    <2> HIDE DEF g, Fits
    <2>4. \E h : Fits(h, m + 1)
      BY <2>3
    <2> QED
      BY <2>4
  <1> HIDE DEF S
  <1>3. S = Nat
    BY <1>1, <1>2, Induction DEF S
  <1>4. PICK f : Fits(f, n)
    BY <1>3 DEF S
  <1> QED
    BY <1>4 DEF Step

(* A chunk holds events the observer neither saw nor queued, each once and *)
(* no more than a batch; the loop goes on within the session.              *)
LEMMA Chunking ==
    ASSUME session \in Nat, MaxBatch \in Nat \ {0}
    PROVE  /\ Chunk \in Seq(Upto(session)) /\ Len(Chunk) <= MaxBatch
           /\ Distinct(Chunk)
           /\ ToSet(Chunk) \cap state.pending = {}
           /\ Chunk # <<>> => AfterChunk \in 0..session
  <1> DEFINE E == Upto(session)
             Step(s, e) == IF Unobserved(e) /\ Len(s) < MaxBatch THEN Append(s, e) ELSE s
             Fits(f) == f = [i \in 0..session |-> IF i = 0 THEN <<>> ELSE Step(f[i - 1], i - 1)]
             upTo == CHOOSE f : Fits(f)
  <1>1. Fits(upTo)
    <2>1. \E f : Fits(f)
      BY ChunkExists
    <2> QED
      BY <2>1
  <1>2. Chunk = upTo[session]
    BY DEF Chunk
  <1> HIDE DEF upTo
  <1>3. \A i \in 0..session : upTo[i] = IF i = 0 THEN <<>> ELSE Step(upTo[i - 1], i - 1)
    BY <1>1
  <1> HIDE DEF Fits, Step
  <1> DEFINE Good(s, m) == /\ s \in Seq(E) /\ Len(s) <= MaxBatch
                           /\ \A i \in 1..Len(s) : s[i] < m /\ Unobserved(s[i])
                           /\ Distinct(s)
             S == {m \in Nat : m \in 0..session => Good(upTo[m], m)}
  <1>4. 0 \in S
    <2>1. Good(<<>>, 0)
      BY DEF Distinct
    <2> QED
      BY <1>3, <2>1
  <1>5. ASSUME NEW m \in S PROVE m + 1 \in S
    <2> SUFFICES ASSUME m + 1 \in 0..session PROVE Good(upTo[m + 1], m + 1)
      OBVIOUS
    <2> DEFINE s == upTo[m]
               t == Append(s, m)
    <2>1. m \in E /\ Good(s, m) /\ m \in Nat
      BY DEF Upto
    <2>2. upTo[m + 1] = Step(s, m)
      <3>1. m + 1 # 0 /\ (m + 1) - 1 = m
        OBVIOUS
      <3> QED
        BY <1>3, <3>1
    <2> HIDE DEF s
    <2>3. CASE ~ (Unobserved(m) /\ Len(s) < MaxBatch)
      <3>1. upTo[m + 1] = s
        BY <2>2, <2>3 DEF Step
      <3>2. \A i \in 1..Len(s) : s[i] < m + 1
        BY <2>1 DEF Upto
      <3> QED
        BY <2>1, <3>1, <3>2
    <2>4. CASE Unobserved(m) /\ Len(s) < MaxBatch
      <3>1. upTo[m + 1] = t
        BY <2>2, <2>4 DEF Step
      <3>2. /\ t \in Seq(E) /\ Len(t) = Len(s) + 1 /\ Len(s) \in Nat
            /\ \A i \in 1..Len(s) : t[i] = s[i] /\ s[i] \in Nat
            /\ t[Len(s) + 1] = m
        BY <2>1, Appending DEF Upto
      <3> HIDE DEF t, E
      <3>3. \A i \in 1..Len(t) : t[i] < m + 1 /\ Unobserved(t[i])
        BY <2>1, <2>4, <3>2
      <3>4. Distinct(t)
        <4> SUFFICES ASSUME NEW i \in 1..Len(t), NEW j \in 1..Len(t), t[i] = t[j]
                     PROVE  i = j
          BY <3>2 DEF Distinct
        <4>1. \A k \in 1..Len(t) : \/ k = Len(s) + 1 /\ t[k] = m
                                   \/ /\ k \in 1..Len(s) /\ k \in DOMAIN s
                                      /\ t[k] = s[k] /\ t[k] # m
          <5> SUFFICES ASSUME NEW k \in 1..Len(t), k # Len(s) + 1
                       PROVE  k \in 1..Len(s) /\ k \in DOMAIN s /\ t[k] = s[k] /\ t[k] # m
            BY <3>2
          <5>1. k \in 1..Len(s)
            BY <3>2
          <5>2. t[k] = s[k] /\ s[k] < m /\ s[k] \in Nat
            BY <2>1, <3>2, <5>1
          <5>3. k \in DOMAIN s /\ t[k] # m
            BY <2>1, <5>1, <5>2
          <5> QED
            BY <5>1, <5>2, <5>3
        <4>2. CASE t[i] = m
          BY <4>1, <4>2
        <4>3. CASE t[i] # m
          <5>1. i \in DOMAIN s /\ j \in DOMAIN s /\ s[i] = s[j]
            BY <4>1, <4>3
          <5>2. Distinct(s)
            BY <2>1
          <5> QED
            BY <5>1, <5>2 DEF Distinct
        <4> QED
          BY <4>2, <4>3
      <3>5. Len(t) <= MaxBatch
        BY <2>4, <3>2
      <3> QED
        BY <3>1, <3>2, <3>3, <3>4, <3>5
    <2> QED
      BY <2>3, <2>4
  <1> HIDE DEF S, Good
  <1>6. S = Nat
    BY <1>4, <1>5, Induction DEF S
  <1>7. Good(Chunk, session)
    BY <1>2, <1>6 DEF S
  <1>8. ToSet(Chunk) \cap state.pending = {}
    <2>1. \A i \in 1..Len(Chunk) : Chunk[i] \notin state.pending
      BY <1>7 DEF Good, Unobserved
    <2>2. DOMAIN Chunk = 1..Len(Chunk)
      BY <1>7 DEF Good
    <2> QED
      BY <2>1, <2>2 DEF ToSet
  <1>9. ASSUME Chunk # <<>> PROVE AfterChunk \in 0..session
    <2>1. Len(Chunk) \in 1..Len(Chunk) /\ Chunk[Len(Chunk)] \in E
      BY <1>7, <1>9, EmptySeq DEF Good
    <2> QED
      BY <2>1 DEF AfterChunk, Last, Upto
  <1> QED
    BY <1>7, <1>8, <1>9 DEF Good

-----------------------------------------------------------------------------
(* The invariant holds initially and is kept by the entry points.          *)

(* At first nothing is stored and nothing is on the wire.                  *)
LEMMA Initially ==
    Init => IInv
  <1> SUFFICES ASSUME Init PROVE IInv
    OBVIOUS
  <1> USE ObserverAssumption DEF Init, InboxInit
  <1>1. state \in Observer(Upto(session)) /\ state.seen = {} /\ state.chain = <<>>
    BY DEF Fresh, Observer
  <1>2. Cursor = {}
    BY DEF Cursor
  <1>3. wire \in Seq(Message(Upto(session))) /\ Len(wire) = 0
    OBVIOUS
  <1>4. TypeInv
    <2>1. /\ 0 \in 0..MaxEvents /\ 0 \in 0..MaxFaults /\ 0 \in 0..session
          /\ <<>> \in Seq(Upto(session))
      OBVIOUS
    <2> QED
      BY <1>1, <1>3, <2>1 DEF TypeInv
  <1> QED
    BY <1>1, <1>2, <1>3, <1>4 DEF IInv, CallInv, EvidenceInv, WireInv, DisposalInv

(* An event or a flush leaves the turn, the wire and the inbox alone.      *)
LEMMA Entering ==
    ASSUME IInv,
           session' \in 0..MaxEvents, session' >= session,
           Longer(state, state', Upto(session')),
           UNCHANGED <<inboxVars, at, next, batch, call, wire, faults>>,
           disposing' \in BOOLEAN
    PROVE  TypeInv' /\ CallInv' /\ EvidenceInv'
  <1> DEFINE E == Upto(session)
             F == Upto(session')
  <1>1. UNCHANGED <<inbox, torn, refs, tornRefs, at, next, batch, call, wire, faults>>
    BY DEF inboxVars
  <1>2. session \in Nat /\ session' \in Nat
    BY ObserverAssumption DEF IInv, TypeInv
  <1>3. E \subseteq F
    <2>1. session <= session'
      BY <1>2
    <2> QED
      BY <1>2, <2>1, UptoGrows
  <1>4. Seq(E) \subseteq Seq(F) /\ Message(E) \subseteq Message(F)
        /\ Seq(Message(E)) \subseteq Seq(Message(F))
    <2>1. Message(E) \subseteq Message(F)
      BY <1>3, ObserverGrows
    <2> HIDE DEF E, F
    <2> QED
      BY <1>3, <2>1, SeqGrows
  <1>5. TypeInv'
    <2>1. state' \in Observer(F)
      BY DEF Longer
    <2>2. next \in 0..session'
      BY <1>2 DEF IInv, TypeInv
    <2>3. /\ inbox \in SUBSET Seq(E) /\ torn \in SUBSET Seq(E)
          /\ refs \in SUBSET SUBSET E /\ tornRefs \in SUBSET SUBSET E
          /\ batch \in Seq(E) /\ wire \in Seq(Message(E))
          /\ at \in {"idle", "start", "batch", "reconcile", "check", "sync"}
          /\ call \in {"none", "open", "accepted", "verified", "incomplete", "failed"}
          /\ faults \in 0..MaxFaults
      BY DEF IInv, TypeInv
    <2> HIDE DEF E, F
    <2>4. inbox \in SUBSET Seq(F) /\ torn \in SUBSET Seq(F)
          /\ refs \in SUBSET SUBSET F /\ tornRefs \in SUBSET SUBSET F
      BY <1>3, <1>4, <2>3
    <2>5. batch \in Seq(F) /\ wire \in Seq(Message(F))
      BY <1>4, <2>3
    <2> QED
      BY <1>1, <2>1, <2>2, <2>3, <2>4, <2>5 DEF TypeInv, E, F
  <1>6. Cursor' = Cursor
    BY <1>1 DEF Cursor
  <1>7. \A events : Gapless(events) => Gapless(events)'
    BY <1>2 DEF Gapless
  <1>8. EvidenceInv'
    <2>1. state'.seen = state.seen
      BY DEF Longer
    <2>2. WireInv'
      BY <1>1, <1>6, <1>7 DEF IInv, EvidenceInv, WireInv
    <2> QED
      BY <1>1, <1>6, <1>7, <2>1, <2>2 DEF IInv, EvidenceInv
  <1>9. CallInv'
    <2>1. state.chain # <<>> => state'.chain # <<>> /\ Head(state'.chain) = Head(state.chain)
      <3>1. state.chain \in Seq(Drained(E))
        BY DEF IInv, TypeInv, Observer
      <3>2. ASSUME NEW item \in Drained(F), state'.chain = Append(state.chain, item)
            PROVE  state.chain # <<>> => state'.chain # <<>> /\ Head(state'.chain) = Head(state.chain)
        <4>1. state.chain \in Seq(Drained(F))
          <5>1. Observer(E) \subseteq Observer(F)
            BY <1>3, ObserverGrows
          <5> QED
            BY <5>1 DEF IInv, TypeInv, Observer
        <4> HIDE DEF F
        <4> QED
          BY <3>2, <4>1, Appending
      <3> QED
        BY <3>2 DEF Longer
    <2>2. state.chain # <<>> => Asked' = Asked
      BY <1>1, <2>1 DEF Asked, Item, Request
    <2>3. call # "none" => state.chain # <<>>
      BY DEF IInv, CallInv
    <2> QED
      BY <1>1, <1>6, <2>1, <2>2, <2>3 DEF IInv, CallInv
  <1> QED
    BY <1>5, <1>8, <1>9

(* Emit: nothing is observed any more once the observer was disposed of.   *)
LEMMA EmitStep ==
    ASSUME IInv, Emit
    PROVE  IInv'
  <1>1. /\ session \in Nat /\ session' = session + 1 /\ session' \in 0..MaxEvents
        /\ state \in Observer(Upto(session))
    BY ObserverAssumption DEF Emit, IInv, TypeInv
  <1>2. state \in Observer(Upto(session')) /\ session \in Upto(session')
    <2>1. Upto(session) \subseteq Upto(session') /\ session \in Upto(session')
      BY <1>1 DEF Upto
    <2> QED
      BY <1>1, <2>1, ObserverGrows
  <1>3. Longer(state, state', Upto(session'))
    <2> DEFINE F == Upto(session')
    <2>1. Longer(state, state, F)
      BY <1>2 DEF Longer
    <2>2. Longer(state, Observe(state, session), F)
      <3> HIDE DEF F
      <3>1. state \in Observer(F) /\ session \in F
        BY <1>2 DEF F
      <3> QED
        BY <3>1, Observing
    <2>3. state' = state \/ state' = Observe(state, session)
      BY DEF Emit
    <2> QED
      BY <2>1, <2>2, <2>3
  <1>4. disposing' = disposing /\ disposing \in BOOLEAN
    BY DEF Emit, IInv, TypeInv
  <1>5. TypeInv' /\ CallInv' /\ EvidenceInv'
    BY <1>1, <1>3, <1>4, Entering DEF Emit
  <1>6. DisposalInv'
    <2>1. disposing => state' = state /\ Cursor' = Cursor /\ refs' = refs /\ wire' = wire
      BY DEF Emit, inboxVars, Cursor
    <2> QED
      BY <1>4, <2>1 DEF IInv, DisposalInv
  <1> QED
    BY <1>5, <1>6 DEF IInv

(* Flush and Dispose: the chain ends with a flush.                         *)
LEMMA FlushStep ==
    ASSUME IInv, Flush \/ Dispose
    PROVE  IInv'
  <1> DEFINE E == Upto(session)
  <1>1. /\ session' = session /\ session \in 0..MaxEvents /\ session \in Nat
        /\ state \in Observer(E) /\ state' = Drain(state, TRUE)
        /\ disposing' \in BOOLEAN
    <2>1. session \in 0..MaxEvents /\ session \in Nat /\ state \in Observer(E)
      BY ObserverAssumption DEF IInv, TypeInv
    <2>2. session' = session /\ state' = Drain(state, TRUE)
      BY DEF Flush, Dispose
    <2>3. disposing' = disposing \/ disposing' = TRUE
      BY DEF Flush, Dispose
    <2>4. disposing \in BOOLEAN
      BY DEF IInv, TypeInv
    <2> HIDE DEF E
    <2> QED
      BY <2>1, <2>2, <2>3, <2>4
  <1>2. UNCHANGED <<inboxVars, at, next, batch, call, wire, faults>>
    BY DEF Flush, Dispose
  <1>3. PICK item \in Drained(E) : item.sync /\ state'.chain = Append(state.chain, item)
    <2> HIDE DEF E
    <2> QED
      BY <1>1, Draining
  <1>4. Longer(state, state', E)
    <2> HIDE DEF E
    <2> QED
      BY <1>1, Draining
  <1>5. TypeInv' /\ CallInv' /\ EvidenceInv'
    BY <1>1, <1>2, <1>4, Entering
  <1>6. state'.chain # <<>> /\ Last(state'.chain) = item
    <2>1. state.chain \in Seq(Drained(E))
      BY <1>1 DEF Observer
    <2> HIDE DEF E
    <2> QED
      BY <1>3, <2>1, Appending
  <1>7. DisposalInv'
    BY <1>3, <1>6 DEF DisposalInv
  <1> QED
    BY <1>5, <1>7 DEF IInv

(* Load: the observer begins anew; the wire and the inbox stay.            *)
LEMMA LoadStep ==
    ASSUME IInv, Load
    PROVE  IInv'
  <1> DEFINE E == Upto(session)
  <1>1. /\ session' = session /\ session \in Nat /\ faults' \in 0..MaxFaults
        /\ UNCHANGED <<inbox, torn, refs, tornRefs, wire>>
        /\ at' = "idle" /\ next' = 0 /\ batch' = <<>> /\ call' = "none" /\ disposing' = FALSE
    BY ObserverAssumption DEF Load, IInv, TypeInv, inboxVars
  <1>2. state' \in Observer(E) /\ state'.seen = {}
    BY <1>1, Backfilling DEF Load
  <1>3. Cursor' = Cursor /\ \A events : Gapless(events)' <=> Gapless(events)
    BY <1>1 DEF Cursor, Gapless
  <1>4. TypeInv'
    <2>1. <<>> \in Seq(E) /\ 0 \in 0..session
      BY <1>1
    <2> QED
      BY <1>1, <1>2, <2>1 DEF IInv, TypeInv
  <1>5. CallInv' /\ DisposalInv'
    BY <1>1 DEF CallInv, DisposalInv
  <1>6. EvidenceInv'
    <2>1. WireInv'
      BY <1>1, <1>3 DEF IInv, EvidenceInv, WireInv
    <2> QED
      BY <1>1, <1>2, <1>3, <2>1 DEF IInv, EvidenceInv
  <1> QED
    BY <1>4, <1>5, <1>6 DEF IInv

-----------------------------------------------------------------------------
(* The turn keeps the invariant.                                           *)

(* A sequence with another head.                                           *)
LEMMA Reheading ==
    ASSUME NEW S, NEW s \in Seq(S), s # <<>>, NEW e \in S
    PROVE  /\ <<e>> \o Tail(s) \in Seq(S) /\ <<e>> \o Tail(s) # <<>>
           /\ Len(<<e>> \o Tail(s)) = Len(s) /\ (<<e>> \o Tail(s))[1] = e
           /\ \A i \in 2..Len(s) : (<<e>> \o Tail(s))[i] = s[i]
           /\ Head(<<e>> \o Tail(s)) = e
           /\ Last(<<e>> \o Tail(s)) = IF Len(s) = 1 THEN e ELSE Last(s)
  <1> DEFINE t == Tail(s)
             r == <<e>> \o t
  <1>1. t \in Seq(S) /\ Len(t) = Len(s) - 1 /\ Len(s) \in Nat \ {0}
        /\ \A i \in 1..(Len(s) - 1) : t[i] = s[i + 1]
    BY Beheading
  <1> HIDE DEF t
  <1>2. <<e>> \in Seq(S) /\ Len(<<e>>) = 1 /\ <<e>>[1] = e
    OBVIOUS
  <1>3. r \in Seq(S) /\ Len(r) = 1 + Len(t)
        /\ \A i \in 1..Len(r) : r[i] = IF i <= 1 THEN <<e>>[i] ELSE t[i - 1]
    BY <1>1, <1>2, ConcatProperties
  <1> HIDE DEF r
  <1>4. Len(r) = Len(s) /\ r[1] = e
    BY <1>1, <1>2, <1>3
  <1>5. \A i \in 2..Len(s) : r[i] = s[i]
    BY <1>1, <1>3, <1>4
  <1>6. r # <<>> /\ Head(r) = e
    <2>1. r # <<>>
      BY <1>1, <1>3, <1>4, EmptySeq
    <2> QED
      BY <1>3, <1>4, <2>1
  <1>7. Last(r) = IF Len(s) = 1 THEN e ELSE Last(s)
    <2>1. Len(s) = 1 \/ Len(s) \in 2..Len(s)
      BY <1>1
    <2> QED
      BY <1>4, <1>5, <2>1 DEF Last
  <1> QED
    BY <1>3, <1>4, <1>5, <1>6, <1>7 DEF r, t

(* What is on the wire stays in order while the inbox does not change.     *)
LEMMA WireStays ==
    ASSUME IInv, UNCHANGED <<inboxVars, session, wire>>
    PROVE  WireInv'
  BY DEF IInv, EvidenceInv, WireInv, Cursor, Gapless, inboxVars

(* A call that is made: a sync only when every event is in the inbox.      *)
LEMMA Sending ==
    ASSUME IInv, UNCHANGED <<inboxVars, session>>,
           NEW request \in Message(Upto(session)), Send(request),
           request.kind = "sync" => session > 0 /\ Cursor = Upto(session)
    PROVE  /\ wire' \in Seq(Message(Upto(session)))
           /\ call' \in {"open", "failed"} /\ faults' \in 0..MaxFaults
           /\ call' = "open" => wire' # <<>> /\ Last(wire') = request
           /\ WireInv'
  <1> DEFINE E == Upto(session)
             M == Message(E)
  <1>1. wire \in Seq(M) /\ faults \in 0..MaxFaults /\ session \in Nat
    BY ObserverAssumption DEF IInv, TypeInv
  <1>2. CASE wire' = wire /\ faults' = faults + 1 /\ faults < MaxFaults /\ call' = "failed"
    <2>1. WireInv'
      BY <1>2, WireStays
    <2> QED
      BY <1>1, <1>2, <2>1, ObserverAssumption
  <1>3. CASE wire' = Append(wire, request) /\ call' = "open" /\ faults' = faults
    <2>1. /\ wire' \in Seq(M) /\ wire' # <<>> /\ Len(wire') = Len(wire) + 1
          /\ Last(wire') = request
          /\ \A i \in 1..Len(wire) : wire'[i] = wire[i]
          /\ wire'[Len(wire) + 1] = request
      <3> HIDE DEF M
      <3> QED
        BY <1>1, <1>3, Appending DEF M
    <2>2. Cursor' = Cursor
      BY DEF Cursor, inboxVars
    <2>3. \A i \in 1..Len(wire) : ToSet(wire[i].batch) \subseteq E
      <3>1. \A i \in 1..Len(wire) : wire[i].batch \in Seq(E)
        <4>1. \A i \in 1..Len(wire) : wire[i] \in M
          <5> HIDE DEF M
          <5> QED
            BY <1>1
        <4>2. \A m \in M : m.batch \in Seq(E)
          BY DEF Message
        <4> QED
          BY <4>1, <4>2
      <3>2. \A s \in Seq(E) : ToSet(s) \subseteq E
        BY DEF ToSet
      <3> QED
        BY <3>1, <3>2
    <2>4. session > 0 /\ Cursor = Upto(session) => Gapless(Cursor)
      BY <1>1 DEF Gapless
    <2>5. WireInv'
      <3> SUFFICES ASSUME NEW i \in 1..(Len(wire) + 1), wire'[i].kind = "sync"
                   PROVE  Gapless(Cursor) /\ \A j \in 1..(i - 1) :
                              ToSet(wire'[j].batch) \subseteq Cursor
        BY <2>1, <2>2 DEF WireInv, Gapless
      <3>1. CASE i \in 1..Len(wire)
        <4>1. wire[i].kind = "sync"
          BY <2>1, <3>1
        <4>2. Gapless(Cursor) /\ \A j \in 1..(i - 1) : ToSet(wire[j].batch) \subseteq Cursor
          BY <3>1, <4>1 DEF IInv, EvidenceInv, WireInv
        <4>3. \A j \in 1..(i - 1) : j \in 1..Len(wire)
          BY <1>1, <3>1
        <4> QED
          BY <2>1, <4>2, <4>3
      <3>2. CASE i = Len(wire) + 1
        <4>1. Gapless(Cursor) /\ Cursor = E
          BY <2>1, <2>4, <3>2
        <4>2. \A j \in 1..(i - 1) : j \in 1..Len(wire)
          BY <1>1, <3>2
        <4> QED
          BY <2>1, <2>3, <4>1, <4>2
      <3> QED
        BY <1>1, <3>1, <3>2
    <2> QED
      BY <1>1, <1>3, <2>1, <2>5
  <1> QED
    BY <1>2, <1>3 DEF Send

(* A step of the turn, put together.                                       *)
LEMMA Turning ==
    ASSUME IInv, UNCHANGED <<inboxVars, session, disposing>>,
           state' \in Observer(Upto(session)), state'.seen \subseteq Cursor,
           at' \in {"idle", "start", "batch", "reconcile", "check", "sync"},
           next' \in 0..session, batch' \in Seq(Upto(session)),
           call' \in {"none", "open", "accepted", "verified", "incomplete", "failed"},
           wire' \in Seq(Message(Upto(session))), faults' \in 0..MaxFaults,
           WireInv'
    PROVE  TypeInv' /\ EvidenceInv' /\ Cursor' = Cursor
  <1>1. UNCHANGED <<inbox, torn, refs, tornRefs>>
    BY DEF inboxVars
  <1>2. Cursor' = Cursor /\ \A events : Gapless(events)' <=> Gapless(events)
    BY <1>1 DEF Cursor, Gapless
  <1>3. TypeInv'
    BY <1>1 DEF IInv, TypeInv
  <1> QED
    BY <1>1, <1>2, <1>3 DEF IInv, EvidenceInv

(* The drain at the head of the chain.                                     *)
LEMMA Heading ==
    ASSUME IInv, state.chain # <<>>
    PROVE  /\ session \in Nat /\ state \in Observer(Upto(session))
           /\ state.chain \in Seq(Drained(Upto(session)))
           /\ Item \in Drained(Upto(session)) /\ Item.batch \in Seq(Upto(session))
           /\ ToSet(Item.batch) \subseteq Upto(session)
           /\ batch \in Seq(Upto(session)) /\ ToSet(batch) \subseteq Upto(session)
  <1> DEFINE E == Upto(session)
  <1>1. session \in Nat /\ state \in Observer(E) /\ state.chain \in Seq(Drained(E))
        /\ batch \in Seq(E)
    BY ObserverAssumption DEF IInv, TypeInv, Observer
  <1>2. Item \in Drained(E)
    <2> HIDE DEF E
    <2> QED
      BY <1>1, Beheading DEF Item
  <1>3. Item.batch \in Seq(E)
    BY <1>2 DEF Drained
  <1> HIDE DEF E
  <1>4. ToSet(Item.batch) \subseteq E /\ ToSet(batch) \subseteq E
    BY <1>1, <1>3 DEF ToSet
  <1> QED
    BY <1>1, <1>2, <1>3, <1>4 DEF E

(* The end of a drain: the next one of the chain is at the head.           *)
LEMMA Ending ==
    ASSUME NEW E, NEW s \in Observer(E), s.chain # <<>>, EndDrain(s)
    PROVE  /\ state' \in Observer(E) /\ state'.seen = s.seen /\ state'.loss = s.loss
           /\ state'.chain = Tail(s.chain) /\ at' \in {"idle", "start"}
           /\ at' # "idle" => state'.chain # <<>>
           /\ state'.chain # <<>> => Last(state'.chain) = Last(s.chain)
           /\ state'.chain = <<>> => Last(s.chain) = Head(s.chain)
           /\ state'.pending = s.pending /\ state'.queued = s.queued
           /\ state'.buffer = s.buffer
  <1> DEFINE c == s.chain
             t == Tail(c)
  <1>1. c \in Seq(Drained(E)) /\ c # <<>>
    BY DEF Observer
  <1>2. /\ t \in Seq(Drained(E)) /\ (t = <<>> <=> Len(c) = 1)
        /\ t # <<>> => Last(t) = Last(c)
        /\ t = <<>> => Last(c) = Head(c)
    <2> HIDE DEF c
    <2> QED
      BY <1>1, Beheading
  <1>3. state' = [s EXCEPT !.chain = t] /\ at' = IF Len(c) = 1 THEN "idle" ELSE "start"
    BY DEF EndDrain
  <1> HIDE DEF t
  <1>4. /\ state' \in Observer(E) /\ state'.chain = t /\ state'.seen = s.seen
        /\ state'.loss = s.loss /\ state'.pending = s.pending /\ state'.queued = s.queued
        /\ state'.buffer = s.buffer
    BY <1>2, <1>3 DEF Observer
  <1> QED
    BY <1>2, <1>3, <1>4 DEF t

(* StartDrain: the scheduled batch is sent, or the reconciliation begins.  *)
LEMMA StartDrainStep ==
    ASSUME IInv, StartDrain
    PROVE  IInv'
  <1> DEFINE E == Upto(session)
  <1>1. /\ call = "none" /\ state.chain # <<>>
        /\ UNCHANGED <<inboxVars, session, state, batch, disposing>>
    BY DEF StartDrain, Running
  <1>2. /\ session \in Nat /\ state \in Observer(E) /\ batch \in Seq(E)
        /\ Item.batch \in Seq(E)
    BY <1>1, Heading
  <1>3. state.seen \subseteq Cursor /\ wire \in Seq(Message(E)) /\ faults \in 0..MaxFaults
        /\ next \in 0..session
    BY DEF IInv, TypeInv, EvidenceInv
  <1>4. state' = state /\ batch' = batch /\ disposing' = disposing /\ Item' = Item
    BY <1>1 DEF Item
  <1>5. DisposalInv'
    BY <1>1, <1>4 DEF IInv, DisposalInv
  <1>6. CASE at' = "reconcile" /\ next' = 0 /\ UNCHANGED <<call, wire, faults>>
    <2>1. WireInv'
      BY <1>1, <1>6, WireStays
    <2>2. TypeInv' /\ EvidenceInv'
      BY <1>1, <1>2, <1>3, <1>4, <1>6, <2>1, Turning
    <2>3. CallInv'
      BY <1>1, <1>4, <1>6 DEF CallInv
    <2> QED
      BY <1>5, <2>2, <2>3 DEF IInv
  <1>7. CASE at' = "batch" /\ next' = next /\ Send(Request("ingest", Item.batch))
    <2> DEFINE request == Request("ingest", Item.batch)
    <2>1. request \in Message(E) /\ request.kind = "ingest"
      BY <1>2 DEF Request, Message
    <2>2. /\ wire' \in Seq(Message(E))
          /\ call' \in {"open", "failed"} /\ faults' \in 0..MaxFaults
          /\ call' = "open" => wire' # <<>> /\ Last(wire') = request
          /\ WireInv'
      <3> HIDE DEF request
      <3>1. Send(request)
        BY <1>7 DEF request
      <3> QED
        BY <1>1, <2>1, <3>1, Sending
    <2>3. TypeInv' /\ EvidenceInv'
      <3> HIDE DEF request
      <3> QED
        BY <1>1, <1>2, <1>3, <1>4, <1>7, <2>2, Turning
    <2>4. Asked' = request
      BY <1>4, <1>7 DEF Asked, Request
    <2>5. CallInv'
      BY <1>1, <1>4, <1>7, <2>2, <2>4 DEF CallInv
    <2> QED
      BY <1>5, <2>3, <2>5 DEF IInv
  <1> QED
    BY <1>6, <1>7 DEF StartDrain

(* Reconcile: the next chunk is sent, or there is none.                    *)
LEMMA ReconcileStep ==
    ASSUME IInv, Reconcile
    PROVE  IInv'
  <1> DEFINE E == Upto(session)
  <1>1. /\ call = "none" /\ state.chain # <<>> /\ at = "reconcile"
        /\ UNCHANGED <<inboxVars, session, disposing>>
    BY DEF Reconcile, Running
  <1>2. session \in Nat /\ state \in Observer(E) /\ batch \in Seq(E)
    BY <1>1, Heading
  <1>3. state.seen \subseteq Cursor /\ wire \in Seq(Message(E)) /\ faults \in 0..MaxFaults
        /\ next \in 0..session
    BY DEF IInv, TypeInv, EvidenceInv
  <1>4. CASE Chunk = <<>>
    <2>1. at' = "check" /\ UNCHANGED <<state, next, batch, call, wire, faults>>
      BY <1>4 DEF Reconcile
    <2>2. WireInv'
      BY <1>1, <2>1, WireStays
    <2>3. TypeInv' /\ EvidenceInv'
      BY <1>1, <1>2, <1>3, <2>1, <2>2, Turning
    <2>4. CallInv' /\ DisposalInv'
      BY <1>1, <2>1 DEF IInv, CallInv, DisposalInv
    <2> QED
      BY <2>3, <2>4 DEF IInv
  <1>5. CASE Chunk # <<>>
    <2>1. Chunk \in Seq(E) /\ AfterChunk \in 0..session
      BY <1>2, <1>5, Chunking, ObserverAssumption
    <2> DEFINE c == Chunk
               request == Request("ingest", c)
    <2>2. /\ batch' = c /\ Send(request)
          /\ state' = [state EXCEPT !.pending = @ \cup ToSet(c), !.queued = @ + Len(c)]
      BY <1>5 DEF Reconcile
    <2>3. at' \in {"reconcile", "check"} /\ next' \in {next, AfterChunk}
      BY <1>5 DEF Reconcile
    <2> HIDE DEF c
    <2>4. c \in Seq(E)
      BY <2>1 DEF c
    <2>5. state' \in Observer(E) /\ state'.seen = state.seen /\ state'.chain = state.chain
      <3>1. ToSet(c) \subseteq E /\ Len(c) \in Int
        BY <2>4 DEF ToSet
      <3>2. state.pending \cup ToSet(c) \in SUBSET E /\ state.queued + Len(c) \in Int
        BY <1>2, <3>1 DEF Observer
      <3> HIDE DEF E
      <3> QED
        BY <1>2, <2>2, <3>2 DEF Observer
    <2>6. request \in Message(E) /\ request.kind = "ingest"
      BY <2>4 DEF Request, Message
    <2>7. /\ wire' \in Seq(Message(E))
          /\ call' \in {"open", "failed"} /\ faults' \in 0..MaxFaults
          /\ call' = "open" => wire' # <<>> /\ Last(wire') = request
          /\ WireInv'
      <3> HIDE DEF request
      <3> QED
        BY <1>1, <2>2, <2>6, Sending
    <2>8. TypeInv' /\ EvidenceInv'
      <3> HIDE DEF request
      <3>1. next' \in 0..session
        BY <1>3, <2>1, <2>3
      <3>2. batch' \in Seq(E)
        BY <2>2, <2>4
      <3> QED
        BY <1>1, <1>3, <2>3, <2>5, <2>7, <3>1, <3>2, Turning
    <2>9. CallInv'
      <3>1. Asked' = request
        BY <2>2, <2>3 DEF Asked, Request
      <3> QED
        BY <1>1, <2>3, <2>5, <2>7, <3>1 DEF CallInv
    <2>10. DisposalInv'
      BY <1>1, <2>5 DEF IInv, DisposalInv
    <2> QED
      BY <2>8, <2>9, <2>10 DEF IInv
  <1> QED
    BY <1>4, <1>5

(* Check: a sync is sent when every event was seen, or the drain ends with *)
(* a loss.                                                                 *)
LEMMA CheckStep ==
    ASSUME IInv, Check
    PROVE  IInv'
  <1> DEFINE E == Upto(session)
  <1>1. /\ call = "none" /\ state.chain # <<>>
        /\ UNCHANGED <<inboxVars, session, next, batch, disposing>>
    BY DEF Check, Running
  <1>2. session \in Nat /\ state \in Observer(E) /\ batch \in Seq(E)
    BY <1>1, Heading
  <1>3. state.seen \subseteq Cursor /\ wire \in Seq(Message(E)) /\ faults \in 0..MaxFaults
        /\ next \in 0..session
    BY DEF IInv, TypeInv, EvidenceInv
  <1>4. CASE Reconciled
    <2> DEFINE request == Request("sync", <<>>)
    <2>1. at' = "sync" /\ Send(request) /\ state' = state
      BY <1>4 DEF Check
    <2>2. request \in Message(E) /\ request.kind = "sync"
      <3>1. <<>> \in Seq(E)
        OBVIOUS
      <3> QED
        BY <3>1 DEF Request, Message
    <2>3. session > 0 /\ Cursor = Upto(session)
      <3>1. session > 0 /\ E \subseteq Cursor
        BY <1>3, <1>4 DEF Reconciled, Upto
      <3>2. \A s \in Seq(E) : ToSet(s) \subseteq E
        BY DEF ToSet
      <3>3. inbox \subseteq Seq(E)
        BY DEF IInv, TypeInv
      <3> HIDE DEF E
      <3>4. Cursor \subseteq E
        BY <3>2, <3>3 DEF Cursor
      <3> QED
        BY <3>1, <3>4 DEF E
    <2>4. /\ wire' \in Seq(Message(E))
          /\ call' \in {"open", "failed"} /\ faults' \in 0..MaxFaults
          /\ call' = "open" => wire' # <<>> /\ Last(wire') = request
          /\ WireInv'
      <3> HIDE DEF request
      <3> QED
        BY <1>1, <2>1, <2>2, <2>3, Sending
    <2>5. TypeInv' /\ EvidenceInv'
      <3> HIDE DEF request
      <3> QED
        BY <1>1, <1>2, <1>3, <2>1, <2>4, Turning
    <2>6. Asked' = request
      BY <2>1 DEF Asked, Request
    <2>7. CallInv' /\ DisposalInv'
      BY <1>1, <2>1, <2>4, <2>6 DEF IInv, CallInv, DisposalInv
    <2> QED
      BY <2>5, <2>7 DEF IInv
  <1>5. CASE ~Reconciled
    <2> DEFINE s == [state EXCEPT !.loss = TRUE]
    <2>1. EndDrain(s) /\ UNCHANGED <<call, wire, faults>>
      BY <1>5 DEF Check
    <2>2. s \in Observer(E) /\ s.seen = state.seen /\ s.chain = state.chain /\ s.loss
      BY <1>2 DEF Observer
    <2> HIDE DEF s
    <2>3. /\ state' \in Observer(E) /\ state'.seen = s.seen /\ state'.loss = s.loss
          /\ at' \in {"idle", "start"}
          /\ at' # "idle" => state'.chain # <<>>
          /\ state'.chain # <<>> => Last(state'.chain) = Last(s.chain)
      <3> HIDE DEF E
      <3> QED
        BY <1>1, <2>1, <2>2, Ending
    <2>4. WireInv'
      BY <1>1, <2>1, WireStays
    <2>5. TypeInv' /\ EvidenceInv'
      BY <1>1, <1>2, <1>3, <2>1, <2>2, <2>3, <2>4, Turning
    <2>6. CallInv'
      BY <1>1, <2>1, <2>3 DEF CallInv
    <2>7. DisposalInv'
      BY <1>1, <2>2, <2>3 DEF IInv, DisposalInv
    <2> QED
      BY <2>5, <2>6, <2>7 DEF IInv
  <1> QED
    BY <1>4, <1>5

(* The events are not queued any more.                                     *)
Unqueued(s, events, t) ==
    /\ t.pending = s.pending \ ToSet(events) /\ t.queued = s.queued - Len(events)
    /\ t.buffer = s.buffer

(* What an answered ingest leaves behind.                                  *)
LEMMA Ingesting ==
    ASSUME NEW E, NEW s \in Observer(E), NEW events \in Seq(E)
    PROVE  /\ Ingested(s, events) \in Observer(E)
           /\ Ingested(s, events).chain = s.chain
           /\ Ingested(s, events).seen =
                  IF call = "accepted" THEN s.seen \cup ToSet(events) ELSE s.seen
           /\ Unqueued(s, events, Ingested(s, events))
  <1> DEFINE t == [s EXCEPT !.pending = @ \ ToSet(events), !.queued = @ - Len(events)]
             a == [t EXCEPT !.seen = @ \cup ToSet(events)]
             f == [t EXCEPT !.loss = TRUE]
  <1>1. ToSet(events) \subseteq E /\ Len(events) \in Int
    BY DEF ToSet
  <1>2. s.pending \ ToSet(events) \in SUBSET E /\ s.queued - Len(events) \in Int
        /\ s.seen \cup ToSet(events) \in SUBSET E
    BY <1>1 DEF Observer
  <1>3. /\ t \in Observer(E) /\ t.chain = s.chain /\ t.seen = s.seen /\ t.buffer = s.buffer
        /\ t.pending = s.pending \ ToSet(events) /\ t.queued = s.queued - Len(events)
    BY <1>2 DEF Observer
  <1> HIDE DEF t
  <1>4. /\ a \in Observer(E) /\ a.chain = t.chain /\ a.seen = t.seen \cup ToSet(events)
        /\ a.pending = t.pending /\ a.queued = t.queued /\ a.buffer = t.buffer
    BY <1>2, <1>3 DEF Observer
  <1>5. /\ f \in Observer(E) /\ f.chain = t.chain /\ f.seen = t.seen
        /\ f.pending = t.pending /\ f.queued = t.queued /\ f.buffer = t.buffer
    BY <1>3 DEF Observer
  <1>6. Ingested(s, events) = IF call = "accepted" THEN a ELSE f
    BY DEF Ingested, t
  <1> HIDE DEF a, f
  <1> QED
    BY <1>3, <1>4, <1>5, <1>6 DEF Unqueued

(* BatchDone: a flush goes on to reconcile, another drain ends.            *)
LEMMA BatchDoneStep ==
    ASSUME IInv, BatchDone
    PROVE  IInv'
  <1> DEFINE E == Upto(session)
             s == Ingested(state, Item.batch)
             item == [Item EXCEPT !.batch = <<>>]
  <1>1. /\ call # "none" /\ at = "batch" /\ call' = "none"
        /\ UNCHANGED <<inboxVars, session, batch, wire, disposing, faults>>
    BY DEF BatchDone, Answered
  <1>2. state.chain # <<>>
    BY <1>1 DEF IInv, CallInv
  <1>3. /\ session \in Nat /\ state \in Observer(E) /\ batch \in Seq(E)
        /\ state.chain \in Seq(Drained(E)) /\ Item \in Drained(E) /\ Item.batch \in Seq(E)
    BY <1>2, Heading
  <1>4. state.seen \subseteq Cursor /\ wire \in Seq(Message(E)) /\ faults \in 0..MaxFaults
        /\ next \in 0..session
    BY DEF IInv, TypeInv, EvidenceInv
  <1>5. s \in Observer(E) /\ s.chain = state.chain /\ s.seen \subseteq Cursor
    <2>1. call = "accepted" => ToSet(Item.batch) \subseteq Cursor
      BY <1>1 DEF IInv, CallInv, Asked, Request
    <2> HIDE DEF E
    <2> DEFINE events == Item.batch
    <2>2. /\ s \in Observer(E) /\ s.chain = state.chain
          /\ s.seen = IF call = "accepted" THEN state.seen \cup ToSet(Item.batch) ELSE state.seen
      <3>1. state \in Observer(E) /\ events \in Seq(E)
        BY <1>3
      <3> HIDE DEF events
      <3>2. /\ Ingested(state, events) \in Observer(E)
            /\ Ingested(state, events).chain = state.chain
            /\ Ingested(state, events).seen =
                   IF call = "accepted" THEN state.seen \cup ToSet(events) ELSE state.seen
        BY ONLY <3>1, Ingesting
      <3> QED
        BY <3>2 DEF events
    <2> QED
      BY <1>4, <2>1, <2>2
  <1>6. WireInv'
    BY <1>1, WireStays
  <1> HIDE DEF s
  <1>7. CASE Item.sync
    <2>1. /\ state' = [s EXCEPT !.chain = <<item>> \o Tail(@)]
          /\ at' = "reconcile" /\ next' = 0
      BY <1>7 DEF BatchDone, s
    <2>2. item \in Drained(E) /\ item.sync = Item.sync
      <3>1. <<>> \in Seq(E)
        OBVIOUS
      <3> QED
        BY <1>3, <3>1 DEF Drained
    <2> HIDE DEF item
    <2> DEFINE c == <<item>> \o Tail(s.chain)
    <2>3. /\ c \in Seq(Drained(E)) /\ c # <<>>
          /\ Last(c) = IF Len(state.chain) = 1 THEN item ELSE Last(state.chain)
      <3> HIDE DEF E
      <3> QED
        BY <1>2, <1>3, <1>5, <2>2, Reheading
    <2> HIDE DEF c
    <2>4. state' \in Observer(E) /\ state'.seen = s.seen /\ state'.chain = c
      <3>1. state' = [s EXCEPT !.chain = c]
        BY <2>1 DEF c
      <3> QED
        BY <1>5, <2>3, <3>1 DEF Observer
    <2>5. TypeInv' /\ EvidenceInv'
      BY <1>1, <1>3, <1>4, <1>5, <1>6, <2>1, <2>4, Turning
    <2>6. CallInv'
      BY <1>1, <2>3, <2>4 DEF CallInv
    <2>7. DisposalInv'
      BY <1>1, <1>2, <1>7, <2>2, <2>3, <2>4 DEF IInv, DisposalInv
    <2> QED
      BY <2>5, <2>6, <2>7 DEF IInv
  <1>8. CASE ~Item.sync
    <2>1. EndDrain(s) /\ next' = next
      BY <1>8 DEF BatchDone, s
    <2>2. /\ state' \in Observer(E) /\ state'.seen = s.seen
          /\ at' \in {"idle", "start"}
          /\ at' # "idle" => state'.chain # <<>>
          /\ state'.chain # <<>> => Last(state'.chain) = Last(s.chain)
          /\ state'.chain = <<>> => Last(s.chain) = Head(s.chain)
      <3> HIDE DEF E
      <3> QED
        BY <1>2, <1>5, <2>1, Ending
    <2>3. TypeInv' /\ EvidenceInv'
      BY <1>1, <1>3, <1>4, <1>5, <1>6, <2>1, <2>2, Turning
    <2>4. CallInv'
      BY <1>1, <2>2 DEF CallInv
    <2>5. DisposalInv'
      BY <1>1, <1>2, <1>5, <1>8, <2>2 DEF IInv, DisposalInv, Item
    <2> QED
      BY <2>3, <2>4, <2>5 DEF IInv
  <1> QED
    BY <1>7, <1>8

(* ChunkDone: the chain is as it was.                                      *)
LEMMA ChunkDoneStep ==
    ASSUME IInv, ChunkDone
    PROVE  IInv'
  <1> DEFINE E == Upto(session)
  <1>1. /\ call # "none" /\ at \in {"reconcile", "check"} /\ call' = "none"
        /\ state' = Ingested(state, batch) /\ batch' = <<>>
        /\ UNCHANGED <<inboxVars, session, at, next, wire, disposing, faults>>
    BY DEF ChunkDone, Answered
  <1>2. state.chain # <<>>
    BY <1>1 DEF IInv, CallInv
  <1>3. session \in Nat /\ state \in Observer(E) /\ batch \in Seq(E)
    BY <1>2, Heading
  <1>4. state.seen \subseteq Cursor /\ wire \in Seq(Message(E)) /\ faults \in 0..MaxFaults
        /\ next \in 0..session /\ <<>> \in Seq(E)
    BY DEF IInv, TypeInv, EvidenceInv
  <1>5. state' \in Observer(E) /\ state'.chain = state.chain /\ state'.seen \subseteq Cursor
    <2>1. call = "accepted" => ToSet(batch) \subseteq Cursor
      BY <1>1 DEF IInv, CallInv, Asked, Request
    <2> HIDE DEF E
    <2>2. /\ Ingested(state, batch) \in Observer(E)
          /\ Ingested(state, batch).chain = state.chain
          /\ Ingested(state, batch).seen =
                 IF call = "accepted" THEN state.seen \cup ToSet(batch) ELSE state.seen
      BY ONLY <1>3, Ingesting
    <2> QED
      BY <1>1, <1>4, <2>1, <2>2
  <1>6. WireInv'
    BY <1>1, WireStays
  <1>7. TypeInv' /\ EvidenceInv'
    BY <1>1, <1>3, <1>4, <1>5, <1>6, Turning
  <1>8. CallInv'
    BY <1>1, <1>2, <1>5 DEF CallInv
  <1>9. DisposalInv'
    BY <1>1, <1>2, <1>5 DEF IInv, DisposalInv
  <1> QED
    BY <1>7, <1>8, <1>9 DEF IInv

(* SyncDone: a drain without loss ends after a reference to the inbox.     *)
LEMMA SyncDoneStep ==
    ASSUME IInv, SyncDone
    PROVE  IInv'
  <1> DEFINE E == Upto(session)
             s == Synced(state)
  <1>1. /\ call # "none" /\ at = "sync" /\ call' = "none" /\ EndDrain(s)
        /\ UNCHANGED <<inboxVars, session, next, batch, wire, disposing, faults>>
    BY DEF SyncDone, Answered
  <1>2. state.chain # <<>>
    BY <1>1 DEF IInv, CallInv
  <1>3. session \in Nat /\ state \in Observer(E) /\ batch \in Seq(E)
    BY <1>2, Heading
  <1>4. state.seen \subseteq Cursor /\ wire \in Seq(Message(E)) /\ faults \in 0..MaxFaults
        /\ next \in 0..session
    BY DEF IInv, TypeInv, EvidenceInv
  <1>5. /\ s \in Observer(E) /\ s.chain = state.chain /\ s.seen = state.seen
        /\ ~s.loss => call = "verified"
    BY <1>3 DEF Synced, Observer
  <1> HIDE DEF s
  <1>6. /\ state' \in Observer(E) /\ state'.seen = s.seen /\ state'.loss = s.loss
        /\ at' \in {"idle", "start"}
        /\ at' # "idle" => state'.chain # <<>>
        /\ state'.chain # <<>> => Last(state'.chain) = Last(s.chain)
    <2> HIDE DEF E
    <2> QED
      BY <1>1, <1>2, <1>5, Ending
  <1>7. WireInv'
    BY <1>1, WireStays
  <1>8. TypeInv' /\ EvidenceInv' /\ Cursor' = Cursor
    BY <1>1, <1>3, <1>4, <1>5, <1>6, <1>7, Turning
  <1>9. CallInv'
    BY <1>1, <1>6 DEF CallInv
  <1>10. DisposalInv'
    <2>1. call = "verified" => wire = <<>> /\ Cursor \in refs
      BY DEF IInv, CallInv
    <2>2. wire' = wire /\ refs' = refs /\ disposing' = disposing
      BY <1>1 DEF inboxVars
    <2> QED
      BY <1>2, <1>5, <1>6, <1>8, <2>1, <2>2 DEF IInv, DisposalInv
  <1> QED
    BY <1>8, <1>9, <1>10 DEF IInv

-----------------------------------------------------------------------------
(* The bridge process and the wire keep the invariant.                     *)

(* The request that is served, and what is left of the wire.               *)
LEMMA Serving ==
    ASSUME IInv, wire # <<>>
    PROVE  /\ Head(wire) = wire[1] /\ Head(wire) \in Message(Upto(session))
           /\ Head(wire).batch \in Seq(Upto(session))
           /\ Tail(wire) \in Seq(Message(Upto(session)))
           /\ Len(Tail(wire)) = Len(wire) - 1 /\ Len(wire) \in Nat \ {0}
           /\ \A i \in 1..(Len(wire) - 1) : Tail(wire)[i] = wire[i + 1]
           /\ Tail(wire) = <<>> <=> Len(wire) = 1
           /\ Tail(wire) # <<>> => Last(Tail(wire)) = Last(wire)
           /\ Tail(wire) = <<>> => Last(wire) = Head(wire)
  <1> DEFINE E == Upto(session)
             M == Message(E)
  <1>1. wire \in Seq(M)
    BY DEF IInv, TypeInv
  <1>2. \A m \in M : m.batch \in Seq(E)
    BY DEF Message
  <1> HIDE DEF M
  <1> QED
    BY <1>1, <1>2, Beheading DEF M

(* The wire without its first request.                                     *)
LEMMA WireShrinks ==
    ASSUME IInv, wire # <<>>, wire' = Tail(wire), session' = session,
           Cursor' = Cursor \/ (Cursor' = Cursor \cup ToSet(Head(wire).batch)
                                /\ Head(wire).kind = "ingest")
    PROVE  WireInv'
  <1>1. /\ Head(wire) = wire[1] /\ Len(wire') = Len(wire) - 1 /\ Len(wire) \in Nat \ {0}
        /\ \A i \in 1..(Len(wire) - 1) : wire'[i] = wire[i + 1]
    BY Serving
  <1>2. SUFFICES ASSUME NEW i \in 1..(Len(wire) - 1), wire'[i].kind = "sync"
                 PROVE  Gapless(Cursor') /\ \A j \in 1..(i - 1) :
                            ToSet(wire'[j].batch) \subseteq Cursor'
    BY <1>1 DEF WireInv, Gapless
  <1>3. i + 1 \in 1..Len(wire) /\ wire[i + 1].kind = "sync"
    BY <1>1, <1>2
  <1>4. Gapless(Cursor) /\ \A j \in 1..i : ToSet(wire[j].batch) \subseteq Cursor
    <2>1. (i + 1) - 1 = i
      OBVIOUS
    <2> QED
      BY <1>3, <2>1 DEF IInv, EvidenceInv, WireInv
  <1>5. Cursor' = Cursor
    <2>1. 1 \in 1..i
      OBVIOUS
    <2>2. ToSet(Head(wire).batch) \subseteq Cursor
      BY <1>1, <1>4, <2>1
    <2> QED
      BY <2>2
  <1>6. \A j \in 1..(i - 1) : j + 1 \in 1..i /\ wire'[j] = wire[j + 1]
    BY <1>1
  <1> QED
    BY <1>4, <1>5, <1>6

(* ServeIngest: the batch is in the inbox, or its file was torn before.    *)
LEMMA ServeIngestStep ==
    ASSUME IInv, ServeIngest
    PROVE  IInv'
  <1> DEFINE E == Upto(session)
             b == Head(wire).batch
  <1>1. /\ wire # <<>> /\ Head(wire).kind = "ingest" /\ wire' = Tail(wire)
        /\ inbox' = IF b \in torn THEN inbox ELSE inbox \cup {b}
        /\ UNCHANGED <<session, torn, refs, tornRefs, state, at, next, batch, disposing, faults>>
        /\ call' = IF call = "open" /\ Len(wire) = 1
                   THEN (IF b \notin torn THEN "accepted" ELSE "failed") ELSE call
    BY DEF ServeIngest, Ingest, Reply, Accepts
  <1>2. /\ b \in Seq(E) /\ wire' \in Seq(Message(E)) /\ Len(wire) \in Nat \ {0}
        /\ wire' = <<>> <=> Len(wire) = 1
        /\ wire' # <<>> => Last(wire') = Last(wire)
        /\ wire' = <<>> => Last(wire) = Head(wire)
    BY <1>1, Serving
  <1>3. Cursor' = Cursor \/ (Cursor' = Cursor \cup ToSet(b) /\ b \notin torn)
    <2> HIDE DEF b
    <2> QED
      BY <1>1 DEF Cursor
  <1>4. b \notin torn => ToSet(b) \subseteq Cursor'
    <2> HIDE DEF b
    <2> QED
      BY <1>1 DEF Cursor
  <1>5. WireInv'
    BY <1>1, <1>3, WireShrinks
  <1>6. TypeInv'
    <2>1. inbox' \in SUBSET Seq(E)
      BY <1>1, <1>2 DEF IInv, TypeInv
    <2>2. call' \in {"none", "open", "accepted", "verified", "incomplete", "failed"}
      BY <1>1 DEF IInv, TypeInv
    <2> QED
      BY <1>1, <1>2, <2>1, <2>2 DEF IInv, TypeInv
  <1>7. EvidenceInv'
    <2>1. \A events : Gapless(events)' <=> Gapless(events)
      BY <1>1 DEF Gapless
    <2> HIDE DEF b
    <2> QED
      BY <1>1, <1>3, <1>5, <2>1 DEF IInv, EvidenceInv
  <1>8. CallInv'
    <2>1. Asked' = Asked /\ (state.chain # <<>>)' = (state.chain # <<>>)
      BY <1>1 DEF Asked, Item
    <2>2. CASE call = "open" /\ Len(wire) = 1
      <3>1. Asked = Head(wire)
        BY <1>2, <2>2 DEF IInv, CallInv
      <3>2. at # "sync" /\ Asked.batch = b
        BY <1>1, <3>1 DEF Asked, Request
      <3>3. call' \in {"accepted", "failed"} /\ (call' = "accepted" => b \notin torn)
        BY <1>1, <2>2
      <3>4. at \in {"batch", "reconcile", "check", "sync"} /\ state.chain # <<>>
        BY <2>2 DEF IInv, CallInv
      <3> HIDE DEF b
      <3> QED
        BY <1>1, <1>4, <2>1, <3>2, <3>3, <3>4 DEF CallInv
    <2>3. CASE ~(call = "open" /\ Len(wire) = 1)
      <3>1. call' = call /\ at' = at
        BY <1>1, <2>3
      <3>2. Cursor \subseteq Cursor'
        BY <1>3
      <3> QED
        BY <1>1, <1>2, <2>1, <2>3, <3>1, <3>2 DEF IInv, CallInv
    <2> QED
      BY <2>2, <2>3
  <1>9. DisposalInv'
    BY <1>1 DEF IInv, DisposalInv
  <1> QED
    BY <1>6, <1>7, <1>8, <1>9 DEF IInv

(* ServeSync: a reference to an inbox without gaps, or none.               *)
LEMMA ServeSyncStep ==
    ASSUME IInv, ServeSync
    PROVE  IInv'
  <1> DEFINE E == Upto(session)
  <1>1. /\ wire # <<>> /\ Head(wire).kind = "sync" /\ wire' = Tail(wire)
        /\ refs' = IF Syncs THEN refs \cup {Cursor} ELSE refs
        /\ UNCHANGED <<session, inbox, torn, tornRefs, state, at, next, batch, disposing, faults>>
        /\ call' = IF call = "open" /\ Len(wire) = 1
                   THEN (IF ~Syncs THEN "failed"
                         ELSE IF Complete(Cursor) THEN "verified" ELSE "incomplete")
                   ELSE call
    BY DEF ServeSync, Sync, Reply
  <1>2. /\ Head(wire) = wire[1] /\ wire' \in Seq(Message(E)) /\ Len(wire) \in Nat \ {0}
        /\ wire' = <<>> <=> Len(wire) = 1
        /\ wire' # <<>> => Last(wire') = Last(wire)
        /\ wire' = <<>> => Last(wire) = Head(wire)
    BY <1>1, Serving
  <1>3. Cursor' = Cursor
    BY <1>1 DEF Cursor
  <1>4. Gapless(Cursor)
    <2>1. 1 \in 1..Len(wire)
      BY <1>2
    <2> QED
      BY <1>1, <1>2, <2>1 DEF IInv, EvidenceInv, WireInv
  <1>5. Cursor \in SUBSET E
    <2>1. \A s \in Seq(E) : ToSet(s) \subseteq E
      BY DEF ToSet
    <2>2. inbox \subseteq Seq(E)
      BY DEF IInv, TypeInv
    <2> HIDE DEF E
    <2> QED
      BY <2>1, <2>2 DEF Cursor
  <1>6. WireInv'
    BY <1>1, <1>3, WireShrinks
  <1>7. TypeInv'
    <2>1. refs' \in SUBSET SUBSET E
      BY <1>1, <1>5 DEF IInv, TypeInv
    <2>2. call' \in {"none", "open", "accepted", "verified", "incomplete", "failed"}
      BY <1>1 DEF IInv, TypeInv
    <2> QED
      BY <1>1, <1>2, <2>1, <2>2 DEF IInv, TypeInv
  <1>8. EvidenceInv'
    <2>1. \A events : Gapless(events)' <=> Gapless(events)
      BY <1>1 DEF Gapless
    <2> QED
      BY <1>1, <1>3, <1>4, <1>6, <2>1 DEF IInv, EvidenceInv
  <1>9. CallInv'
    <2>1. Asked' = Asked /\ (state.chain # <<>>)' = (state.chain # <<>>)
      BY <1>1 DEF Asked, Item
    <2>2. CASE call = "open" /\ Len(wire) = 1
      <3>1. Asked = Head(wire)
        BY <1>2, <2>2 DEF IInv, CallInv
      <3>2. at = "sync"
        BY <1>1, <3>1 DEF Asked, Request
      <3>3. call' \in {"failed", "verified", "incomplete"} /\ (call' = "verified" => Cursor \in refs')
        BY <1>1, <2>2
      <3>4. state.chain # <<>> /\ wire' = <<>>
        BY <1>2, <2>2 DEF IInv, CallInv
      <3> QED
        BY <1>1, <1>3, <3>2, <3>3, <3>4 DEF CallInv
    <2>3. CASE ~(call = "open" /\ Len(wire) = 1)
      <3>1. call' = call /\ at' = at
        BY <1>1, <2>3
      <3> QED
        BY <1>1, <1>2, <1>3, <2>1, <2>3, <3>1 DEF IInv, CallInv
    <2> QED
      BY <2>2, <2>3
  <1>10. DisposalInv'
    BY <1>1 DEF IInv, DisposalInv
  <1> QED
    BY <1>7, <1>8, <1>9, <1>10 DEF IInv

(* Timeout and ChildStops: the open call fails, the inbox stays.           *)
LEMMA FaultStep ==
    ASSUME IInv, Timeout \/ ChildStops
    PROVE  IInv'
  <1> DEFINE E == Upto(session)
  <1>1. /\ faults \in 0..MaxFaults /\ faults < MaxFaults /\ faults' = faults + 1
        /\ call' = IF call = "none" THEN "none" ELSE "failed"
        /\ UNCHANGED <<session, state, at, next, batch, disposing>>
    BY DEF Timeout, ChildStops, Fail, IInv, TypeInv
  <1>2. inbox' = inbox /\ refs' = refs
    BY DEF Timeout, ChildStops, TearBatch, TearRef, inboxVars
  <1>3. (wire' = wire /\ torn' = torn /\ tornRefs' = tornRefs) \/ wire' = <<>>
    BY DEF Timeout, ChildStops, inboxVars
  <1>4. Cursor' = Cursor /\ \A events : Gapless(events)' <=> Gapless(events)
    BY <1>1, <1>2 DEF Cursor, Gapless
  <1>5. TypeInv'
    <2>1. torn' \in SUBSET Seq(E) /\ tornRefs' \in SUBSET SUBSET E
      <3>1. torn \in SUBSET Seq(E) /\ tornRefs \in SUBSET SUBSET E /\ inbox \subseteq Seq(E)
        BY DEF IInv, TypeInv
      <3>2. Cursor \in SUBSET E
        <4>1. \A s \in Seq(E) : ToSet(s) \subseteq E
          BY DEF ToSet
        <4> HIDE DEF E
        <4> QED
          BY <3>1, <4>1 DEF Cursor
      <3>3. wire # <<>> => Head(wire).batch \in Seq(E)
        BY Serving
      <3>4. \/ torn' = torn /\ tornRefs' = tornRefs
            \/ torn' = torn \cup {Head(wire).batch} /\ tornRefs' = tornRefs /\ wire # <<>>
            \/ torn' = torn /\ tornRefs' = tornRefs \cup {Cursor}
        BY DEF Timeout, ChildStops, TearBatch, TearRef, inboxVars
      <3> HIDE DEF E
      <3> QED
        BY <3>1, <3>2, <3>3, <3>4
    <2>2. wire' \in Seq(Message(E))
      <3>1. wire \in Seq(Message(E)) /\ <<>> \in Seq(Message(E))
        BY DEF IInv, TypeInv
      <3> QED
        BY <1>3, <3>1
    <2>3. faults' \in 0..MaxFaults
      BY <1>1, ObserverAssumption
    <2> QED
      BY <1>1, <1>2, <2>1, <2>2, <2>3 DEF IInv, TypeInv
  <1>6. WireInv'
    <2>1. CASE wire' = wire
      BY <1>4, <2>1 DEF IInv, EvidenceInv, WireInv
    <2>2. CASE wire' = <<>>
      BY <2>2 DEF WireInv
    <2> QED
      BY <1>3, <2>1, <2>2
  <1>7. EvidenceInv'
    BY <1>1, <1>2, <1>4, <1>6 DEF IInv, EvidenceInv
  <1>8. CallInv' /\ DisposalInv'
    BY <1>1, <1>2, <1>3, <1>4 DEF IInv, CallInv, DisposalInv
  <1> QED
    BY <1>5, <1>7, <1>8 DEF IInv

-----------------------------------------------------------------------------
(* The theorems.                                                           *)

(* IInv holds in every state: whatever timed out, was served late, failed, *)
(* was disposed of or began anew, the bridge's answers and the references  *)
(* are about events that are in the inbox.                                 *)
THEOREM Invariant == Spec => []IInv
  <1>1. IInv /\ [Next]_vars => IInv'
    <2> SUFFICES ASSUME IInv, [Next]_vars PROVE IInv'
      OBVIOUS
    <2>1. CASE Emit
      BY <2>1, EmitStep
    <2>2. CASE Flush \/ Dispose
      BY <2>2, FlushStep
    <2>3. CASE Load
      BY <2>3, LoadStep
    <2>4. CASE Turn
      BY <2>4, StartDrainStep, ReconcileStep, CheckStep, BatchDoneStep, ChunkDoneStep,
         SyncDoneStep DEF Turn
    <2>5. CASE Serve
      BY <2>5, ServeIngestStep, ServeSyncStep DEF Serve
    <2>6. CASE Timeout \/ ChildStops
      BY <2>6, FaultStep
    <2>7. CASE UNCHANGED vars
      BY <2>7 DEF vars, plugin, inboxVars, IInv, TypeInv, CallInv, EvidenceInv, WireInv,
         DisposalInv, Asked, Item, Gapless, Cursor
    <2> QED
      BY <2>1, <2>2, <2>3, <2>4, <2>5, <2>6, <2>7 DEF Next
  <1> QED
    BY Initially, <1>1, PTL DEF Spec

(* An event the observer will never send again is in the inbox, whatever   *)
(* timed out, stopped or was served late (observer.ts:161-174).            *)
THEOREM SeenStays == Spec => []SeenIsStored
  <1>1. IInv => SeenIsStored
    BY DEF IInv, EvidenceInv, SeenIsStored
  <1> QED
    BY Invariant, <1>1, PTL

(* The last of the events up to some number.                               *)
LEMMA LastOne ==
    ASSUME NEW k \in Nat \ {0}
    PROVE  Max(Upto(k)) = k - 1 /\ Cardinality(Upto(k)) = k
  <1>1. k - 1 \in Upto(k) /\ \A y \in Upto(k) : k - 1 >= y
    BY DEF Upto
  <1>2. \E x \in Upto(k) : \A y \in Upto(k) : x >= y
    BY <1>1
  <1>3. Max(Upto(k)) \in Upto(k) /\ \A y \in Upto(k) : Max(Upto(k)) >= y
    BY <1>2 DEF Max
  <1>4. Max(Upto(k)) = k - 1
    <2> DEFINE m == Max(Upto(k))
    <2>1. m \in Int /\ m <= k - 1 /\ m >= k - 1
      BY <1>1, <1>3 DEF Upto
    <2> HIDE DEF m
    <2>2. m = k - 1
      BY <2>1
    <2> QED
      BY <2>2 DEF m
  <1>5. Cardinality(0..(k - 1)) = k
    <2>1. Cardinality(0..(k - 1)) = (k - 1) - 0 + 1
      BY FS_Interval
    <2> QED
      BY <2>1
  <1> QED
    BY <1>4, <1>5 DEF Upto

(* Whatever was dropped, failed, timed out and was served late, every      *)
(* reference has the events of the session up to its end, can be verified  *)
(* while no batch file is torn, and after an observer that was unloaded    *)
(* without a loss the evaluation picks one with all the observer saw       *)
(* (observer.ts:121-145, service.py:316, dsh_tau3.py:763-779).             *)
THEOREM FinalEvidenceHolds == Spec => []FinalEvidence
  <1>1. IInv => FinalEvidence
    <2> SUFFICES ASSUME IInv PROVE FinalEvidence
      OBVIOUS
    <2>1. session \in Nat
      BY ObserverAssumption DEF IInv, TypeInv
    <2>2. ASSUME NEW ref \in refs
          PROVE  \E k \in 1..session : ref = Upto(k) /\ Max(ref) = k - 1
                                       /\ Cardinality(ref) = k /\ ref \subseteq Cursor
      <3>1. PICK k \in 1..session : ref = Upto(k)
        BY DEF IInv, EvidenceInv, Gapless
      <3>2. Max(ref) = k - 1 /\ Cardinality(ref) = k
        <4>1. k \in Nat \ {0}
          BY <2>1, <3>1
        <4> QED
          BY <3>1, <4>1, LastOne
      <3> QED
        BY <3>1, <3>2 DEF IInv, EvidenceInv
    <2>3. ASSUME NEW ref \in refs, NEW e \in 0..(session - 1), e <= Max(ref)
          PROVE  e \in ref
      BY <2>1, <2>2, <2>3 DEF Upto
    <2>4. ASSUME Readable, NEW ref \in refs PROVE Verifies(ref)
      <3>1. PICK k \in 1..session : ref = Upto(k) /\ Max(ref) = k - 1 /\ ref \subseteq Cursor
        BY <2>2
      <3>2. Cursor \subseteq Nat
        <4> DEFINE E == Upto(session)
        <4>1. E \subseteq Nat
          BY DEF Upto
        <4>2. inbox \subseteq Seq(E)
          BY DEF IInv, TypeInv
        <4> HIDE DEF E
        <4>3. \A s \in Seq(E) : ToSet(s) \subseteq E
          BY DEF ToSet
        <4> QED
          BY <4>1, <4>2, <4>3 DEF Cursor
      <3>3. {e \in Cursor : e <= Max(ref)} = ref
        <4>1. \A e \in Nat : e <= Max(ref) <=> e \in ref
          BY <2>1, <3>1 DEF Upto
        <4> QED
          BY <3>1, <3>2, <4>1
      <3> QED
        BY <2>4, <3>1, <3>3 DEF Verifies, Complete, Upto
    <2>5. ASSUME disposing, state.chain = <<>>, ~state.loss
          PROVE  refs # {} /\ state.seen \subseteq Latest
      <3> DEFINE Furthest(ref) == \A other \in refs :
                     \/ Max(other) < Max(ref)
                     \/ Max(other) = Max(ref) /\ Cardinality(other) <= Cardinality(ref)
      <3>1. Cursor \in refs
        BY <2>5 DEF IInv, DisposalInv
      <3>2. PICK c \in 1..session : Cursor = Upto(c) /\ Max(Cursor) = c - 1
                                    /\ Cardinality(Cursor) = c
        BY <2>2, <3>1
      <3>3. \A k \in 1..session : Upto(k) \subseteq Upto(c) => k <= c
        <4> SUFFICES ASSUME NEW k \in 1..session, Upto(k) \subseteq Upto(c) PROVE k <= c
          OBVIOUS
        <4>1. k - 1 \in Upto(k)
          BY <2>1 DEF Upto
        <4>2. k - 1 \in Upto(c)
          BY <4>1
        <4> QED
          BY <2>1, <4>2 DEF Upto
      <3>4. Furthest(Cursor)
        <4> SUFFICES ASSUME NEW other \in refs
                     PROVE  \/ Max(other) < Max(Cursor)
                            \/ Max(other) = Max(Cursor)
                               /\ Cardinality(other) <= Cardinality(Cursor)
          OBVIOUS
        <4>1. PICK k \in 1..session : other = Upto(k) /\ Max(other) = k - 1
                                      /\ Cardinality(other) = k /\ other \subseteq Cursor
          BY <2>2
        <4>2. k <= c
          BY <3>2, <3>3, <4>1
        <4> QED
          BY <2>1, <3>2, <4>1, <4>2
      <3>5. Latest \in refs /\ Furthest(Latest)
        <4>1. \E ref \in refs : Furthest(ref)
          BY <3>1, <3>4
        <4>2. Latest = CHOOSE ref \in refs : Furthest(ref)
          BY DEF Latest
        <4> HIDE DEF Furthest
        <4> QED
          BY <4>1, <4>2
      <3>6. PICK l \in 1..session : Latest = Upto(l) /\ Max(Latest) = l - 1
                                    /\ Latest \subseteq Cursor
        BY <2>2, <3>5
      <3>7. l = c
        <4>1. l <= c
          BY <3>2, <3>3, <3>6
        <4>2. Max(Cursor) <= Max(Latest)
          BY <2>1, <3>1, <3>2, <3>5, <3>6
        <4> QED
          BY <2>1, <3>2, <3>6, <4>1, <4>2
      <3> QED
        BY <3>1, <3>2, <3>6, <3>7 DEF IInv, EvidenceInv
    <2> QED
      BY <2>3, <2>4, <2>5 DEF FinalEvidence
  <1> QED
    BY Invariant, <1>1, PTL

(* Where the queued events are: in the buffer, in the scheduled batches or *)
(* in the chunk b that is being ingested; each once.                       *)
Accounted(s, b) ==
    LET C == 1..Len(s.chain) IN
    /\ Distinct(s.buffer) /\ Distinct(b) /\ ToSet(s.buffer) \cap ToSet(b) = {}
    /\ \A i \in C :
          /\ Distinct(s.chain[i].batch)
          /\ ToSet(s.chain[i].batch) \cap (ToSet(s.buffer) \cup ToSet(b)) = {}
          /\ \A j \in C : i # j =>
                ToSet(s.chain[i].batch) \cap ToSet(s.chain[j].batch) = {}
    /\ s.pending = ToSet(s.buffer) \cup ToSet(b)
                   \cup UNION {ToSet(s.chain[i].batch) : i \in C}
    /\ s.queued = Cardinality(s.pending)

(* A drain ingests its batch before it reconciles; only the chunk that is  *)
(* being ingested exceeds the buffer, and a full batch is scheduled.       *)
QueueInv ==
    /\ Accounted(state, batch)
    /\ at \in {"reconcile", "check", "sync"} => Item.batch = <<>>
    /\ call = "none" \/ at \notin {"reconcile", "check"} => batch = <<>>
    /\ Len(batch) <= MaxBatch
    /\ state.queued - Len(batch) <= MaxBuffer
    /\ Len(state.buffer) < MaxBatch

-----------------------------------------------------------------------------
(* Counting.                                                               *)

(* A sequence without repetition is as long as the set of its elements.    *)
LEMMA Counting ==
    ASSUME NEW E, NEW s \in Seq(E), Distinct(s)
    PROVE  /\ IsFiniteSet(ToSet(s)) /\ Cardinality(ToSet(s)) = Len(s)
           /\ ToSet(s) \subseteq E /\ Len(s) \in Nat
  <1> DEFINE n == Len(s)
  <1>1. n \in Nat /\ DOMAIN s = 1..n /\ s \in [1..n -> E]
    OBVIOUS
  <1>2. IsFiniteSet(1..n) /\ Cardinality(1..n) = n
    <2>1. IsFiniteSet(1..n) /\ Cardinality(1..n) = IF 1 > n THEN 0 ELSE n - 1 + 1
      BY <1>1, FS_Interval
    <2> QED
      BY <1>1, <2>1
  <1>3. s \in Surjection(1..n, ToSet(s))
    BY <1>1 DEF ToSet, Surjection
  <1>4. s \in Injection(1..n, ToSet(s))
    BY <1>1, <1>3 DEF Distinct, Injection, IsInjective, Surjection
  <1>5. IsFiniteSet(ToSet(s)) /\ Cardinality(ToSet(s)) = n
    BY <1>2, <1>3, <1>4, FS_Surjection
  <1> QED
    BY <1>1, <1>5 DEF ToSet

(* Two sequences, one after the other.                                     *)
LEMMA Concatenating ==
    ASSUME NEW E, NEW s \in Seq(E), NEW t \in Seq(E),
           Distinct(s), Distinct(t), ToSet(s) \cap ToSet(t) = {}
    PROVE  s \o t \in Seq(E) /\ Distinct(s \o t) /\ ToSet(s \o t) = ToSet(s) \cup ToSet(t)
  <1> DEFINE u == s \o t
             m == Len(s)
             n == Len(t)
  <1>1. /\ m \in Nat /\ n \in Nat /\ DOMAIN s = 1..m /\ DOMAIN t = 1..n
        /\ u \in Seq(E) /\ DOMAIN u = 1..(m + n)
        /\ \A i \in 1..(m + n) : u[i] = IF i <= m THEN s[i] ELSE t[i - m]
    BY ConcatProperties
  <1> HIDE DEF u, m, n
  <1>2. ToSet(u) = ToSet(s) \cup ToSet(t)
    <2>1. ASSUME NEW i \in 1..(m + n) PROVE u[i] \in ToSet(s) \cup ToSet(t)
      <3>1. CASE i <= m
        <4>1. i \in DOMAIN s /\ u[i] = s[i]
          BY <1>1, <3>1
        <4> QED
          BY <4>1 DEF ToSet
      <3>2. CASE ~(i <= m)
        <4>1. i - m \in DOMAIN t /\ u[i] = t[i - m]
          BY <1>1, <3>2
        <4> QED
          BY <4>1 DEF ToSet
      <3> QED
        BY <3>1, <3>2
    <2>2. ASSUME NEW i \in DOMAIN s PROVE s[i] \in ToSet(u)
      <3>1. i \in DOMAIN u /\ u[i] = s[i]
        BY <1>1
      <3> QED
        BY <3>1 DEF ToSet
    <2>3. ASSUME NEW i \in DOMAIN t PROVE t[i] \in ToSet(u)
      <3>1. i + m \in DOMAIN u /\ u[i + m] = t[i]
        BY <1>1
      <3> QED
        BY <3>1 DEF ToSet
    <2> QED
      BY <1>1, <2>1, <2>2, <2>3 DEF ToSet
  <1>3. Distinct(u)
    <2> SUFFICES ASSUME NEW i \in 1..(m + n), NEW j \in 1..(m + n), u[i] = u[j]
                 PROVE  i = j
      BY <1>1 DEF Distinct
    <2>1. ASSUME NEW k \in 1..(m + n)
          PROVE  \/ k <= m /\ k \in DOMAIN s /\ u[k] = s[k] /\ u[k] \in ToSet(s)
                 \/ k > m /\ k - m \in DOMAIN t /\ u[k] = t[k - m] /\ u[k] \in ToSet(t)
      <3>1. CASE k <= m
        <4>1. k \in DOMAIN s /\ u[k] = s[k]
          BY <1>1, <3>1
        <4> QED
          BY <3>1, <4>1 DEF ToSet
      <3>2. CASE ~(k <= m)
        <4>1. k > m /\ k - m \in DOMAIN t /\ u[k] = t[k - m]
          BY <1>1, <3>2
        <4> QED
          BY <4>1 DEF ToSet
      <3> QED
        BY <3>1, <3>2
    <2>2. u[i] \notin ToSet(s) \/ u[i] \notin ToSet(t)
      OBVIOUS
    <2>3. CASE u[i] \in ToSet(s)
      <3>1. i \in DOMAIN s /\ u[i] = s[i] /\ j \in DOMAIN s /\ u[j] = s[j]
        BY <2>1, <2>2, <2>3
      <3> QED
        BY <3>1 DEF Distinct
    <2>4. CASE u[i] \notin ToSet(s)
      <3>1. /\ i - m \in DOMAIN t /\ u[i] = t[i - m]
            /\ j - m \in DOMAIN t /\ u[j] = t[j - m]
        BY <2>1, <2>4
      <3>2. i - m = j - m
        BY <3>1 DEF Distinct
      <3> QED
        BY <1>1, <3>2
    <2> QED
      BY <2>3, <2>4
  <1> QED
    BY <1>1, <1>2, <1>3 DEF u

(* The function FlattenSeq is defined by exists.                           *)
LEMMA FlattenExists ==
    ASSUME NEW seqs, NEW n \in Nat
    PROVE  \E f : f = [i \in 1..n |-> IF i = 1 THEN seqs[i] ELSE f[i-1] \o seqs[i]]
  <1> DEFINE Fits(f, m) == f = [i \in 1..m |-> IF i = 1 THEN seqs[i] ELSE f[i-1] \o seqs[i]]
             S == {m \in Nat : \E f : Fits(f, m)}
  <1>1. 0 \in S
    <2>1. Fits([i \in 1..0 |-> seqs[i]], 0)
      OBVIOUS
    <2> QED
      BY <2>1
  <1>2. ASSUME NEW m \in S PROVE m + 1 \in S
    <2>1. PICK f : Fits(f, m)
      OBVIOUS
    <2> DEFINE g == [i \in 1..(m + 1) |->
                       IF i <= m THEN f[i] ELSE IF i = 1 THEN seqs[i] ELSE f[i-1] \o seqs[i]]
    <2>2. \A i \in 1..(m + 1) : g[i] = IF i = 1 THEN seqs[i] ELSE g[i-1] \o seqs[i]
      <3> SUFFICES ASSUME NEW i \in 1..(m + 1)
                   PROVE  g[i] = IF i = 1 THEN seqs[i] ELSE g[i-1] \o seqs[i]
        OBVIOUS
      <3>1. i # 1 => i - 1 \in 1..m /\ g[i-1] = f[i-1]
        OBVIOUS
      <3>2. CASE i <= m
        <4>1. i \in 1..m /\ g[i] = f[i]
          BY <3>2
        <4>2. f[i] = IF i = 1 THEN seqs[i] ELSE f[i-1] \o seqs[i]
          BY <2>1, <4>1
        <4> QED
          BY <3>1, <4>1, <4>2
      <3>3. CASE ~ (i <= m)
        BY <3>1, <3>3
      <3> QED
        BY <3>2, <3>3
    <2>3. Fits(g, m + 1)
      BY <2>2
    <2> HIDE DEF g, Fits
    <2>4. \E h : Fits(h, m + 1)
      BY <2>3
    <2> QED
      BY <2>4
  <1> HIDE DEF S
  <1>3. S = Nat
    BY <1>1, <1>2, Induction DEF S
  <1> QED
    BY <1>3 DEF S

(* Sequences without a common element, all one after the other.            *)
LEMMA Flattening ==
    ASSUME NEW E, NEW seqs \in Seq(Seq(E)),
           \A i \in 1..Len(seqs) : Distinct(seqs[i]),
           \A i, j \in 1..Len(seqs) : i # j => ToSet(seqs[i]) \cap ToSet(seqs[j]) = {}
    PROVE  /\ FlattenSeq(seqs) \in Seq(E) /\ Distinct(FlattenSeq(seqs))
           /\ ToSet(FlattenSeq(seqs)) = UNION {ToSet(seqs[i]) : i \in 1..Len(seqs)}
  <1> DEFINE n == Len(seqs)
  <1>1. CASE n = 0
    <2>1. FlattenSeq(seqs) = seqs /\ DOMAIN seqs = {} /\ seqs = <<>>
      BY <1>1, EmptySeq DEF FlattenSeq
    <2> QED
      BY <1>1, <2>1 DEF ToSet, Distinct
  <1>2. CASE n # 0
    <2> DEFINE Fits(f) == f = [i \in 1..n |-> IF i = 1 THEN seqs[i] ELSE f[i-1] \o seqs[i]]
               flatten == CHOOSE f : Fits(f)
    <2>1. n \in Nat /\ n \in 1..n /\ DOMAIN seqs = 1..n /\ \A i \in 1..n : seqs[i] \in Seq(E)
      BY <1>2
    <2>2. Fits(flatten)
      BY <2>1, FlattenExists
    <2>3. FlattenSeq(seqs) = flatten[n]
      BY <1>2 DEF FlattenSeq
    <2> HIDE DEF flatten
    <2>4. \A i \in 1..n : flatten[i] = IF i = 1 THEN seqs[i] ELSE flatten[i-1] \o seqs[i]
      BY <2>2
    <2> DEFINE Good(m) == /\ flatten[m] \in Seq(E) /\ Distinct(flatten[m])
                          /\ ToSet(flatten[m]) = UNION {ToSet(seqs[i]) : i \in 1..m}
               S == {m \in Nat : m \in 1..n => Good(m)}
    <2>5. 0 \in S
      OBVIOUS
    <2>6. ASSUME NEW m \in S PROVE m + 1 \in S
      <3> SUFFICES ASSUME m + 1 \in 1..n PROVE Good(m + 1)
        OBVIOUS
      <3>1. CASE m = 0
        <4>1. 1..m + 1 = {1} /\ m + 1 = 1
          BY <3>1
        <4>2. 1 \in 1..n
          BY <2>1
        <4>3. seqs[1] \in Seq(E) /\ Distinct(seqs[1])
          BY <2>1, <4>2
        <4>4. flatten[1] = seqs[1]
          BY <2>4, <4>2
        <4> QED
          BY <4>1, <4>3, <4>4
      <3>2. CASE m # 0
        <4>1. m \in 1..n /\ Good(m)
          BY <3>2
        <4>2. flatten[m + 1] = flatten[m] \o seqs[m + 1] /\ seqs[m + 1] \in Seq(E)
              /\ Distinct(seqs[m + 1])
          <5>1. m + 1 # 1 /\ (m + 1) - 1 = m
            BY <3>2
          <5> QED
            BY <2>1, <2>4, <5>1
        <4>3. ToSet(flatten[m]) \cap ToSet(seqs[m + 1]) = {}
          <5>1. \A i \in 1..m : i \in 1..n /\ i # m + 1
            BY <3>2, <4>1
          <5>2. \A i \in 1..m : ToSet(seqs[i]) \cap ToSet(seqs[m + 1]) = {}
            BY <5>1
          <5> QED
            BY <4>1, <5>2
        <4>4. /\ flatten[m + 1] \in Seq(E) /\ Distinct(flatten[m + 1])
              /\ ToSet(flatten[m + 1]) = ToSet(flatten[m]) \cup ToSet(seqs[m + 1])
          <5> DEFINE s == flatten[m]
                     t == seqs[m + 1]
          <5>1. /\ s \in Seq(E) /\ t \in Seq(E) /\ Distinct(s) /\ Distinct(t)
                /\ ToSet(s) \cap ToSet(t) = {} /\ flatten[m + 1] = s \o t
            BY <4>1, <4>2, <4>3
          <5> HIDE DEF s, t
          <5>2. s \o t \in Seq(E) /\ Distinct(s \o t) /\ ToSet(s \o t) = ToSet(s) \cup ToSet(t)
            BY ONLY <5>1, Concatenating
          <5> QED
            BY <5>1, <5>2 DEF s, t
        <4>5. 1..(m + 1) = (1..m) \cup {m + 1}
          BY <3>2
        <4> QED
          BY <4>1, <4>4, <4>5
      <3> QED
        BY <3>1, <3>2
    <2> HIDE DEF S
    <2>7. S = Nat
      BY <2>5, <2>6, Induction DEF S
    <2>8. Good(n)
      BY <2>1, <2>7 DEF S
    <2> QED
      BY <2>1, <2>3, <2>8
  <1> QED
    BY <1>1, <1>2

-----------------------------------------------------------------------------
(* The entry points and the turn keep account of the queue.                *)

(* An event that is buffered.                                              *)
LEMMA Buffering ==
    ASSUME NEW n \in Nat, NEW s \in Observer(Upto(n)), NEW b, Accounted(s, b),
           NEW e \in Upto(n), e \notin s.pending,
           NEW t \in Observer(Upto(n)),
           t.pending = s.pending \cup {e}, t.buffer = Append(s.buffer, e),
           t.queued = s.queued + 1, t.chain = s.chain
    PROVE  Accounted(t, b)
  <1> DEFINE E == Upto(n)
             u == s.buffer
             v == t.buffer
  <1>1. u \in Seq(E) /\ e \in E /\ v = Append(u, e) /\ s.pending \in SUBSET E
    BY DEF Observer
  <1>2. IsFiniteSet(s.pending)
    <2>1. IsFiniteSet(E)
      BY FS_Interval DEF Upto
    <2> QED
      BY <1>1, <2>1, FS_Subset
  <1>3. t.queued = Cardinality(t.pending)
    BY <1>2, FS_AddElement DEF Accounted
  <1>4. Distinct(u) /\ ToSet(u) \subseteq s.pending
    BY DEF Accounted
  <1> HIDE DEF E, u, v
  <1>5. /\ Len(v) = Len(u) + 1 /\ DOMAIN v = 1..(Len(u) + 1) /\ DOMAIN u = 1..Len(u)
        /\ \A i \in 1..Len(u) : v[i] = u[i]
        /\ v[Len(u) + 1] = e /\ Len(u) \in Nat
    BY <1>1, AppendProperties
  <1>6. ToSet(v) = ToSet(u) \cup {e}
    BY <1>5 DEF ToSet
  <1>7. \A i \in DOMAIN u : u[i] # e
    BY <1>4 DEF ToSet
  <1>8. Distinct(v)
    <2> SUFFICES ASSUME NEW i \in DOMAIN v, NEW j \in DOMAIN v, v[i] = v[j] PROVE i = j
      BY DEF Distinct
    <2>1. (i \in DOMAIN u /\ v[i] = u[i]) \/ (i = Len(u) + 1 /\ v[i] = e)
      BY <1>5
    <2>2. (j \in DOMAIN u /\ v[j] = u[j]) \/ (j = Len(u) + 1 /\ v[j] = e)
      BY <1>5
    <2> QED
      BY <1>4, <1>7, <2>1, <2>2 DEF Distinct
  <1> DEFINE C == 1..Len(s.chain)
             B(i) == ToSet(s.chain[i].batch)
  <1>9. /\ Distinct(b) /\ ToSet(u) \cap ToSet(b) = {}
        /\ \A i \in C : Distinct(s.chain[i].batch) /\ B(i) \cap (ToSet(u) \cup ToSet(b)) = {}
                        /\ \A j \in C : i # j => B(i) \cap B(j) = {}
        /\ s.pending = ToSet(u) \cup ToSet(b) \cup UNION {B(i) : i \in C}
    BY DEF Accounted, u
  <1> HIDE DEF B, C
  <1>10. e \notin ToSet(b) /\ \A i \in C : e \notin B(i)
    BY <1>9
  <1>11. /\ ToSet(v) \cap ToSet(b) = {}
         /\ \A i \in C : B(i) \cap (ToSet(v) \cup ToSet(b)) = {}
         /\ t.pending = ToSet(v) \cup ToSet(b) \cup UNION {B(i) : i \in C}
    BY <1>6, <1>9, <1>10
  <1>12. t.chain = s.chain
    OBVIOUS
  <1> QED
    BY ONLY <1>3, <1>8, <1>9, <1>11, <1>12 DEF Accounted, B, C, v

(* A buffer that is scheduled.                                             *)
LEMMA Scheduling ==
    ASSUME NEW n \in Nat, NEW s \in Observer(Upto(n)), NEW b, Accounted(s, b),
           NEW sync \in BOOLEAN
    PROVE  Accounted(Drain(s, sync), b) /\ Drain(s, sync).queued = s.queued
  <1> DEFINE E == Upto(n)
             item == [batch |-> s.buffer, sync |-> sync]
             t == [s EXCEPT !.chain = Append(@, item), !.buffer = <<>>]
             c == s.chain
             d == t.chain
             u == s.buffer
  <1>1. c \in Seq(Drained(E)) /\ u \in Seq(E) /\ item \in Drained(E)
    BY DEF Observer, Drained
  <1>2. t.pending = s.pending /\ t.queued = s.queued /\ d = Append(c, item) /\ t.buffer = <<>>
    BY DEF Observer
  <1>3. item.batch = u
    OBVIOUS
  <1>4. Drain(s, sync) = s \/ Drain(s, sync) = t
    BY DEF Drain
  <1> DEFINE C == 1..Len(c)
             B(i) == ToSet(c[i].batch)
  <1>5. /\ Distinct(u) /\ Distinct(b) /\ ToSet(u) \cap ToSet(b) = {}
        /\ \A i \in C : Distinct(c[i].batch) /\ B(i) \cap (ToSet(u) \cup ToSet(b)) = {}
                        /\ \A j \in C : i # j => B(i) \cap B(j) = {}
        /\ s.pending = ToSet(u) \cup ToSet(b) \cup UNION {B(i) : i \in C}
        /\ s.queued = Cardinality(s.pending)
    BY DEF Accounted
  <1> HIDE DEF E, t, c, d, u, item, B
  <1>6. /\ Len(d) = Len(c) + 1 /\ Len(c) \in Nat
        /\ \A i \in 1..Len(c) : d[i] = c[i]
        /\ d[Len(c) + 1] = item
    BY <1>1, <1>2, AppendProperties
  <1> DEFINE F(i) == ToSet(d[i].batch)
  <1>7. \A i \in C : F(i) = B(i) /\ Distinct(d[i].batch)
    BY <1>5, <1>6 DEF B
  <1>8. F(Len(c) + 1) = ToSet(u) /\ Distinct(d[Len(c) + 1].batch)
    BY <1>3, <1>5, <1>6
  <1>9. ToSet(<<>>) = {} /\ Distinct(<<>>)
    BY DEF ToSet, Distinct
  <1> HIDE DEF F
  <1>10. 1..Len(d) = C \cup {Len(c) + 1} /\ Len(c) + 1 \notin C
    BY <1>6
  <1>11. \A i \in 1..Len(d) : F(i) \cap ToSet(b) = {}
                              /\ \A j \in 1..Len(d) : i # j => F(i) \cap F(j) = {}
    <2> HIDE DEF C
    <2> SUFFICES ASSUME NEW i \in C \cup {Len(c) + 1}
                 PROVE  /\ F(i) \cap ToSet(b) = {}
                        /\ \A j \in C \cup {Len(c) + 1} : i # j => F(i) \cap F(j) = {}
      BY <1>10
    <2>1. CASE i \in C
      BY <1>5, <1>7, <1>8, <2>1
    <2>2. CASE i = Len(c) + 1
      BY <1>5, <1>7, <1>8, <2>2
    <2> QED
      BY <2>1, <2>2
  <1>12. s.pending = ToSet(b) \cup UNION {F(i) : i \in 1..Len(d)}
    <2> HIDE DEF C
    <2>1. ASSUME NEW i \in 1..Len(d) PROVE F(i) \subseteq s.pending
      <3>1. CASE i \in C
        BY <1>5, <1>7, <3>1
      <3>2. CASE i = Len(c) + 1
        BY <1>5, <1>8, <3>2
      <3> QED
        BY <1>10, <3>1, <3>2
    <2>2. ToSet(u) \subseteq UNION {F(i) : i \in 1..Len(d)}
      BY <1>8, <1>10
    <2>3. ASSUME NEW i \in C PROVE B(i) \subseteq UNION {F(j) : j \in 1..Len(d)}
      BY <1>7, <1>10
    <2> QED
      BY <1>5, <2>1, <2>2, <2>3
  <1>13. \A i \in 1..Len(d) : Distinct(d[i].batch)
    BY <1>7, <1>8, <1>10
  <1>14. Accounted(t, b)
    BY <1>2, <1>5, <1>9, <1>11, <1>12, <1>13 DEF Accounted, F, d
  <1> QED
    BY <1>2, <1>4, <1>14

(* What does not touch the queue keeps its account.                        *)
LEMMA Keeping ==
    ASSUME NEW s, NEW t, NEW b, Accounted(s, b),
           t.buffer = s.buffer, t.chain = s.chain,
           t.pending = s.pending, t.queued = s.queued
    PROVE  Accounted(t, b)
  BY DEF Accounted

(* An event is queued only once and only while there is room.              *)
LEMMA Admitting ==
    ASSUME NEW n \in Nat, NEW s \in Observer(Upto(n)), NEW b, Len(b) \in Nat,
           Accounted(s, b), s.queued - Len(b) <= MaxBuffer, Len(s.buffer) < MaxBatch,
           NEW e \in Upto(n)
    PROVE  /\ Accounted(Observe(s, e), b) /\ Observe(s, e).queued - Len(b) <= MaxBuffer
           /\ Len(Observe(s, e).buffer) < MaxBatch
  <1> DEFINE E == Upto(n)
             d == [s EXCEPT !.dropped = @ \cup {e}, !.loss = TRUE]
             t == [s EXCEPT !.pending = @ \cup {e}, !.buffer = Append(@, e), !.queued = @ + 1]
  <1>1. s.queued \in Int /\ MaxBuffer \in Nat
    BY ObserverAssumption DEF Observer
  <1>2. /\ d.buffer = s.buffer /\ d.chain = s.chain /\ d.pending = s.pending
        /\ d.queued = s.queued
    BY DEF Observer
  <1>3. /\ t \in Observer(E) /\ t.pending = s.pending \cup {e}
        /\ t.buffer = Append(s.buffer, e) /\ t.queued = s.queued + 1 /\ t.chain = s.chain
    <2>1. Append(s.buffer, e) \in Seq(E) /\ s.queued + 1 \in Int /\ s.pending \cup {e} \in SUBSET E
      BY DEF Observer
    <2> QED
      BY <2>1 DEF Observer
  <1>4. \/ Observe(s, e) \in {s, d}
        \/ /\ e \notin s.pending /\ ~ (s.queued >= MaxBuffer)
           /\ Observe(s, e) = IF Len(t.buffer) >= MaxBatch THEN Drain(t, FALSE) ELSE t
    BY DEF Observe
  <1> HIDE DEF d, t
  <1>5. CASE Observe(s, e) \in {s, d}
    <2>1. Accounted(d, b)
      BY <1>2, Keeping
    <2> QED
      BY <1>2, <1>5, <2>1
  <1>6. CASE /\ e \notin s.pending /\ ~ (s.queued >= MaxBuffer)
             /\ Observe(s, e) = IF Len(t.buffer) >= MaxBatch THEN Drain(t, FALSE) ELSE t
    <2>1. Accounted(t, b)
      BY <1>3, <1>6, Buffering
    <2>2. t.queued - Len(b) <= MaxBuffer
      BY <1>1, <1>3, <1>6
    <2>3. Accounted(Drain(t, FALSE), b) /\ Drain(t, FALSE).queued = t.queued
      BY <1>3, <2>1, Scheduling
    <2>4. Len(Observe(s, e).buffer) < MaxBatch
      <3>1. t.buffer \in Seq(E) /\ Len(<<>>) = 0 /\ MaxBatch \in Nat \ {0}
        BY <1>3, ObserverAssumption DEF Observer
      <3>2. CASE Len(t.buffer) >= MaxBatch
        <4>1. t.buffer # <<>>
          BY <3>1, <3>2
        <4>2. Drain(t, FALSE).buffer = <<>>
          BY <1>3, <4>1 DEF Drain, Observer
        <4>3. Observe(s, e).buffer = <<>>
          BY <1>6, <3>2, <4>2
        <4> QED
          BY <3>1, <4>3
      <3>3. CASE ~ (Len(t.buffer) >= MaxBatch)
        <4>1. Observe(s, e) = t
          BY <1>6, <3>3
        <4>2. Len(t.buffer) \in Nat
          BY <3>1
        <4> QED
          BY <3>1, <3>3, <4>1, <4>2
      <3> QED
        BY <3>2, <3>3
    <2> QED
      BY <1>6, <2>1, <2>2, <2>3, <2>4
  <1> QED
    BY <1>4, <1>5, <1>6

(* So a session that is resumed fills the queue once.                      *)
LEMMA Resuming ==
    ASSUME session \in Nat
    PROVE  /\ Accounted(Backfill(Fresh), <<>>) /\ Backfill(Fresh).queued <= MaxBuffer
           /\ Len(Backfill(Fresh).buffer) < MaxBatch
  <1> DEFINE E == Upto(session)
             Good(s) == /\ s \in Observer(E) /\ Accounted(s, <<>>) /\ s.queued <= MaxBuffer
                        /\ Len(s.buffer) < MaxBatch
  <1>1. PICK after :
            /\ Backfill(Fresh) = after[session] /\ after[0] = Fresh
            /\ \A m \in 0..(session - 1) : after[m + 1] = Observe(after[m], m)
    BY BackfillSteps
  <1> DEFINE S == {m \in Nat : m \in 0..session => Good(after[m])}
  <1>2. 0 \in S
    <2>1. Fresh \in Observer(E)
      BY DEF Fresh, Observer
    <2>2. Accounted(Fresh, <<>>)
      <3>1. Distinct(<<>>) /\ ToSet(<<>>) = {}
        BY DEF Distinct, ToSet
      <3>2. 1..Len(Fresh.chain) = {} /\ Fresh.buffer = <<>> /\ Fresh.pending = {}
            /\ Fresh.queued = 0
        BY DEF Fresh
      <3> QED
        BY <3>1, <3>2, FS_EmptySet DEF Accounted
    <2>3. Fresh.queued <= MaxBuffer /\ Len(Fresh.buffer) < MaxBatch
      BY ObserverAssumption DEF Fresh
    <2> QED
      BY <1>1, <2>1, <2>2, <2>3
  <1>3. ASSUME NEW m \in S PROVE m + 1 \in S
    <2> SUFFICES ASSUME m + 1 \in 0..session PROVE Good(after[m + 1])
      OBVIOUS
    <2> DEFINE s == after[m]
    <2>1. m \in E /\ m \in 0..(session - 1) /\ Good(s)
      BY DEF Upto
    <2> HIDE DEF s
    <2>2. Observe(s, m) \in Observer(E)
      <3>1. Longer(s, Observe(s, m), E)
        <4> HIDE DEF E
        <4> QED
          BY <2>1, Observing
      <3> QED
        BY <3>1 DEF Longer
    <2>3. Len(<<>>) = 0 /\ s.queued - Len(<<>>) <= MaxBuffer
      BY <2>1 DEF Observer
    <2>4. /\ Accounted(Observe(s, m), <<>>) /\ Observe(s, m).queued - Len(<<>>) <= MaxBuffer
          /\ Len(Observe(s, m).buffer) < MaxBatch
      BY <2>1, <2>3, Admitting
    <2>5. Observe(s, m).queued <= MaxBuffer
      BY <2>2, <2>3, <2>4 DEF Observer
    <2>6. after[m + 1] = Observe(s, m)
      BY <1>1, <2>1 DEF s
    <2> QED
      BY <2>2, <2>4, <2>5, <2>6
  <1> HIDE DEF S, Good
  <1>4. S = Nat
    BY <1>2, <1>3, Induction DEF S
  <1>5. Good(after[session])
    BY <1>4 DEF S
  <1> QED
    BY <1>1, <1>5 DEF Good

(* A chunk is queued while it is ingested.                                 *)
LEMMA Chunked ==
    ASSUME NEW n \in Nat, NEW s \in Observer(Upto(n)), Accounted(s, <<>>),
           NEW c \in Seq(Upto(n)), Distinct(c), ToSet(c) \cap s.pending = {},
           NEW t, t.buffer = s.buffer, t.chain = s.chain,
           t.pending = s.pending \cup ToSet(c), t.queued = s.queued + Len(c)
    PROVE  Accounted(t, c)
  <1> DEFINE E == Upto(n)
             u == s.buffer
             C == 1..Len(s.chain)
             B(i) == ToSet(s.chain[i].batch)
  <1>1. IsFiniteSet(s.pending) /\ Cardinality(s.pending) \in Nat
    <2>1. IsFiniteSet(E)
      BY FS_Interval DEF Upto
    <2>2. s.pending \subseteq E
      BY DEF Observer
    <2> QED
      BY <2>1, <2>2, FS_Subset, FS_CardinalityType
  <1>2. IsFiniteSet(ToSet(c)) /\ Cardinality(ToSet(c)) = Len(c) /\ Len(c) \in Nat
    BY Counting
  <1>3. t.queued = Cardinality(t.pending)
    <2>1. Cardinality(s.pending \cap ToSet(c)) = 0
      <3>1. s.pending \cap ToSet(c) = {}
        OBVIOUS
      <3> QED
        BY <3>1, FS_EmptySet
    <2>2. Cardinality(s.pending \cup ToSet(c)) =
              Cardinality(s.pending) + Cardinality(ToSet(c)) - Cardinality(s.pending \cap ToSet(c))
      BY <1>1, <1>2, FS_Union
    <2>3. s.queued = Cardinality(s.pending)
      BY DEF Accounted
    <2>4. Cardinality(s.pending \cup ToSet(c)) = s.queued + Len(c)
      BY <1>1, <1>2, <2>1, <2>2, <2>3
    <2> QED
      BY <2>4
  <1>4. /\ Distinct(u)
        /\ \A i \in C : Distinct(s.chain[i].batch) /\ B(i) \cap ToSet(u) = {}
                        /\ \A j \in C : i # j => B(i) \cap B(j) = {}
        /\ s.pending = ToSet(u) \cup UNION {B(i) : i \in C}
    <2>1. ToSet(<<>>) = {}
      BY DEF ToSet
    <2> QED
      BY <2>1 DEF Accounted
  <1> HIDE DEF u, C, B
  <1>5. /\ ToSet(u) \cap ToSet(c) = {}
        /\ \A i \in C : B(i) \cap (ToSet(u) \cup ToSet(c)) = {}
        /\ t.pending = ToSet(u) \cup ToSet(c) \cup UNION {B(i) : i \in C}
    BY <1>4
  <1>6. t.buffer = u /\ t.chain = s.chain /\ Distinct(c)
    BY DEF u
  <1> QED
    BY ONLY <1>3, <1>4, <1>5, <1>6 DEF Accounted, B, C

(* A chunk that was ingested or lost is not queued any more.               *)
LEMMA Unchunked ==
    ASSUME NEW n \in Nat, NEW s \in Observer(Upto(n)), NEW b \in Seq(Upto(n)),
           Accounted(s, b),
           NEW t, t.buffer = s.buffer, t.chain = s.chain,
           t.pending = s.pending \ ToSet(b), t.queued = s.queued - Len(b)
    PROVE  Accounted(t, <<>>)
  <1> DEFINE E == Upto(n)
             u == s.buffer
             C == 1..Len(s.chain)
             B(i) == ToSet(s.chain[i].batch)
  <1>1. /\ Distinct(u) /\ Distinct(b) /\ ToSet(u) \cap ToSet(b) = {}
        /\ \A i \in C : Distinct(s.chain[i].batch) /\ B(i) \cap (ToSet(u) \cup ToSet(b)) = {}
                        /\ \A j \in C : i # j => B(i) \cap B(j) = {}
        /\ s.pending = ToSet(u) \cup ToSet(b) \cup UNION {B(i) : i \in C}
        /\ s.queued = Cardinality(s.pending)
    BY DEF Accounted
  <1>2. IsFiniteSet(s.pending)
    <2>1. IsFiniteSet(E)
      BY FS_Interval DEF Upto
    <2>2. s.pending \subseteq E
      BY DEF Observer
    <2> QED
      BY <2>1, <2>2, FS_Subset
  <1>3. Cardinality(ToSet(b)) = Len(b)
    BY <1>1, Counting
  <1> HIDE DEF u, C, B
  <1>4. t.queued = Cardinality(t.pending)
    <2>1. s.pending \cap ToSet(b) = ToSet(b)
      BY <1>1
    <2>2. Cardinality(s.pending \ ToSet(b)) =
              Cardinality(s.pending) - Cardinality(s.pending \cap ToSet(b))
      BY <1>2, FS_Difference
    <2> QED
      BY <1>1, <1>3, <2>1, <2>2
  <1>5. ToSet(<<>>) = {} /\ Distinct(<<>>)
    BY DEF ToSet, Distinct
  <1>6. t.pending = ToSet(u) \cup UNION {B(i) : i \in C}
    BY <1>1
  <1>7. t.buffer = u /\ t.chain = s.chain
    BY DEF u
  <1> QED
    BY ONLY <1>1, <1>4, <1>5, <1>6, <1>7 DEF Accounted, B, C

(* A batch that was ingested or lost is not queued any more.               *)
LEMMA Unbatched ==
    ASSUME NEW n \in Nat, NEW s \in Observer(Upto(n)), NEW b, Accounted(s, b),
           s.chain # <<>>,
           NEW t, t.buffer = s.buffer,
           t.pending = s.pending \ ToSet(Head(s.chain).batch),
           t.queued = s.queued - Len(Head(s.chain).batch),
           \/ t.chain = Tail(s.chain)
           \/ t.chain = <<[Head(s.chain) EXCEPT !.batch = <<>>]>> \o Tail(s.chain)
    PROVE  Accounted(t, b)
  <1> DEFINE E == Upto(n)
             u == s.buffer
             c == s.chain
             d == t.chain
             h == Head(c)
             C == 1..Len(c)
             B(i) == ToSet(c[i].batch)
             F(i) == ToSet(d[i].batch)
  <1>1. /\ Distinct(u) /\ Distinct(b) /\ ToSet(u) \cap ToSet(b) = {}
        /\ \A i \in C : Distinct(c[i].batch) /\ B(i) \cap (ToSet(u) \cup ToSet(b)) = {}
                        /\ \A j \in C : i # j => B(i) \cap B(j) = {}
        /\ s.pending = ToSet(u) \cup ToSet(b) \cup UNION {B(i) : i \in C}
        /\ s.queued = Cardinality(s.pending)
    BY DEF Accounted
  <1>2. c \in Seq(Drained(E)) /\ c # <<>> /\ s.pending \subseteq E
    BY DEF Observer
  <1>3. IsFiniteSet(s.pending)
    <2>1. IsFiniteSet(E)
      BY FS_Interval DEF Upto
    <2> QED
      BY <1>2, <2>1, FS_Subset
  <1> HIDE DEF E, u, c, d, h, B, F
  <1>4. /\ h \in Drained(E) /\ h = c[1] /\ Len(c) \in Nat \ {0}
        /\ Tail(c) \in Seq(Drained(E)) /\ Len(Tail(c)) = Len(c) - 1
        /\ \A i \in 1..(Len(c) - 1) : Tail(c)[i] = c[i + 1]
    BY <1>2, Beheading DEF h
  <1>5. 1 \in C /\ h.batch \in Seq(E) /\ Distinct(h.batch) /\ ToSet(h.batch) = B(1)
    <2>1. 1 \in C /\ h.batch \in Seq(E)
      BY <1>4 DEF Drained
    <2>2. B(1) = ToSet(h.batch)
      BY <1>4 DEF B
    <2> QED
      BY <1>1, <1>4, <2>1, <2>2
  <1>6. t.queued = Cardinality(t.pending)
    <2>1. s.pending \cap ToSet(h.batch) = ToSet(h.batch)
      BY <1>1, <1>5
    <2>2. Cardinality(s.pending \ ToSet(h.batch)) =
              Cardinality(s.pending) - Cardinality(s.pending \cap ToSet(h.batch))
      BY <1>3, FS_Difference
    <2>3. Cardinality(ToSet(h.batch)) = Len(h.batch)
      BY <1>5, Counting
    <2> QED
      BY <1>1, <2>1, <2>2, <2>3 DEF h, c
  <1>7. t.pending = ToSet(u) \cup ToSet(b) \cup UNION {B(i) : i \in 2..Len(c)}
    <2>1. t.pending = s.pending \ B(1)
      BY <1>5 DEF h, c
    <2>2. C = {1} \cup 2..Len(c) /\ 1 \notin 2..Len(c)
      BY <1>4
    <2> HIDE DEF C
    <2>3. \A i \in 2..Len(c) : B(i) \cap B(1) = {}
      BY <1>1, <1>5, <2>2
    <2> QED
      BY <1>1, <1>5, <2>1, <2>2, <2>3
  <1>8. CASE d = Tail(c)
    <2>1. \A i \in 1..Len(d) : i + 1 \in 2..Len(c) /\ i + 1 \in C /\ d[i] = c[i + 1]
                               /\ F(i) = B(i + 1)
      BY <1>4, <1>8 DEF F, B
    <2>2. \A i \in 2..Len(c) : i - 1 \in 1..Len(d) /\ (i - 1) + 1 = i
      BY <1>4, <1>8
    <2>3. UNION {B(i) : i \in 2..Len(c)} = UNION {F(i) : i \in 1..Len(d)}
      <3>1. ASSUME NEW i \in 2..Len(c) PROVE B(i) \subseteq UNION {F(j) : j \in 1..Len(d)}
        <4>1. i - 1 \in 1..Len(d) /\ B(i) = F(i - 1)
          BY <2>1, <2>2
        <4> QED
          BY <4>1
      <3>2. ASSUME NEW i \in 1..Len(d) PROVE F(i) \subseteq UNION {B(j) : j \in 2..Len(c)}
        BY <2>1
      <3> QED
        BY <3>1, <3>2
    <2>4. \A i \in 1..Len(d) : Distinct(d[i].batch) /\ F(i) \cap (ToSet(u) \cup ToSet(b)) = {}
      BY <1>1, <2>1
    <2>5. \A i, j \in 1..Len(d) : i # j => F(i) \cap F(j) = {}
      <3>1. \A i, j \in 1..Len(d) : i # j => i + 1 # j + 1
        OBVIOUS
      <3> QED
        BY <1>1, <2>1, <3>1
    <2>6. t.buffer = u
      BY DEF u
    <2> QED
      BY ONLY <1>1, <1>6, <1>7, <2>3, <2>4, <2>5, <2>6 DEF Accounted, F, d
  <1>9. CASE d = <<[h EXCEPT !.batch = <<>>]>> \o Tail(c)
    <2> DEFINE item == [h EXCEPT !.batch = <<>>]
    <2>1. item \in Drained(E) /\ item.batch = <<>>
      <3>1. <<>> \in Seq(E)
        OBVIOUS
      <3> QED
        BY <1>4, <3>1 DEF Drained
    <2> HIDE DEF item
    <2>2. Len(d) = Len(c) /\ d[1] = item /\ \A i \in 2..Len(c) : d[i] = c[i]
      BY <1>2, <1>9, <2>1, Reheading DEF item
    <2>3. ToSet(<<>>) = {} /\ Distinct(<<>>)
      BY DEF ToSet, Distinct
    <2>4. F(1) = {} /\ Distinct(d[1].batch)
      BY <2>1, <2>2, <2>3 DEF F
    <2>5. \A i \in 2..Len(c) : i \in C /\ F(i) = B(i) /\ d[i] = c[i]
      BY <2>2 DEF F, B
    <2>6. 1..Len(d) = {1} \cup 2..Len(c)
      BY <1>4, <2>2
    <2>7. UNION {B(i) : i \in 2..Len(c)} = UNION {F(i) : i \in 1..Len(d)}
      BY <2>4, <2>5, <2>6
    <2>8. \A i \in 1..Len(d) : Distinct(d[i].batch) /\ F(i) \cap (ToSet(u) \cup ToSet(b)) = {}
      BY <1>1, <2>4, <2>5, <2>6
    <2>9. \A i, j \in 1..Len(d) : i # j => F(i) \cap F(j) = {}
      BY <1>1, <2>4, <2>5, <2>6
    <2>10. t.buffer = u
      BY DEF u
    <2> QED
      BY ONLY <1>1, <1>6, <1>7, <2>7, <2>8, <2>9, <2>10 DEF Accounted, F, d
  <1> QED
    BY <1>8, <1>9 DEF h, c, d

(* At first nothing is queued.                                             *)
LEMMA QueueInitially ==
    Init => QueueInv
  <1> SUFFICES ASSUME Init PROVE QueueInv
    OBVIOUS
  <1>1. state = Fresh /\ at = "idle" /\ batch = <<>> /\ call = "none"
    BY DEF Init
  <1>2. Accounted(Fresh, <<>>)
    <2>1. Distinct(<<>>) /\ ToSet(<<>>) = {}
      BY DEF Distinct, ToSet
    <2>2. /\ 1..Len(Fresh.chain) = {} /\ Fresh.buffer = <<>> /\ Fresh.pending = {}
          /\ Fresh.queued = 0
      BY DEF Fresh
    <2> QED
      BY <2>1, <2>2, FS_EmptySet DEF Accounted
  <1>3. Fresh.queued - Len(<<>>) <= MaxBuffer /\ Len(<<>>) <= MaxBatch
        /\ Len(Fresh.buffer) < MaxBatch
    BY ObserverAssumption DEF Fresh
  <1> QED
    BY <1>1, <1>2, <1>3 DEF QueueInv

(* Emit, Flush and Dispose.                                                *)
LEMMA QueueEntering ==
    ASSUME IInv, IInv', QueueInv, Emit \/ Flush \/ Dispose
    PROVE  QueueInv'
  <1> DEFINE E == Upto(session')
  <1>1. /\ session \in Nat /\ session' \in Nat /\ batch \in Seq(Upto(session))
        /\ state \in Observer(Upto(session)) /\ state.queued \in Int
        /\ state.chain \in Seq(Drained(Upto(session)))
    BY ObserverAssumption DEF IInv, TypeInv, Observer
  <1>2. UNCHANGED <<at, batch, call>>
    BY DEF Emit, Flush, Dispose
  <1>3. state \in Observer(E)
    <2>1. session <= session'
      <3>1. session' = session \/ session' = session + 1
        BY DEF Emit, Flush, Dispose
      <3> QED
        BY <1>1, <3>1
    <2>2. Upto(session) \subseteq E
      BY <1>1, <2>1, UptoGrows
    <2> QED
      BY <1>1, <2>2, ObserverGrows
  <1>4. Len(batch) \in Nat /\ Accounted(state, batch) /\ state.queued - Len(batch) <= MaxBuffer
        /\ Len(state.buffer) < MaxBatch
    BY <1>1 DEF QueueInv
  <1>5. \/ state' = state
        \/ state' = Observe(state, session) /\ session \in E
        \/ state' = Drain(state, TRUE)
    <2>1. CASE Emit
      <3>1. session \in E
        BY <1>1, <2>1 DEF Emit, Upto
      <3> QED
        BY <2>1, <3>1 DEF Emit
    <2>2. CASE Flush \/ Dispose
      BY <2>2 DEF Flush, Dispose
    <2> QED
      BY <2>1, <2>2
  <1>6. Longer(state, state', E)
    <2> HIDE DEF E
    <2>1. Longer(state, state, E)
      BY <1>3 DEF Longer
    <2>2. session \in E => Longer(state, Observe(state, session), E)
      BY <1>3, Observing
    <2>3. Longer(state, Drain(state, TRUE), E)
      BY <1>3, Draining
    <2> QED
      BY <1>5, <2>1, <2>2, <2>3
  <1>7. Accounted(state', batch) /\ state'.queued - Len(batch) <= MaxBuffer
        /\ Len(state'.buffer) < MaxBatch
    <2>1. session \in E => /\ Accounted(Observe(state, session), batch)
                           /\ Observe(state, session).queued - Len(batch) <= MaxBuffer
                           /\ Len(Observe(state, session).buffer) < MaxBatch
      BY <1>1, <1>3, <1>4, Admitting
    <2>2. Accounted(Drain(state, TRUE), batch) /\ Drain(state, TRUE).queued = state.queued
      BY <1>1, <1>3, <1>4, Scheduling
    <2>3. Len(Drain(state, TRUE).buffer) < MaxBatch
      <3>1. Drain(state, TRUE).buffer = <<>>
        BY <1>3 DEF Drain, Observer
      <3>2. Len(<<>>) = 0 /\ 0 < MaxBatch
        BY ObserverAssumption
      <3> QED
        BY <3>1, <3>2
    <2> QED
      BY <1>4, <1>5, <2>1, <2>2, <2>3
  <1>8. at # "idle" => Item' = Item
    <2>1. at # "idle" => state.chain # <<>>
      BY DEF IInv, CallInv
    <2>2. state.chain \in Seq(Drained(E))
      BY <1>3 DEF Observer
    <2> HIDE DEF E
    <2>3. \A item \in Drained(E) : state.chain # <<>> =>
              Head(Append(state.chain, item)) = Head(state.chain)
      BY <2>2, Appending
    <2> QED
      BY <1>6, <2>1, <2>3 DEF Item, Longer
  <1> QED
    BY <1>2, <1>7, <1>8 DEF QueueInv

(* Load: only what is in the log is queued.                                *)
LEMMA QueueLoad ==
    ASSUME IInv, Load
    PROVE  QueueInv'
  <1>1. /\ state' = Backfill(Fresh) /\ at' = "idle" /\ batch' = <<>> /\ call' = "none"
        /\ session \in Nat
    BY ObserverAssumption DEF Load, IInv, TypeInv
  <1>2. Accounted(Backfill(Fresh), <<>>) /\ Backfill(Fresh).queued <= MaxBuffer
        /\ Backfill(Fresh).queued \in Int /\ Len(Backfill(Fresh).buffer) < MaxBatch
    BY <1>1, Resuming, Backfilling DEF Observer
  <1>3. Len(<<>>) = 0 /\ 0 <= MaxBatch
    BY ObserverAssumption
  <1> QED
    BY <1>1, <1>2, <1>3 DEF QueueInv

(* StartDrain: without a batch the drain reconciles at once.               *)
LEMMA QueueStart ==
    ASSUME IInv, QueueInv, StartDrain
    PROVE  QueueInv'
  <1>1. /\ state' = state /\ batch' = batch /\ call = "none"
        /\ at' = "batch" \/ (at' = "reconcile" /\ Item.batch = <<>>)
    BY DEF StartDrain, Running
  <1>2. batch = <<>>
    BY <1>1 DEF QueueInv
  <1> QED
    BY <1>1, <1>2 DEF QueueInv, Item

(* Reconcile: the chunk is queued on top of what is.                       *)
LEMMA QueueReconcile ==
    ASSUME IInv, QueueInv, Reconcile
    PROVE  QueueInv'
  <1>1. /\ call = "none" /\ at = "reconcile" /\ state.chain # <<>>
        /\ at' \in {"reconcile", "check"}
    BY DEF Reconcile, Running
  <1>2. batch = <<>> /\ Item.batch = <<>> /\ state.queued - Len(<<>>) <= MaxBuffer
    BY <1>1 DEF QueueInv
  <1>3. CASE Chunk = <<>>
    <2>1. state' = state /\ batch' = batch /\ call' = call
      BY <1>3 DEF Reconcile
    <2> QED
      BY <1>1, <1>2, <2>1 DEF QueueInv, Item
  <1>4. CASE Chunk # <<>>
    <2> DEFINE c == Chunk
    <2>1. session \in Nat /\ state \in Observer(Upto(session)) /\ state.queued \in Int
      BY <1>1, Heading DEF Observer
    <2>2. /\ c \in Seq(Upto(session)) /\ Len(c) <= MaxBatch /\ Distinct(c)
          /\ ToSet(c) \cap state.pending = {}
      BY <2>1, Chunking, ObserverAssumption
    <2>3. /\ batch' = c
          /\ state' = [state EXCEPT !.pending = @ \cup ToSet(c), !.queued = @ + Len(c)]
      BY <1>4 DEF Reconcile
    <2>4. call' # "none"
      BY <1>4 DEF Reconcile, Send
    <2> HIDE DEF c
    <2>5. /\ state'.buffer = state.buffer /\ state'.chain = state.chain
          /\ state'.pending = state.pending \cup ToSet(c)
          /\ state'.queued = state.queued + Len(c)
      BY <2>1, <2>3 DEF Observer
    <2>6. Accounted(state', c)
      <3>1. Accounted(state, <<>>)
        BY <1>2 DEF QueueInv
      <3> QED
        BY <2>1, <2>2, <2>5, <3>1, Chunked
    <2>7. state'.queued - Len(c) <= MaxBuffer
      <3>1. Len(c) \in Nat /\ Len(<<>>) = 0
        BY <2>2
      <3> QED
        BY <1>2, <2>1, <2>5, <3>1
    <2>8. Item' = Item
      BY <2>5 DEF Item
    <2> QED
      BY <1>1, <1>2, <2>2, <2>3, <2>4, <2>6, <2>7, <2>8 DEF QueueInv
  <1> QED
    BY <1>3, <1>4

(* Check and SyncDone: the drain that ends holds no batch.                 *)
LEMMA QueueChecked ==
    ASSUME IInv, QueueInv, Check \/ SyncDone
    PROVE  QueueInv'
  <1> DEFINE E == Upto(session)
  <1>1. /\ state.chain # <<>> /\ at \in {"check", "sync"} /\ batch' = batch
        /\ at = "check" => call = "none"
    BY DEF Check, SyncDone, Running, Answered, IInv, CallInv
  <1>2. batch = <<>> /\ Item.batch = <<>>
    BY <1>1 DEF QueueInv
  <1>3. session \in Nat /\ state \in Observer(E)
    BY <1>1, Heading
  <1>4. CASE state' = state /\ at' = "sync"
    BY <1>1, <1>2, <1>4 DEF QueueInv, Item
  <1>5. ASSUME NEW s, s \in {[state EXCEPT !.loss = TRUE], Synced(state)}, EndDrain(s)
        PROVE  QueueInv'
    <2>1. /\ s \in Observer(E) /\ s.chain = state.chain /\ s.buffer = state.buffer
          /\ s.pending = state.pending /\ s.queued = state.queued
      BY <1>3, <1>5 DEF Synced, Observer
    <2>2. /\ at' \in {"idle", "start"} /\ state'.chain = Tail(s.chain)
          /\ state'.pending = s.pending /\ state'.queued = s.queued
          /\ state'.buffer = s.buffer
      <3> HIDE DEF E
      <3> QED
        BY <1>1, <1>5, <2>1, Ending
    <2>3. Len(Head(state.chain).batch) = 0 /\ ToSet(Head(state.chain).batch) = {}
      BY <1>2 DEF Item, ToSet
    <2>4. state.queued \in Int
      BY <1>3 DEF Observer
    <2>5. /\ state'.pending = state.pending \ ToSet(Head(state.chain).batch)
          /\ state'.queued = state.queued - Len(Head(state.chain).batch)
      BY <2>1, <2>2, <2>3, <2>4
    <2>6. Accounted(state', batch)
      <3>1. Accounted(state, batch) /\ state'.buffer = state.buffer
            /\ state'.chain = Tail(state.chain)
        BY <2>1, <2>2 DEF QueueInv
      <3> QED
        BY <1>1, <1>3, <2>5, <3>1, Unbatched
    <2> QED
      BY <1>1, <1>2, <2>1, <2>2, <2>6 DEF QueueInv
  <1>6. (state' = state /\ at' = "sync") \/ EndDrain([state EXCEPT !.loss = TRUE])
        \/ EndDrain(Synced(state))
    BY DEF Check, SyncDone
  <1> QED
    BY <1>4, <1>5, <1>6

(* BatchDone: the batch leaves the queue.                                  *)
LEMMA QueueBatchDone ==
    ASSUME IInv, QueueInv, BatchDone
    PROVE  QueueInv'
  <1> DEFINE E == Upto(session)
             h == Head(state.chain)
             s == Ingested(state, h.batch)
             item == [h EXCEPT !.batch = <<>>]
  <1>1. at = "batch" /\ state.chain # <<>> /\ batch' = batch /\ batch = <<>>
    BY DEF BatchDone, Answered, IInv, CallInv, QueueInv
  <1>2. /\ session \in Nat /\ state \in Observer(E) /\ h \in Drained(E)
        /\ h.batch \in Seq(E) /\ state.queued \in Int
    BY <1>1, Heading DEF Observer, Item
  <1>3. /\ s \in Observer(E) /\ s.chain = state.chain /\ s.buffer = state.buffer
        /\ s.pending = state.pending \ ToSet(h.batch)
        /\ s.queued = state.queued - Len(h.batch)
    <2> DEFINE events == h.batch
    <2>1. events \in Seq(E) /\ state \in Observer(E)
      BY <1>2
    <2> HIDE DEF events, E
    <2>2. /\ Ingested(state, events) \in Observer(E)
          /\ Ingested(state, events).chain = state.chain
          /\ Unqueued(state, events, Ingested(state, events))
      BY ONLY <2>1, Ingesting
    <2> QED
      BY <2>2 DEF events, Unqueued
  <1>4. \/ /\ state' = [s EXCEPT !.chain = <<item>> \o Tail(@)]
           /\ at' = "reconcile"
        \/ EndDrain(s)
    BY DEF BatchDone, Item
  <1> HIDE DEF s
  <1>5. /\ state'.buffer = state.buffer /\ state'.pending = s.pending
        /\ state'.queued = s.queued
        /\ \/ state'.chain = Tail(state.chain) /\ at' \in {"idle", "start"}
           \/ state'.chain = <<item>> \o Tail(state.chain) /\ at' = "reconcile"
    <2>1. CASE EndDrain(s)
      <3> HIDE DEF E
      <3> QED
        BY <1>1, <1>3, <2>1, Ending
    <2>2. CASE /\ state' = [s EXCEPT !.chain = <<item>> \o Tail(@)]
               /\ at' = "reconcile"
      BY <1>3, <2>2 DEF Observer
    <2> QED
      BY <1>4, <2>1, <2>2
  <1>6. Accounted(state', batch)
    <2>1. /\ Accounted(state, batch)
          /\ state'.pending = state.pending \ ToSet(h.batch)
          /\ state'.queued = state.queued - Len(h.batch)
          /\ state'.chain = Tail(state.chain) \/ state'.chain = <<item>> \o Tail(state.chain)
      BY <1>3, <1>5 DEF QueueInv
    <2> QED
      BY <1>1, <1>2, <1>5, <2>1, Unbatched
  <1>7. state'.queued - Len(batch) <= MaxBuffer
    <2>1. Len(h.batch) \in Nat /\ Len(batch) = 0 /\ MaxBuffer \in Nat
      BY <1>1, <1>2, ObserverAssumption
    <2>2. state.queued - Len(batch) <= MaxBuffer
      BY DEF QueueInv
    <2> QED
      BY <1>2, <1>3, <1>5, <2>1, <2>2
  <1>8. at' = "reconcile" => Item'.batch = <<>>
    <2>1. item \in Drained(E) /\ item.batch = <<>>
      <3>1. <<>> \in Seq(E)
        OBVIOUS
      <3> QED
        BY <1>2, <3>1 DEF Drained
    <2>2. state.chain \in Seq(Drained(E))
      BY <1>2 DEF Observer
    <2> HIDE DEF item, E
    <2>3. Head(<<item>> \o Tail(state.chain)) = item
      BY <1>1, <2>1, <2>2, Reheading
    <2> QED
      BY <1>5, <2>1, <2>3 DEF Item
  <1>9. Len(state'.buffer) < MaxBatch
    BY <1>5 DEF QueueInv
  <1> QED
    BY <1>1, <1>5, <1>6, <1>7, <1>8, <1>9 DEF QueueInv

(* ChunkDone: the chunk leaves the queue.                                  *)
LEMMA QueueChunkDone ==
    ASSUME IInv, QueueInv, ChunkDone
    PROVE  QueueInv'
  <1> DEFINE E == Upto(session)
  <1>1. /\ at \in {"reconcile", "check"} /\ at' = at /\ batch' = <<>> /\ state.chain # <<>>
        /\ state' = Ingested(state, batch)
    BY DEF ChunkDone, Answered, IInv, CallInv
  <1>2. session \in Nat /\ state \in Observer(E) /\ batch \in Seq(E) /\ state.queued \in Int
    BY <1>1, Heading DEF Observer
  <1>3. /\ state'.chain = state.chain /\ state'.buffer = state.buffer
        /\ state'.pending = state.pending \ ToSet(batch)
        /\ state'.queued = state.queued - Len(batch)
    <2> HIDE DEF E
    <2>1. /\ Ingested(state, batch).chain = state.chain
          /\ Unqueued(state, batch, Ingested(state, batch))
      BY ONLY <1>2, Ingesting
    <2> QED
      BY <1>1, <2>1 DEF Unqueued
  <1>4. Accounted(state', <<>>)
    BY <1>2, <1>3, Unchunked DEF QueueInv
  <1>5. state'.queued - Len(<<>>) <= MaxBuffer /\ Len(<<>>) <= MaxBatch
    <2>1. Len(batch) \in Nat /\ Len(<<>>) = 0 /\ 0 <= MaxBatch
      BY <1>2, ObserverAssumption
    <2>2. state.queued - Len(batch) <= MaxBuffer
      BY DEF QueueInv
    <2> QED
      BY <1>2, <1>3, <2>1, <2>2
  <1>6. Item' = Item
    BY <1>3 DEF Item
  <1> QED
    BY <1>1, <1>3, <1>4, <1>5, <1>6 DEF QueueInv

(* QueueInv holds in every state.                                          *)
LEMMA QueueInvariant == Spec => []QueueInv
  <1>1. IInv /\ IInv' /\ QueueInv /\ [Next]_vars => QueueInv'
    <2> SUFFICES ASSUME IInv, IInv', QueueInv, [Next]_vars PROVE QueueInv'
      OBVIOUS
    <2>1. CASE Emit \/ Flush \/ Dispose
      BY <2>1, QueueEntering
    <2>2. CASE Load
      BY <2>2, QueueLoad
    <2>3. CASE Turn
      BY <2>3, QueueStart, QueueReconcile, QueueChecked, QueueBatchDone, QueueChunkDone
      DEF Turn
    <2>4. CASE Serve \/ Timeout \/ ChildStops \/ UNCHANGED vars
      <3>1. state' = state /\ at' = at /\ batch' = batch
        BY <2>4 DEF Serve, ServeIngest, ServeSync, Timeout, ChildStops, vars, plugin
      <3>2. call' = "none" <=> call = "none"
        BY <2>4 DEF Serve, ServeIngest, ServeSync, Reply, Timeout, ChildStops, Fail,
           vars, plugin
      <3> QED
        BY <3>1, <3>2 DEF QueueInv, Item
    <2> QED
      BY <2>1, <2>2, <2>3, <2>4 DEF Next
  <1> QED
    BY QueueInitially, Invariant, <1>1, PTL DEF Spec

(* TypeOK holds in every state; the buffer never holds a full batch.       *)
THEOREM TypeCorrect == Spec => []TypeOK
  <1>1. IInv /\ QueueInv => TypeOK
    <2> SUFFICES ASSUME IInv, QueueInv PROVE TypeOK
      OBVIOUS
    <2> DEFINE E == Upto(session)
    <2>1. session \in 0..MaxEvents /\ next \in 0..session /\ MaxEvents \in Nat
      BY ObserverAssumption DEF IInv, TypeInv
    <2>2. E \subseteq Event /\ next \in 0..MaxEvents
      BY <2>1 DEF Upto, Event
    <2>3. /\ inbox \in SUBSET Seq(E) /\ torn \in SUBSET Seq(E)
          /\ refs \in SUBSET SUBSET E /\ tornRefs \in SUBSET SUBSET E
          /\ state \in Observer(E) /\ batch \in Seq(E) /\ wire \in Seq(Message(E))
      BY DEF IInv, TypeInv
    <2>4. state.queued \in Nat
      <3>1. IsFiniteSet(E)
        BY <2>1, FS_Interval DEF Upto
      <3>2. state.pending \subseteq E
        BY <2>3 DEF Observer
      <3>3. Cardinality(state.pending) \in Nat
        BY <3>1, <3>2, FS_Subset, FS_CardinalityType
      <3> QED
        BY <3>3 DEF QueueInv, Accounted
    <2> HIDE DEF E
    <2>5. state \in Observer(Event) /\ Message(E) \subseteq Message(Event)
          /\ Seq(E) \subseteq Seq(Event)
      BY <2>2, <2>3, ObserverGrows, SeqGrows
    <2>6. /\ inbox \in SUBSET Seq(Event) /\ torn \in SUBSET Seq(Event)
          /\ refs \in SUBSET SUBSET Event /\ tornRefs \in SUBSET SUBSET Event
          /\ batch \in Seq(Event)
      BY <2>2, <2>3, <2>5
    <2>7. wire \in Seq(Message(Event))
      BY <2>3, <2>5, SeqGrows
    <2>8. /\ state.seen \in SUBSET Event /\ state.pending \in SUBSET Event
          /\ state.dropped \in SUBSET Event /\ state.loss \in BOOLEAN
          /\ state.buffer \in Seq(Event)
          /\ state.chain \in Seq([batch : Seq(Event), sync : BOOLEAN])
      BY <2>5 DEF Observer, Drained
    <2>9. /\ at \in {"idle", "start", "batch", "reconcile", "check", "sync"}
          /\ call \in {"none", "open", "accepted", "verified", "incomplete", "failed"}
          /\ disposing \in BOOLEAN /\ faults \in 0..MaxFaults
      BY DEF IInv, TypeInv
    <2>10. Len(state.buffer) < MaxBatch
      BY DEF QueueInv
    <2>11. wire \in Seq([kind : {"ingest", "sync"}, batch : Seq(Event)])
      BY <2>7 DEF Message
    <2> QED
      BY <2>1, <2>2, <2>4, <2>6, <2>8, <2>9, <2>10, <2>11 DEF TypeOK
  <1> QED
    BY Invariant, QueueInvariant, <1>1, PTL

(* The memory bound (README of the plugin, :5-8; observer.ts:70-78): the   *)
(* count is exactly what is buffered, scheduled or in flight, each event   *)
(* once, and exceeds the buffer by one batch at most.                      *)
THEOREM QueueAccountsHold == Spec => []QueueAccounts
  <1>1. IInv /\ QueueInv => QueueAccounts
    <2> SUFFICES ASSUME IInv, QueueInv PROVE QueueAccounts
      OBVIOUS
    <2> DEFINE E == Upto(session)
               c == state.chain
               seqs == [i \in DOMAIN c |-> c[i].batch]
               flat == FlattenSeq(seqs)
               u == state.buffer
    <2>1. /\ u \in Seq(E) /\ batch \in Seq(E) /\ c \in Seq(Drained(E))
          /\ state.queued \in Int
      BY DEF IInv, TypeInv, Observer
    <2>2. /\ Distinct(u) /\ Distinct(batch) /\ ToSet(u) \cap ToSet(batch) = {}
          /\ \A i \in 1..Len(c) :
                /\ Distinct(c[i].batch)
                /\ ToSet(c[i].batch) \cap (ToSet(u) \cup ToSet(batch)) = {}
                /\ \A j \in 1..Len(c) : i # j => ToSet(c[i].batch) \cap ToSet(c[j].batch) = {}
          /\ state.pending = ToSet(u) \cup ToSet(batch)
                             \cup UNION {ToSet(c[i].batch) : i \in 1..Len(c)}
          /\ state.queued = Cardinality(state.pending)
      BY DEF QueueInv, Accounted
    <2> HIDE DEF E, c, u
    <2>3. /\ Len(c) \in Nat /\ DOMAIN c = 1..Len(c)
          /\ \A i \in 1..Len(c) : c[i].batch \in Seq(E)
      <3> DEFINE D == Drained(E)
      <3>1. \A d \in D : d.batch \in Seq(E)
        BY DEF Drained
      <3> HIDE DEF D
      <3>2. Len(c) \in Nat /\ DOMAIN c = 1..Len(c) /\ \A i \in 1..Len(c) : c[i] \in D
        BY <2>1 DEF D
      <3> QED
        BY <3>1, <3>2
    <2>4. /\ seqs \in Seq(Seq(E)) /\ Len(seqs) = Len(c)
          /\ \A i \in 1..Len(c) : seqs[i] = c[i].batch
      <3>1. seqs \in [1..Len(c) -> Seq(E)] /\ \A i \in 1..Len(c) : seqs[i] = c[i].batch
        BY <2>3
      <3> HIDE DEF seqs
      <3> QED
        BY <2>3, <3>1
    <2> HIDE DEF seqs
    <2>5. /\ flat \in Seq(E) /\ Distinct(flat)
          /\ ToSet(flat) = UNION {ToSet(seqs[i]) : i \in 1..Len(seqs)}
      <3>1. \A i \in 1..Len(seqs) : Distinct(seqs[i])
        BY <2>2, <2>4
      <3>2. \A i, j \in 1..Len(seqs) : i # j => ToSet(seqs[i]) \cap ToSet(seqs[j]) = {}
        BY <2>2, <2>4
      <3> QED
        BY ONLY <2>4, <3>1, <3>2, Flattening
    <2>6. ToSet(flat) = UNION {ToSet(c[i].batch) : i \in 1..Len(c)}
      BY <2>4, <2>5
    <2> HIDE DEF flat
    <2>7. /\ u \o batch \in Seq(E) /\ Distinct(u \o batch)
          /\ ToSet(u \o batch) = ToSet(u) \cup ToSet(batch)
      BY <2>1, <2>2, Concatenating
    <2>8. ToSet(u \o batch) \cap ToSet(flat) = {}
      BY <2>2, <2>6, <2>7
    <2> DEFINE front == u \o batch
               held == front \o flat
    <2> HIDE DEF front
    <2>9. /\ held \in Seq(E) /\ Distinct(held)
          /\ ToSet(held) = ToSet(front) \cup ToSet(flat)
      BY <2>5, <2>7, <2>8, Concatenating DEF front
    <2> HIDE DEF held
    <2>10. Cardinality(ToSet(held)) = Len(held)
      BY <2>9, Counting
    <2>11. state.pending = ToSet(held)
      BY <2>2, <2>6, <2>7, <2>9 DEF front
    <2>12. state.queued <= MaxBuffer + MaxBatch
      <3>1. Len(batch) <= MaxBatch /\ state.queued - Len(batch) <= MaxBuffer /\ Len(batch) \in Nat
        BY <2>1 DEF QueueInv
      <3> QED
        BY <2>1, <3>1, ObserverAssumption
    <2>13. state.queued = Len(held) /\ state.queued = Cardinality(state.pending)
      BY <2>2, <2>10, <2>11
    <2> QED
      BY <2>11, <2>12, <2>13 DEF QueueAccounts, held, front, flat, seqs, c, u
  <1> QED
    BY Invariant, QueueInvariant, <1>1, PTL
=============================================================================
