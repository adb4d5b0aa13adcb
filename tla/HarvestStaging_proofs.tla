----------------------- MODULE HarvestStaging_proofs ------------------------
(***************************************************************************)
(* Safety of the first stages of a harvest for every forest of sessions,   *)
(* every number of workers and parsers, and every size of the ring.        *)
(***************************************************************************)
EXTENDS HarvestStaging, FiniteSetTheorems, SequenceTheorems, TLAPS

(***************************************************************************)
(* The types of what the actions read and write, apart from the numbers    *)
(* whose bounds the other parts give: the ring's coordinates and the       *)
(* counters of batches.                                                    *)
(***************************************************************************)
Spans == [start : Int, end : Int]
InHand(w) == wpc[w] \in {"copy", "slot"}    \* processed and in no slot yet

WorkerOK(w) ==
    /\ wpc[w] \in WorkerPCs /\ work[w] \in Works
    /\ wpc[w] = "process" => work[w].queue # <<>>
    /\ wpc[w] \in {"next", "exit"} => work[w].queue = <<>>
    /\ InHand(w) => work[w].s \in Sessions
    /\ wpc[w] = "copy" => work[w].size > 0 /\ 2 * work[w].size <= ArenaSize

WorkersOK ==
    /\ todo \subseteq Sessions
    /\ wpc = [w \in Workers |-> wpc[w]] /\ work = [w \in Workers |-> work[w]]
    /\ \A w \in Workers : WorkerOK(w)

DrainTypes ==
    [done : BOOLEAN, seen : SUBSET Nat, n : Nat, batch : Seq(Nat),
     metas : Seq(Nat), pending : Int, ctxArm : BOOLEAN]

Shape ==
    /\ WorkersOK
    /\ arena \in [0..(ArenaSize - 1) -> Sessions \cup {None}]
    /\ slots \in Seq(Slots)
    /\ ready \in BOOLEAN /\ cancelled \in BOOLEAN
    /\ dpc \in DrainPCs /\ drain \in DrainTypes
    /\ committed \subseteq Sessions /\ failed \subseteq Sessions
    /\ results \in Seq(Sessions)
    /\ batches \in Seq([claimed : SUBSET Nat, remaining : Int])
    /\ reading \subseteq IndexWork /\ indexDone \in Seq(Nat)

(***************************************************************************)
(* The slots: a slot is empty as long as the worker that claimed it has    *)
(* not published it, and the drain loop claims what it saw ready.          *)
(***************************************************************************)
Injective(q) == \A j, k \in DOMAIN q : q[j] = q[k] => j = k

InBatch(i) == dpc = "mirror" /\ i \in ToSet(drain.batch)

Publishing ==
    /\ \A w \in Workers : wpc[w] = "publish" =>
          work[w].slot \in DOMAIN slots /\ slots[work[w].slot].state = "empty"
    /\ \A v, w \in Workers : wpc[v] = "publish" /\ wpc[w] = "publish" /\ v # w =>
          work[v].slot # work[w].slot
    /\ \A i \in DOMAIN slots : slots[i].state = "empty" =>
          \E w \in Workers : wpc[w] = "publish" /\ work[w].slot = i

Draining ==
    /\ dpc = "drain" => drain.seen \subseteq ReadySlots
    /\ dpc = "drain" /\ drain.done => WorkersDone /\ drain.seen = ReadySlots
    /\ dpc = "mirror" =>
          /\ drain.batch # <<>> /\ Injective(drain.batch)
          /\ \A i \in ToSet(drain.batch) :
                i \in DOMAIN slots /\ slots[i].state = "claimed"
    /\ dpc \in {"acks", "exit"} =>
          /\ WorkersDone
          /\ \A i \in DOMAIN slots : slots[i].state \in {"claimed", "acked"}

SlotsOK == Publishing /\ Draining

(***************************************************************************)
(* The batches: what of a batch is not read yet, and the batches that are  *)
(* not acknowledged yet.  Each claimed slot is owed to one of them.        *)
(***************************************************************************)
Outstanding(b) ==
    {x.slot : x \in {y \in reading : y.batch = b}}
      \cup (IF b = Len(batches) THEN ToSet(drain.metas) ELSE {})

Pending ==
    {b \in DOMAIN batches : batches[b].remaining > 0} \cup ToSet(indexDone)

BatchesOK ==
    /\ \A b \in DOMAIN batches :
          /\ batches[b].claimed \subseteq DOMAIN slots
          /\ Outstanding(b) \subseteq batches[b].claimed
          /\ batches[b].remaining = Cardinality(Outstanding(b))
    /\ \A b, c \in DOMAIN batches :
          b # c => batches[b].claimed \cap batches[c].claimed = {}
    /\ \A x \in reading : x.batch \in DOMAIN batches
    /\ \A x \in reading : x.batch = Len(batches) => x.slot \notin ToSet(drain.metas)
    /\ Injective(drain.metas)
    /\ drain.metas # <<>> <=> dpc = "send"
    /\ dpc = "send" => batches # <<>>
    /\ Injective(indexDone)
    /\ \A b \in ToSet(indexDone) : b \in DOMAIN batches /\ batches[b].remaining = 0

Owed ==
    /\ \A b \in DOMAIN batches : \A i \in batches[b].claimed :
          slots[i].state = IF b \in Pending THEN "claimed" ELSE "acked"
    /\ \A i \in DOMAIN slots : slots[i].state = "claimed" =>
          InBatch(i) \/ \E b \in Pending : i \in batches[b].claimed
    /\ \A i \in DOMAIN slots : InBatch(i) =>
          \A b \in DOMAIN batches : i \notin batches[b].claimed
    /\ drain.pending = Cardinality(Pending)
    /\ dpc = "exit" => drain.pending = 0

(***************************************************************************)
(* The ring: the claims of the workers, the slots that are not acked and   *)
(* the released spans tile what lies between tail and head, and no byte of *)
(* a live copy was overwritten.                                            *)
(***************************************************************************)
LiveSlots == {i \in DOMAIN slots : slots[i].state # "acked" /\ slots[i].len > 0}
Copied == {w \in Workers : wpc[w] = "slot" /\ work[w].size > 0}
ClaimOf(w) == [start |-> work[w].start - work[w].pad,
               end |-> work[w].start + work[w].size]

Apart(x, y) == x.end <= y.start \/ y.end <= x.start
Within(x) == tail <= x.start /\ x.start < x.end /\ x.end <= head
Covers(x, k) == x.start <= k /\ k < x.end

RingBounds ==
    /\ head \in Nat /\ tail \in 0..head
    /\ released \subseteq Spans
    /\ \A i \in LiveSlots : Within(Span(i))
    /\ \A w \in Copied : Within(ClaimOf(w))
    /\ \A x \in released : Within(x) /\ tail < x.start

RingApart ==
    /\ \A i, j \in LiveSlots : i # j => Apart(Span(i), Span(j))
    /\ \A v, w \in Copied : v # w => Apart(ClaimOf(v), ClaimOf(w))
    /\ \A x, y \in released : x # y => Apart(x, y)
    /\ \A i \in LiveSlots, w \in Copied : Apart(Span(i), ClaimOf(w))
    /\ \A i \in LiveSlots, x \in released : Apart(Span(i), x)
    /\ \A w \in Copied, x \in released : Apart(ClaimOf(w), x)

RingCovered ==
    \A k \in tail..(head - 1) :
        \/ \E i \in LiveSlots : Covers(Span(i), k)
        \/ \E w \in Copied : Covers(ClaimOf(w), k)
        \/ \E x \in released : Covers(x, k)

\* The copy of s at start is in one piece and untouched.
Stored(s, start, n) ==
    /\ (start % ArenaSize) + n <= ArenaSize
    /\ \A k \in start..(start + n - 1) : arena[k % ArenaSize] = s

RingIntact ==
    /\ \A i \in LiveSlots : Stored(slots[i].s, slots[i].start, slots[i].len)
    /\ \A w \in Copied : Stored(work[w].s, work[w].start, work[w].size)

Ring == RingBounds /\ RingApart /\ RingCovered /\ RingIntact

(***************************************************************************)
(* The sessions: each is in one place at most, and it is somewhere as soon *)
(* as it is a root or its parent was processed.                            *)
(***************************************************************************)
Staged == {slots[i].s : i \in DOMAIN slots}
Waiting(w) == ToSet(work[w].queue)
Processed == Staged \cup {work[w].s : w \in {v \in Workers : InHand(v)}}

OnePlace ==
    /\ \A i, j \in DOMAIN slots : slots[i].s = slots[j].s => i = j
    /\ \A v, w \in Workers : InHand(v) /\ InHand(w) /\ v # w => work[v].s # work[w].s
    /\ \A w \in Workers : InHand(w) => work[w].s \notin Staged
    /\ \A w \in Workers : Injective(work[w].queue)
    /\ \A v, w \in Workers : v # w => Waiting(v) \cap Waiting(w) = {}
    /\ \A w \in Workers : Waiting(w) \cap (todo \cup Processed) = {}
    /\ todo \cap Processed = {}

Known(s) == Parent[s] = None \/ Parent[s] \in Processed

Reached ==
    /\ \A s \in todo : Parent[s] = None
    /\ \A w \in Workers : \A s \in Waiting(w) : Known(s)
    /\ \A s \in Processed : Known(s)
    /\ \A s \in Sessions : Known(s) =>
          \/ s \in todo \cup Processed
          \/ \E w \in Workers : s \in Waiting(w)
    /\ \A w \in Workers : wpc[w] = "exit" => todo = {} \/ cancelled

(***************************************************************************)
(* The reports: what was mirrored is in the results once, and what is      *)
(* being mirrored may be.                                                  *)
(***************************************************************************)
Mirrored ==
    {i \in DOMAIN slots : slots[i].state \in {"claimed", "acked"} /\ ~InBatch(i)}

Reported ==
    /\ ToSet(results) = {slots[i].s : i \in Mirrored}
    /\ Injective(results)
    /\ ToSet(results) = committed \cup failed
    /\ \A i \in DOMAIN slots : InBatch(i) => Eligible(slots[i].s)

----------------------------------------------------------------------------
(* Sequences as orders of finite sets. *)

\* What SetToSeqs holds: the orders of a finite set.
LEMMA OrderOf ==
    ASSUME NEW T, IsFiniteSet(T), NEW q \in SetToSeqs(T)
    PROVE  /\ q \in Seq(T) /\ Len(q) = Cardinality(T)
           /\ Injective(q) /\ ToSet(q) = T
<1> DEFINE n == Cardinality(T)
<1>1. n \in Nat
  BY FS_CardinalityType
<1>2. q \in [1..n -> T] /\ \A i, j \in 1..n : i # j => q[i] # q[j]
  BY DEF SetToSeqs
<1>3. q \in Injection(1..n, T)
  BY <1>2 DEF Injection, IsInjective
<1>4. Cardinality(1..n) = n /\ IsFiniteSet(1..n)
  BY <1>1, FS_Interval
<1>5. q \in Surjection(1..n, T)
  BY <1>3, <1>4, FS_Injection
<1>6. \A x \in T : \E i \in 1..n : q[i] = x
  BY <1>5 DEF Surjection
<1>7. q \in Seq(T) /\ Len(q) = n /\ DOMAIN q = 1..n
  BY <1>1, <1>2
<1> QED
  BY <1>2, <1>6, <1>7 DEF Injective, ToSet

\* Every finite set has an order.
LEMMA OrderExists ==
    ASSUME NEW T, IsFiniteSet(T)
    PROVE  SetToSeq(T) \in SetToSeqs(T)
<1> DEFINE n == Cardinality(T)
<1>1. PICK f : f \in Bijection(1..n, T)
  BY FS_CardinalityType DEF ExistsBijection
<1>2. f \in [1..n -> T] /\ IsInjective(f)
  BY <1>1 DEF Bijection, Injection
<1>3. SetToSeq(T) \in [1..n -> T] /\ IsInjective(SetToSeq(T))
  BY <1>2 DEF SetToSeq
<1> QED
  BY <1>3 DEF SetToSeqs, IsInjective

\* The children a worker appends to its queue.
LEMMA ChildrenOf ==
    ASSUME NEW s \in Sessions
    PROVE  /\ Children(s) \in Seq(Sessions) /\ Injective(Children(s))
           /\ ToSet(Children(s)) = {c \in Sessions : Parent[c] = s}
<1> DEFINE C == {c \in Sessions : Parent[c] = s}
<1>1. IsFiniteSet(C) /\ C \subseteq Sessions
  BY SessionsAssumption, FS_Subset
<1>2. SetToSeq(C) \in SetToSeqs(C)
  BY <1>1, OrderExists
<1> HIDE DEF C
<1>3. SetToSeq(C) \in Seq(C) /\ Injective(SetToSeq(C)) /\ ToSet(SetToSeq(C)) = C
  BY <1>1, <1>2, OrderOf
<1>4. Seq(C) \subseteq Seq(Sessions)
  BY <1>1
<1> QED
  BY <1>3, <1>4 DEF Children, C

\* A batch of slots, or of what is indexed of it.
LEMMA AscendingOf ==
    ASSUME NEW n \in Nat, NEW T \in SUBSET (1..n), NEW q \in Ascending(T)
    PROVE  /\ q \in Seq(Nat) /\ Len(q) = Cardinality(T)
           /\ Injective(q) /\ ToSet(q) = T /\ (q = <<>> <=> T = {})
<1>1. IsFiniteSet(T) /\ T \subseteq Nat
  <2>1. IsFiniteSet(1..n)
    BY FS_Interval
  <2>2. IsFiniteSet(T)
    BY <2>1, FS_Subset
  <2> QED
    BY <2>2
<1>2. q \in SetToSeqs(T)
  BY DEF Ascending
<1>3. q \in Seq(T) /\ Len(q) = Cardinality(T) /\ Injective(q) /\ ToSet(q) = T
  BY <1>1, <1>2, OrderOf
<1>4. q \in Seq(Nat)
  <2>1. Seq(T) \subseteq Seq(Nat)
    BY <1>1, SeqMonotonic
  <2> QED
    BY <1>3, <2>1
<1>5. q = <<>> <=> T = {}
  BY <1>3, <1>4 DEF ToSet
<1> QED
  BY <1>3, <1>4, <1>5

\* Drain takes something when there is something to take.
LEMMA FirstOfSome ==
    ASSUME NEW n \in Nat, NEW T \in SUBSET (1..n)
    PROVE  FirstOf(T) \subseteq T /\ (FirstOf(T) = {} => T = {})
<1>1. FirstOf(T) \subseteq T
  BY DEF FirstOf
<1>2. ASSUME T # {}
      PROVE  FirstOf(T) # {}
  <2> DEFINE F == {1..k : k \in T}
             R == StrictSubsetOrdering(1..n)
  <2>1. F \subseteq FiniteSubsetsOf(1..n) /\ F # {}
    <3>1. \A k \in T : IsFiniteSet(1..k) /\ 1..k \subseteq 1..n
      BY FS_Interval
    <3> QED
      BY <1>2, <3>1 DEF FiniteSubsetsOf
  <2>2. \E x \in F : \A y \in F : ~ (<<y, x>> \in R)
    <3> HIDE DEF F, R
    <3>1. IsWellFoundedOn(R, FiniteSubsetsOf(1..n))
      BY FS_StrictSubsetOrderingWellFounded DEF R
    <3> QED
      BY <2>1, <3>1, WFMin
  <2>3. PICK m \in T : \A k \in T : ~ (<<1..k, 1..m>> \in R)
    BY <2>2
  <2>4. ASSUME NEW k \in T, k < m
        PROVE  FALSE
    <3>1. 1..k \in SUBSET (1..n) /\ 1..m \in SUBSET (1..n)
      OBVIOUS
    <3>2. 1..k \subseteq 1..m /\ m \in 1..m /\ m \notin 1..k
      BY <2>4
    <3>3. <<1..k, 1..m>> \in R
      BY <3>1, <3>2 DEF StrictSubsetOrdering
    <3> QED
      BY <2>3, <3>3
  <2>5. {k \in T : k < m} = {}
    BY <2>4
  <2>6. Cardinality({k \in T : k < m}) < MaxDrain
    BY <2>5, FS_EmptySet, BoundsAssumption
  <2> QED
    BY <2>6 DEF FirstOf
<1> QED
  BY <1>1, <1>2

\* Queues that grow and shrink.
LEMMA TailOf ==
    ASSUME NEW S, NEW q \in Seq(S), q # <<>>, Injective(q)
    PROVE  /\ Tail(q) \in Seq(S) /\ Injective(Tail(q))
           /\ Head(q) \in S /\ Head(q) \in ToSet(q)
           /\ ToSet(Tail(q)) = ToSet(q) \ {Head(q)}
<1> DEFINE t == Tail(q)
<1>1. /\ t \in Seq(S) /\ Head(q) = q[1] /\ q[1] \in S /\ Len(q) > 0
      /\ DOMAIN t = 1..(Len(q) - 1) /\ DOMAIN q = 1..Len(q)
      /\ \A k \in 1..(Len(q) - 1) : t[k] = q[k + 1]
  BY HeadTailProperties
<1> HIDE DEF t
<1>2. Injective(t)
  <2> SUFFICES ASSUME NEW j \in DOMAIN t, NEW k \in DOMAIN t, t[j] = t[k]
               PROVE  j = k
    BY DEF Injective
  <2>1. q[j + 1] = q[k + 1] /\ j + 1 \in DOMAIN q /\ k + 1 \in DOMAIN q
    BY <1>1
  <2>2. j + 1 = k + 1
    BY <2>1 DEF Injective
  <2> QED
    BY <1>1, <2>2
<1>3. ToSet(t) \subseteq ToSet(q) \ {q[1]}
  <2> SUFFICES ASSUME NEW k \in DOMAIN t
               PROVE  t[k] \in ToSet(q) \ {q[1]}
    BY DEF ToSet
  <2>1. t[k] = q[k + 1] /\ k + 1 \in DOMAIN q /\ 1 \in DOMAIN q /\ k + 1 # 1
    BY <1>1
  <2> QED
    BY <2>1 DEF Injective, ToSet
<1>4. ASSUME NEW x \in ToSet(q), x # q[1]
      PROVE  x \in ToSet(t)
  <2>1. PICK k \in 1..Len(q) : x = q[k]
    BY <1>1 DEF ToSet
  <2>2. k - 1 \in 1..(Len(q) - 1) /\ t[k - 1] = q[k]
    BY <1>1, <1>4, <2>1
  <2> QED
    BY <1>1, <2>1, <2>2 DEF ToSet
<1>5. q[1] \in ToSet(q)
  BY <1>1 DEF ToSet
<1> QED
  BY <1>1, <1>2, <1>3, <1>4, <1>5 DEF t

\* Appending a new element keeps a sequence without repetitions.
LEMMA AppendOf ==
    ASSUME NEW S, NEW q \in Seq(S), NEW x \in S, Injective(q), x \notin ToSet(q)
    PROVE  /\ Append(q, x) \in Seq(S) /\ Injective(Append(q, x))
           /\ ToSet(Append(q, x)) = ToSet(q) \cup {x}
BY DEF Injective, ToSet

\* So does joining two that share nothing.
LEMMA ConcatOf ==
    ASSUME NEW S, NEW q \in Seq(S), NEW r \in Seq(S), Injective(q), Injective(r),
           ToSet(q) \cap ToSet(r) = {}
    PROVE  /\ q \o r \in Seq(S) /\ Injective(q \o r)
           /\ ToSet(q \o r) = ToSet(q) \cup ToSet(r)
<1> DEFINE c == q \o r
<1>1. /\ c \in Seq(S) /\ DOMAIN c = 1..(Len(q) + Len(r))
      /\ DOMAIN q = 1..Len(q) /\ DOMAIN r = 1..Len(r)
      /\ Len(q) \in Nat /\ Len(r) \in Nat
      /\ \A k \in 1..Len(q) : c[k] = q[k]
      /\ \A k \in 1..Len(r) : c[Len(q) + k] = r[k]
  OBVIOUS
<1> HIDE DEF c
<1>2. \A k \in DOMAIN c :
         \/ k \in DOMAIN q /\ c[k] = q[k]
         \/ k - Len(q) \in DOMAIN r /\ k \notin DOMAIN q /\ c[k] = r[k - Len(q)]
  <2> SUFFICES ASSUME NEW k \in DOMAIN c, k \notin DOMAIN q
               PROVE  k - Len(q) \in DOMAIN r /\ c[k] = r[k - Len(q)]
    BY <1>1
  <2>1. k - Len(q) \in 1..Len(r) /\ Len(q) + (k - Len(q)) = k
    BY <1>1
  <2> QED
    BY <1>1, <2>1
<1>3. ToSet(c) \subseteq ToSet(q) \cup ToSet(r)
  BY <1>2 DEF ToSet
<1>4. ToSet(q) \cup ToSet(r) \subseteq ToSet(c)
  <2>1. \A k \in DOMAIN q : k \in DOMAIN c
    BY <1>1
  <2>2. \A k \in DOMAIN r : Len(q) + k \in DOMAIN c
    BY <1>1
  <2> QED
    BY <1>1, <2>1, <2>2 DEF ToSet
<1>5. Injective(c)
  <2> SUFFICES ASSUME NEW j \in DOMAIN c, NEW k \in DOMAIN c, c[j] = c[k]
               PROVE  j = k
    BY DEF Injective
  <2>1. (j \in DOMAIN q) <=> (k \in DOMAIN q)
    BY <1>2 DEF ToSet
  <2>2. CASE j \in DOMAIN q
    BY <1>2, <2>1, <2>2 DEF Injective
  <2>3. CASE j \notin DOMAIN q
    <3>1. j - Len(q) = k - Len(q)
      BY <1>2, <2>1, <2>3 DEF Injective
    <3> QED
      BY <1>1, <3>1
  <2> QED
    BY <2>2, <2>3
<1> QED
  BY <1>1, <1>3, <1>4, <1>5 DEF c

----------------------------------------------------------------------------
(* Coordinates of the ring. *)

\* What % and \div are; the ring reduces offsets by the arena size.
LEMMA Division ==
    ASSUME NEW a \in Nat, NEW A \in Nat \ {0}
    PROVE  /\ a % A \in 0..(A - 1) /\ a \div A \in Nat
           /\ a = A * (a \div A) + (a % A)
<1>1. a % A \in 0..(A - 1) /\ a \div A \in Nat
  OBVIOUS
<1>2. a % A = a - A * (a \div A)
  OBVIOUS
<1> DEFINE p == A * (a \div A)
           m == a % A
<1>3. m = a - p /\ p \in Int
  BY <1>1, <1>2
<1> HIDE DEF p, m
<1>4. a = p + m
  BY <1>3
<1> QED
  BY <1>1, <1>4 DEF p, m

\* Coordinates less than a turn apart lie on different bytes.
LEMMA LessThanATurn ==
    ASSUME NEW a \in Nat, NEW b \in Nat, NEW A \in Nat \ {0}, a < b, b < a + A
    PROVE  a % A # b % A
<1>1. a = A * (a \div A) + (a % A) /\ b = A * (b \div A) + (b % A)
  BY Division
<1>2. a \div A \in Nat /\ b \div A \in Nat /\ a % A \in Nat /\ b % A \in Nat
  BY Division
<1> SUFFICES ASSUME a % A = b % A
             PROVE  FALSE
  OBVIOUS
<1>3. ASSUME NEW p \in Nat, NEW q \in Nat
      PROVE  ~(0 < A * q - A * p /\ A * q - A * p < A)
  <2>1. CASE q <= p
    <3>1. A * q <= A * p
      BY <2>1
    <3> QED
      BY <3>1
  <2>2. CASE q >= p + 1
    <3>1. A * q >= A * (p + 1) /\ A * (p + 1) = A * p + A
      BY <2>2
    <3> QED
      BY <3>1
  <2> QED
    BY <2>1, <2>2
<1> DEFINE x == A * (a \div A)
           y == A * (b \div A)
           m == a % A
<1>4. a = x + m /\ b = y + m /\ x \in Int /\ y \in Int /\ m \in Nat
  BY <1>1, <1>2
<1>5. ~(0 < y - x /\ y - x < A)
  BY <1>2, <1>3
<1> HIDE DEF x, y, m
<1> QED
  BY <1>4, <1>5

\* A copy that skips the rest of the slab starts at its beginning.
LEMMA AfterTheGap ==
    ASSUME NEW a \in Nat, NEW A \in Nat \ {0}
    PROVE  (a + (A - (a % A))) % A = 0
<1> DEFINE q == a \div A
           s == a + (A - (a % A))
<1>1. a = A * q + (a % A) /\ q \in Nat /\ a % A \in 0..(A - 1)
  BY Division
<1>2. s = A * (q + 1) /\ s \in Nat
  <2> DEFINE p == A * q
             k == a % A
  <2>1. a = p + k /\ p \in Int /\ k \in 0..(A - 1)
    BY <1>1
  <2>2. A * (q + 1) = p + A
    BY <1>1
  <2>3. s = a + (A - k)
    OBVIOUS
  <2> HIDE DEF p, k, q, s
  <2>4. s = p + A /\ s \in Nat
    BY <2>1, <2>3
  <2> QED
    BY <2>2, <2>4
<1>3. s = A * (s \div A) + (s % A) /\ s \div A \in Nat /\ s % A \in 0..(A - 1)
  BY <1>2, Division
<1> DEFINE r == s \div A
           m == s % A
<1>4. A * (q + 1) = A * r + m /\ r \in Nat /\ m \in 0..(A - 1)
  BY <1>2, <1>3
<1> HIDE DEF q, r, m, s
<1>5. m = 0
  <2>1. CASE r >= q + 1
    <3>1. A * r >= A * (q + 1)
      BY <1>1, <1>4, <2>1
    <3> QED
      BY <1>1, <1>4, <3>1
  <2>2. CASE r <= q
    <3>1. A * (q + 1) = A * q + A /\ A * r <= A * q
      BY <1>1, <1>4, <2>2
    <3> QED
      BY <1>1, <1>4, <3>1
  <2> QED
    BY <1>1, <1>4, <2>1, <2>2
<1> QED
  BY <1>5 DEF m, s

----------------------------------------------------------------------------
(* The invariant. *)

Inv ==
    /\ Shape /\ SlotsOK /\ BatchesOK /\ Owed /\ Ring /\ OnePlace /\ Reached
    /\ Reported

\* A step that changes of the slots only their states.
Relabelled ==
    /\ slots' \in Seq(Slots) /\ DOMAIN slots' = DOMAIN slots
    /\ \A i \in DOMAIN slots :
          /\ slots'[i].s = slots[i].s /\ slots'[i].kind = slots[i].kind
          /\ slots'[i].start = slots[i].start /\ slots'[i].len = slots[i].len
          /\ slots'[i].pad = slots[i].pad

Relabels(C, label) ==
    slots' = [i \in DOMAIN slots |->
                IF i \in C THEN [slots[i] EXCEPT !.state = label] ELSE slots[i]]

\* A step that only relabels slots leaves the rest of them alone.
LEMMA Relabelling ==
    ASSUME slots \in Seq(Slots), NEW C, NEW label \in {"ready", "claimed", "acked"},
           Relabels(C, label)
    PROVE  /\ Relabelled
           /\ \A i \in DOMAIN slots :
                 slots'[i].state = IF i \in C THEN label ELSE slots[i].state
<1>1. \A i \in DOMAIN slots : slots[i] \in Slots
  OBVIOUS
<1>2. ASSUME NEW i \in DOMAIN slots
      PROVE  /\ slots'[i] \in Slots
             /\ slots'[i].s = slots[i].s /\ slots'[i].kind = slots[i].kind
             /\ slots'[i].start = slots[i].start /\ slots'[i].len = slots[i].len
             /\ slots'[i].pad = slots[i].pad
             /\ slots'[i].state = IF i \in C THEN label ELSE slots[i].state
  <2> DEFINE e == [slots[i] EXCEPT !.state = label]
  <2>1. /\ e \in Slots /\ e.s = slots[i].s /\ e.kind = slots[i].kind
        /\ e.start = slots[i].start /\ e.len = slots[i].len /\ e.pad = slots[i].pad
        /\ e.state = label
    BY <1>1 DEF Slots
  <2>2. slots'[i] = IF i \in C THEN e ELSE slots[i]
    BY DEF Relabels
  <2> HIDE DEF e
  <2>3. slots[i] \in Slots
    BY <1>1
  <2> QED
    BY <2>1, <2>2, <2>3
<1>3. DOMAIN slots' = DOMAIN slots /\ DOMAIN slots = 1..Len(slots) /\ Len(slots) \in Nat
  BY DEF Relabels
<1>4. slots' \in Seq(Slots)
  <2>1. slots' = [i \in 1..Len(slots) |-> slots'[i]]
    BY <1>3 DEF Relabels
  <2>2. \A i \in 1..Len(slots) : slots'[i] \in Slots
    BY <1>2, <1>3
  <2>3. slots' \in [1..Len(slots) -> Slots]
    BY <2>1, <2>2
  <2> QED
    BY <1>3, <2>3
<1> QED
  BY <1>2, <1>3, <1>4 DEF Relabelled

\* Publish moves the worker's own slot from empty to ready.
LEMMA PublishRelabels ==
    ASSUME Shape, SlotsOK, NEW w \in Workers, Publish(w)
    PROVE  Relabels({work[w].slot}, "ready")
<1>1. slots' = [slots EXCEPT ![work[w].slot].state = "ready"]
  BY DEF Publish
<1> QED
  BY <1>1 DEF Relabels

\* Ack moves the slots it names to acked.
LEMMA AckRelabels ==
    ASSUME NEW C, Ack(C)
    PROVE  Relabels(C, "acked")
BY DEF Ack, Relabels

----------------------------------------------------------------------------
(* Types. *)

\* One worker goes on.
LEMMA OneWorker ==
    ASSUME WorkersOK, NEW w \in Workers, NEW p \in WorkerPCs, NEW k \in Works,
           wpc' = [wpc EXCEPT ![w] = p], work' = [work EXCEPT ![w] = k],
           todo' \subseteq Sessions,
           p = "process" => k.queue # <<>>,
           p \in {"next", "exit"} => k.queue = <<>>,
           p \in {"copy", "slot"} => k.s \in Sessions,
           p = "copy" => k.size > 0 /\ 2 * k.size <= ArenaSize
    PROVE  WorkersOK'
<1>1. /\ wpc' = [v \in Workers |-> wpc'[v]] /\ work' = [v \in Workers |-> work'[v]]
      /\ \A v \in Workers \ {w} : wpc'[v] = wpc[v] /\ work'[v] = work[v]
      /\ wpc'[w] = p /\ work'[w] = k
  BY DEF WorkersOK
<1>2. \A v \in Workers \ {w} : WorkerOK(v)'
  BY <1>1 DEF WorkersOK, WorkerOK, InHand
<1>3. WorkerOK(w)'
  BY <1>1 DEF WorkerOK, InHand
<1> QED
  BY <1>1, <1>2, <1>3 DEF WorkersOK

\* Worker steps keep the types.
LEMMA WorkersShape ==
    ASSUME Inv, NEW w \in Workers, Worker(w)
    PROVE  Shape'
<1>1. Shape /\ WorkersOK /\ WorkerOK(w) /\ work[w] \in Works
  BY DEF Inv, Shape, WorkersOK, WorkerOK
<1>2. /\ DOMAIN work = Workers /\ DOMAIN wpc = Workers
      /\ work[w].queue \in Seq(Sessions) /\ work[w].size \in Nat
      /\ work[w].s \in Sessions \cup {None}
  BY <1>1 DEF WorkersOK, Works
<1>3. UNCHANGED <<drainer, batches, reading, indexDone, cancelled>>
  BY DEF Worker, TakeRoot, WorkerExit, Process, CopyToArena, StageOutside,
     ClaimSlot, Publish, WorkerOnly
<1>4. ASSUME WorkersOK', arena' \in [0..(ArenaSize - 1) -> Sessions \cup {None}],
             slots' \in Seq(Slots), ready' \in BOOLEAN
      PROVE  Shape'
  BY <1>1, <1>3, <1>4 DEF Shape, drainer
<1>5. UNCHANGED arena => arena' \in [0..(ArenaSize - 1) -> Sessions \cup {None}]
  BY <1>1 DEF Shape
<1>6. UNCHANGED slots => slots' \in Seq(Slots)
  BY <1>1 DEF Shape
<1>7. ready' \in BOOLEAN
  <2>1. ready' = ready \/ ready' = TRUE
    BY DEF Worker, TakeRoot, WorkerExit, Process, CopyToArena, StageOutside,
       ClaimSlot, Publish
  <2> QED
    BY <1>1, <2>1, Zenon DEF Shape
<1>8. CASE TakeRoot(w)
  <2>1. PICK r \in todo : /\ todo' = todo \ {r}
                          /\ work' = [work EXCEPT ![w].queue = <<r>>]
    BY <1>8 DEF TakeRoot
  <2> DEFINE q == <<r>>
             k == [work[w] EXCEPT !.queue = q]
  <2>2. r \in Sessions /\ todo' \subseteq Sessions
    BY <1>1, <2>1 DEF WorkersOK
  <2>3. q \in Seq(Sessions) /\ q # <<>>
    BY <2>2
  <2>4. work' = [work EXCEPT ![w] = k]
    BY <1>2, <2>1
  <2> HIDE DEF q
  <2>5. k \in Works /\ k.queue = q
    BY <1>1, <2>3 DEF Works
  <2>6. wpc' = [wpc EXCEPT ![w] = "process"] /\ "process" \in WorkerPCs
    BY <1>8 DEF TakeRoot, WorkerPCs
  <2> HIDE DEF k
  <2>7. WorkersOK'
    BY <1>1, <2>2, <2>3, <2>4, <2>5, <2>6, OneWorker
  <2> QED
    BY <1>4, <1>5, <1>6, <1>7, <1>8, <2>7 DEF TakeRoot, ring
<1>9. CASE WorkerExit(w)
  <2>1. /\ wpc' = [wpc EXCEPT ![w] = "exit"] /\ "exit" \in WorkerPCs
        /\ wpc[w] = "next" /\ UNCHANGED <<todo, work>>
    BY <1>9 DEF WorkerExit, WorkerPCs
  <2>2. work' = [work EXCEPT ![w] = work[w]]
    BY <1>1, <1>2, <2>1 DEF WorkersOK
  <2>3. work[w].queue = <<>> /\ todo' \subseteq Sessions
    BY <1>1, <2>1 DEF WorkerOK, WorkersOK
  <2>4. WorkersOK'
    BY <1>1, <2>1, <2>2, <2>3, OneWorker
  <2> QED
    BY <1>4, <1>5, <1>6, <1>7, <1>9, <2>4 DEF WorkerExit, ring
<1>10. CASE Process(w)
  <2> DEFINE s == Head(work[w].queue)
             q == Tail(work[w].queue) \o Children(s)
  <2>1. PICK o \in Outcomes :
           /\ work' = [work EXCEPT ![w] =
                 [NoWork EXCEPT !.queue = q, !.s = s, !.kind = o.kind,
                                !.size = o.size]]
           /\ wpc' = [wpc EXCEPT ![w] = IF o.size = 0 THEN "slot" ELSE "copy"]
    BY <1>10 DEF Process
  <2> DEFINE k == [NoWork EXCEPT !.queue = q, !.s = s, !.kind = o.kind,
                                 !.size = o.size]
             p == IF o.size = 0 THEN "slot" ELSE "copy"
  <2>2. work[w].queue # <<>> /\ UNCHANGED todo
    BY <1>1, <1>10 DEF Process, WorkerOK
  <2>3. s \in Sessions /\ Tail(work[w].queue) \in Seq(Sessions)
    BY <1>2, <2>2
  <2>4. Children(s) \in Seq(Sessions)
    BY <2>3, ChildrenOf
  <2>5. q \in Seq(Sessions)
    BY <2>3, <2>4
  <2>6. o.kind \in Kinds /\ o.size \in Nat /\ 2 * o.size <= ArenaSize
    BY OutcomesAssumption
  <2> HIDE DEF s, q
  <2>7. k \in Works /\ k.s = s /\ k.size = o.size
    BY <2>3, <2>5, <2>6 DEF Works, NoWork, Kinds
  <2>8. p \in {"slot", "copy"} /\ (p = "copy" => o.size > 0)
    BY <2>6
  <2>9. p \in WorkerPCs
    BY <2>8 DEF WorkerPCs
  <2>10. wpc' = [wpc EXCEPT ![w] = p] /\ work' = [work EXCEPT ![w] = k]
    BY <2>1
  <2>11. todo' \subseteq Sessions
    BY <1>1, <2>2 DEF WorkersOK
  <2> HIDE DEF k, p
  <2>12. WorkersOK'
    BY <1>1, <2>3, <2>6, <2>7, <2>8, <2>9, <2>10, <2>11, OneWorker
  <2> QED
    BY <1>4, <1>5, <1>6, <1>7, <1>10, <2>12 DEF Process, ring
<1>11. CASE CopyToArena(w)
  <2> DEFINE n == work[w].size
             start == head + Gap(n)
             k == [work[w] EXCEPT !.start = start, !.pad = Gap(n)]
  <2>1. /\ work' = [work EXCEPT ![w].start = start, ![w].pad = Gap(n)]
        /\ wpc' = [wpc EXCEPT ![w] = "slot"] /\ UNCHANGED <<todo, slots>>
        /\ arena' = [i \in DOMAIN arena |->
                       IF i \in Bytes(start, n) THEN work[w].s ELSE arena[i]]
    BY <1>11 DEF CopyToArena
  <2>2. work[w].s \in Sessions
    BY <1>1, <1>11 DEF CopyToArena, WorkerOK, InHand
  <2>3. Gap(n) \in Nat /\ start \in Nat
    <3>1. head \in Nat /\ ArenaSize \in Nat \ {0}
      BY BoundsAssumption DEF Inv, Ring, RingBounds
    <3>2. head % ArenaSize \in 0..(ArenaSize - 1)
      BY <3>1, Division
    <3> QED
      BY <1>2, <3>1, <3>2 DEF Gap
  <2>4. work' = [work EXCEPT ![w] = k]
    BY <1>2, <2>1
  <2> HIDE DEF n, start
  <2>5. k \in Works /\ k.s = work[w].s
    BY <1>1, <2>3 DEF Works
  <2> HIDE DEF k
  <2>6. "slot" \in WorkerPCs /\ todo' \subseteq Sessions
    BY <1>1, <2>1 DEF WorkerPCs, WorkersOK
  <2>7. WorkersOK'
    BY <1>1, <2>1, <2>2, <2>4, <2>5, <2>6, OneWorker
  <2>8. arena' \in [0..(ArenaSize - 1) -> Sessions \cup {None}]
    BY <1>1, <2>1, <2>2 DEF Shape
  <2> QED
    BY <1>4, <1>6, <1>7, <2>1, <2>7, <2>8
<1>12. CASE StageOutside(w)
  <2> DEFINE k == [work[w] EXCEPT !.size = 0]
  <2>1. /\ work' = [work EXCEPT ![w] = k] /\ UNCHANGED todo
        /\ wpc' = [wpc EXCEPT ![w] = "slot"] /\ "slot" \in WorkerPCs
    BY <1>2, <1>12 DEF StageOutside, WorkerPCs
  <2>2. work[w].s \in Sessions /\ todo' \subseteq Sessions
    BY <1>1, <1>12, <2>1 DEF StageOutside, WorkerOK, InHand, WorkersOK
  <2>3. k \in Works /\ k.s = work[w].s
    BY <1>1 DEF Works
  <2> HIDE DEF k
  <2>4. WorkersOK'
    BY <1>1, <2>1, <2>2, <2>3, OneWorker
  <2> QED
    BY <1>4, <1>5, <1>6, <1>7, <1>12, <2>4 DEF StageOutside, ring
<1>13. CASE ClaimSlot(w)
  <2> DEFINE e == [s |-> work[w].s, kind |-> work[w].kind,
                   start |-> work[w].start, len |-> work[w].size,
                   pad |-> work[w].pad, state |-> "empty"]
             k == [work[w] EXCEPT !.slot = Len(slots) + 1]
  <2>1. /\ slots' = Append(slots, e) /\ work' = [work EXCEPT ![w] = k]
        /\ wpc' = [wpc EXCEPT ![w] = "publish"] /\ "publish" \in WorkerPCs
        /\ UNCHANGED todo
    BY <1>2, <1>13 DEF ClaimSlot, WorkerPCs
  <2>2. work[w].s \in Sessions /\ todo' \subseteq Sessions
    BY <1>1, <1>13, <2>1 DEF ClaimSlot, WorkerOK, InHand, WorkersOK
  <2>3. e \in Slots
    BY <1>1, <2>2 DEF Works, Slots
  <2>4. Len(slots) + 1 \in Nat /\ slots \in Seq(Slots)
    BY <1>1 DEF Shape
  <2>5. k \in Works
    BY <1>1, <2>4 DEF Works
  <2> HIDE DEF e, k
  <2>6. slots' \in Seq(Slots)
    BY <2>1, <2>3, <2>4
  <2>7. WorkersOK'
    BY <1>1, <2>1, <2>2, <2>5, OneWorker
  <2> QED
    BY <1>4, <1>5, <1>7, <1>13, <2>6, <2>7 DEF ClaimSlot, ring
<1>14. CASE Publish(w)
  <2> DEFINE p == IF work[w].queue = <<>> THEN "next" ELSE "process"
  <2>1. /\ wpc' = [wpc EXCEPT ![w] = p] /\ UNCHANGED <<todo, work>>
    BY <1>14 DEF Publish
  <2>2. work' = [work EXCEPT ![w] = work[w]]
    BY <1>1, <1>2, <2>1 DEF WorkersOK
  <2>3. /\ p \in WorkerPCs /\ p \notin {"copy", "slot", "exit"}
        /\ p = "process" => work[w].queue # <<>>
        /\ p = "next" => work[w].queue = <<>>
    BY DEF WorkerPCs
  <2>4. todo' \subseteq Sessions
    BY <1>1, <2>1 DEF WorkersOK
  <2> HIDE DEF p
  <2>5. WorkersOK'
    BY <1>1, <2>1, <2>2, <2>3, <2>4, OneWorker
  <2>6. slots' \in Seq(Slots)
    BY <1>1, <1>14, PublishRelabels, Relabelling DEF Inv, Shape, Relabelled
  <2> QED
    BY <1>4, <1>5, <1>7, <1>14, <2>5, <2>6 DEF Publish, ring
<1> QED
  BY <1>8, <1>9, <1>10, <1>11, <1>12, <1>13, <1>14 DEF Worker

\* Slots and batches are numbered from 1.
LEMMA SlotNumbers ==
    ASSUME Shape
    PROVE  /\ DOMAIN slots = 1..Len(slots) /\ Len(slots) \in Nat
           /\ DOMAIN batches = 1..Len(batches) /\ Len(batches) \in Nat
           /\ \A i \in DOMAIN slots : slots[i] \in Slots
BY DEF Shape

\* What the drain loop claims is a batch of ready slots, in order.
LEMMA DrainClaims ==
    ASSUME Shape, SlotsOK, Drain
    PROVE  \E batch \in Seq(Nat) :
              LET seen == {i \in drain.seen : Eligible(slots[i].s)}
              IN  /\ Drained(batch, drain.done) /\ Injective(batch)
                  /\ ToSet(batch) \subseteq ReadySlots
                  /\ \A i \in ToSet(batch) : Eligible(slots[i].s)
                  /\ batch = <<>> => seen = {}
<1> DEFINE seen == {i \in drain.seen : Eligible(slots[i].s)}
           fresh == {i \in ReadySlots \ drain.seen :
                        i <= drain.n /\ Eligible(slots[i].s)}
<1>1. PICK T \in SUBSET fresh :
         \E batch \in Ascending(FirstOf(seen \cup T)) : Drained(batch, drain.done)
  BY DEF Drain
<1>2. PICK batch \in Ascending(FirstOf(seen \cup T)) : Drained(batch, drain.done)
  BY <1>1
<1>3. /\ seen \cup T \subseteq ReadySlots
      /\ \A i \in seen \cup T : Eligible(slots[i].s)
  BY DEF SlotsOK, Draining, Drain
<1>4. ReadySlots \subseteq 1..Len(slots) /\ Len(slots) \in Nat
  BY SlotNumbers DEF ReadySlots
<1>5. seen \cup T \in SUBSET (1..Len(slots))
  BY <1>3, <1>4
<1> DEFINE F == FirstOf(seen \cup T)
<1> HIDE DEF seen, fresh
<1>6. F \subseteq seen \cup T /\ (F = {} => seen \cup T = {})
  BY <1>4, <1>5, FirstOfSome
<1>7. F \in SUBSET (1..Len(slots)) /\ batch \in Ascending(F)
  BY <1>2, <1>5, <1>6
<1> HIDE DEF F
<1>8. /\ batch \in Seq(Nat) /\ Injective(batch) /\ ToSet(batch) = F
      /\ (batch = <<>> <=> F = {})
  BY <1>4, <1>7, AscendingOf
<1>9. /\ ToSet(batch) \subseteq ReadySlots
      /\ \A i \in ToSet(batch) : Eligible(slots[i].s)
      /\ batch = <<>> => seen = {}
  BY <1>3, <1>6, <1>8
<1> QED
  BY <1>2, <1>8, <1>9 DEF seen

\* Taking a batch moves its slots to claimed.
LEMMA DrainedRelabels ==
    ASSUME NEW batch, NEW done, Drained(batch, done)
    PROVE  Relabels(ToSet(batch), "claimed")
BY DEF Drained, Relabels

\* The two ways out of mirrorDrainedBatch: nothing to index, or a new batch.
MirrorAcks ==
    /\ Ack(ToSet(drain.batch)) /\ dpc' = "top"
    /\ UNCHANGED <<drain, batches>>

MirrorHandsOver(metas) ==
    /\ batches' = Append(batches, [claimed |-> ToSet(drain.batch),
                                   remaining |-> Len(metas)])
    /\ drain' = [drain EXCEPT !.metas = metas, !.pending = drain.pending + 1]
    /\ dpc' = "send" /\ UNCHANGED <<slots, tail, released>>

Reports ==
    results' = results \o [k \in DOMAIN drain.batch |-> slots[drain.batch[k]].s]

\* Mirror reports every session of its batch, then acknowledges the batch or
\* hands a part of it to the index.
LEMMA MirrorSteps ==
    ASSUME Shape, SlotsOK, Mirror
    PROVE  /\ dpc = "mirror" /\ ToSet(drain.batch) \subseteq DOMAIN slots
           /\ Reports
           /\ committed' \cup failed' =
                committed \cup failed \cup {slots[i].s : i \in ToSet(drain.batch)}
           /\ \/ MirrorAcks
              \/ \E metas \in Seq(Nat) :
                    /\ MirrorHandsOver(metas) /\ Injective(metas)
                    /\ metas # <<>> /\ ToSet(metas) \subseteq ToSet(drain.batch)
                    /\ Len(metas) = Cardinality(ToSet(metas))
<1> DEFINE batch == ToSet(drain.batch)
           indexable == {i \in batch : slots[i].kind = "index"}
<1>1. dpc = "mirror" /\ Reports
  BY DEF Mirror, Reports
<1>2. batch \subseteq DOMAIN slots
  BY <1>1 DEF SlotsOK, Draining
<1>3. PICK lost \in SUBSET indexable :
         LET bad == lost \cup {i \in batch : slots[i].kind = "error"}
         IN  /\ committed' = committed \cup {slots[i].s : i \in batch \ bad}
             /\ failed' = failed \cup {slots[i].s : i \in bad}
             /\ IF indexable = lost
                THEN /\ Ack(batch) /\ dpc' = "top" /\ UNCHANGED <<drain, batches>>
                ELSE \E metas \in Ascending(indexable \ lost) :
                        /\ batches' = Append(batches, Completion(batch, metas))
                        /\ drain' = [drain EXCEPT !.metas = metas,
                                                  !.pending = @ + 1]
                        /\ dpc' = "send"
                        /\ UNCHANGED <<slots, tail, released>>
  BY DEF Mirror
<1> DEFINE bad == lost \cup {i \in batch : slots[i].kind = "error"}
<1>4. bad \subseteq batch
  OBVIOUS
<1>5. /\ committed' = committed \cup {slots[i].s : i \in batch \ bad}
      /\ failed' = failed \cup {slots[i].s : i \in bad}
  BY <1>3
<1>6. committed' \cup failed' = committed \cup failed \cup {slots[i].s : i \in batch}
  <2> HIDE DEF bad, batch
  <2> QED
    BY <1>4, <1>5
<1>7. CASE indexable = lost
  <2>1. MirrorAcks
    BY <1>3, <1>7 DEF MirrorAcks
  <2> QED
    BY <1>1, <1>2, <1>6, <2>1
<1>8. CASE indexable # lost
  <2>1. PICK metas \in Ascending(indexable \ lost) :
           /\ batches' = Append(batches, Completion(batch, metas))
           /\ drain' = [drain EXCEPT !.metas = metas, !.pending = @ + 1]
           /\ dpc' = "send"
           /\ UNCHANGED <<slots, tail, released>>
    BY <1>3, <1>8
  <2>2. indexable \ lost \in SUBSET (1..Len(slots)) /\ Len(slots) \in Nat
    BY <1>2, SlotNumbers
  <2>3. indexable \ lost # {} /\ indexable \ lost \subseteq batch
    BY <1>3, <1>8
  <2> DEFINE good == indexable \ lost
  <2> HIDE DEF indexable, batch, good
  <2>4. /\ metas \in Seq(Nat) /\ Len(metas) = Cardinality(good)
        /\ Injective(metas) /\ ToSet(metas) = good /\ (metas = <<>> <=> good = {})
    BY <2>1, <2>2, AscendingOf DEF good
  <2>5. MirrorHandsOver(metas)
    BY <2>1 DEF MirrorHandsOver, Completion, batch
  <2>6. /\ metas # <<>> /\ ToSet(metas) \subseteq batch
        /\ Len(metas) = Cardinality(ToSet(metas))
    BY <2>3, <2>4 DEF good
  <2> QED
    BY <1>1, <1>2, <1>6, <2>4, <2>5, <2>6 DEF batch
<1> QED
  BY <1>7, <1>8

\* The results of a batch, appended to the earlier ones.
LEMMA ReportsTyped ==
    ASSUME Shape, ToSet(drain.batch) \subseteq DOMAIN slots, Reports
    PROVE  LET new == [k \in DOMAIN drain.batch |-> slots[drain.batch[k]].s]
           IN  /\ new \in Seq(Sessions) /\ results' = results \o new
               /\ results' \in Seq(Sessions) /\ results \in Seq(Sessions)
               /\ ToSet(new) = {slots[i].s : i \in ToSet(drain.batch)}
<1> DEFINE new == [k \in DOMAIN drain.batch |-> slots[drain.batch[k]].s]
<1>1. drain.batch \in Seq(Nat) /\ results \in Seq(Sessions)
  BY DEF Shape, DrainTypes
<1>2. DOMAIN drain.batch = 1..Len(drain.batch) /\ Len(drain.batch) \in Nat
  BY <1>1
<1>3. \A k \in DOMAIN drain.batch : slots[drain.batch[k]].s \in Sessions
  BY SlotNumbers DEF ToSet, Slots
<1>4. new \in [1..Len(drain.batch) -> Sessions]
  BY <1>2, <1>3
<1>5. new \in Seq(Sessions)
  BY <1>2, <1>4
<1>6. ToSet(new) = {slots[i].s : i \in ToSet(drain.batch)}
  BY DEF ToSet
<1>7. results' = results \o new
  BY DEF Reports
<1> HIDE DEF new
<1>8. results' \in Seq(Sessions)
  BY <1>1, <1>5, <1>7
<1> QED
  BY <1>1, <1>5, <1>6, <1>7, <1>8 DEF new

\* Fields of the drain loop's record.
LEMMA DrainFields ==
    ASSUME Shape
    PROVE  /\ drain \in DrainTypes /\ drain.metas \in Seq(Nat)
           /\ drain.batch \in Seq(Nat) /\ drain.pending \in Int
           /\ \A p \in Int : [drain EXCEPT !.pending = p] \in DrainTypes
           /\ \A m \in Seq(Nat) : [drain EXCEPT !.metas = m] \in DrainTypes
           /\ \A m \in Seq(Nat), p \in Int :
                 [drain EXCEPT !.metas = m, !.pending = p] \in DrainTypes
           /\ \A q \in Seq(Nat) :
                 [drain EXCEPT !.batch = q, !.seen = {}] \in DrainTypes
           /\ [drain EXCEPT !.ctxArm = FALSE] \in DrainTypes
           /\ \A d \in BOOLEAN, u \in SUBSET Nat, n \in Nat :
                 [drain EXCEPT !.done = d, !.seen = u, !.n = n] \in DrainTypes
<1>1. drain \in DrainTypes
  BY DEF Shape
<1>2. /\ drain.metas \in Seq(Nat) /\ drain.batch \in Seq(Nat)
      /\ drain.pending \in Int
  BY <1>1 DEF DrainTypes
<1>3. /\ \A p \in Int : [drain EXCEPT !.pending = p] \in DrainTypes
      /\ \A m \in Seq(Nat) : [drain EXCEPT !.metas = m] \in DrainTypes
      /\ \A m \in Seq(Nat), p \in Int :
            [drain EXCEPT !.metas = m, !.pending = p] \in DrainTypes
  BY <1>1 DEF DrainTypes
<1>4. \A q \in Seq(Nat), u \in SUBSET Nat :
         [drain EXCEPT !.batch = q, !.seen = u] \in DrainTypes
  BY <1>1 DEF DrainTypes
<1>5. [drain EXCEPT !.ctxArm = FALSE] \in DrainTypes
  BY <1>1 DEF DrainTypes
<1>6. \A d \in BOOLEAN, u \in SUBSET Nat, n \in Nat :
         [drain EXCEPT !.done = d, !.seen = u, !.n = n] \in DrainTypes
  BY <1>1 DEF DrainTypes
<1>7. {} \in SUBSET Nat
  OBVIOUS
<1> QED
  BY <1>1, <1>2, <1>3, <1>4, <1>5, <1>6, <1>7

\* A step of the drain loop, one part at a time.
LEMMA DrainShape ==
    ASSUME Inv, DrainLoop
    PROVE  Shape'
<1>1. Shape /\ SlotsOK /\ BatchesOK
  BY DEF Inv
<1>2. UNCHANGED <<todo, wpc, work, arena, cancelled>>
  BY DEF DrainLoop, ReceiveAck, Look, Drain, Drained, Mirror, SendIndexWork, Wake,
     DrainExit, DrainOnly, workers
<1>3. WorkersOK' /\ arena' \in [0..(ArenaSize - 1) -> Sessions \cup {None}]
      /\ cancelled' \in BOOLEAN
  BY <1>1, <1>2 DEF Shape, WorkersOK, WorkerOK, InHand
<1>4. ready' \in BOOLEAN
  <2>1. ready' = ready \/ ready' = FALSE
    BY DEF DrainLoop, ReceiveAck, Look, Drain, Drained, Mirror, SendIndexWork,
       Wake, DrainExit
  <2> QED
    BY <1>1, <2>1, Zenon DEF Shape
<1>5. ASSUME slots' \in Seq(Slots), dpc' \in DrainPCs, drain' \in DrainTypes,
             committed' \subseteq Sessions, failed' \subseteq Sessions,
             results' \in Seq(Sessions),
             batches' \in Seq([claimed : SUBSET Nat, remaining : Int]),
             reading' \subseteq IndexWork, indexDone' \in Seq(Nat)
      PROVE  Shape'
  BY <1>3, <1>4, <1>5 DEF Shape
<1>6. /\ slots \in Seq(Slots) /\ dpc \in DrainPCs /\ drain \in DrainTypes
      /\ committed \subseteq Sessions /\ failed \subseteq Sessions
      /\ results \in Seq(Sessions)
      /\ batches \in Seq([claimed : SUBSET Nat, remaining : Int])
      /\ reading \subseteq IndexWork /\ indexDone \in Seq(Nat)
  BY <1>1 DEF Shape
<1>7. CASE ReceiveAck
  <2> DEFINE p == drain.pending - 1
  <2>1. /\ drain' = [drain EXCEPT !.pending = p] /\ indexDone' = Tail(indexDone)
        /\ indexDone # <<>> /\ dpc' \in {dpc, "top"}
        /\ UNCHANGED <<committed, failed, results, batches, reading>>
    BY <1>7 DEF ReceiveAck
  <2>2. p \in Int
    <3>1. drain.pending \in Int
      BY <1>1, DrainFields
    <3> QED
      BY <3>1
  <2> HIDE DEF p
  <2>3. drain' \in DrainTypes
    BY <1>1, <2>1, <2>2, DrainFields
  <2>4. slots' \in Seq(Slots)
    BY <1>6, <1>7, AckRelabels, Relabelling DEF ReceiveAck, Relabelled
  <2>5. indexDone' \in Seq(Nat)
    BY <1>6, <2>1
  <2>6. dpc' \in DrainPCs
    BY <1>6, <2>1 DEF DrainPCs
  <2> QED
    BY <1>5, <1>6, <2>1, <2>3, <2>4, <2>5, <2>6
<1>8. CASE Look
  <2> DEFINE d == WorkersDone
             u == ReadySlots
             n == Len(slots)
  <2>1. /\ drain' = [drain EXCEPT !.done = d, !.seen = u, !.n = n]
        /\ dpc' = "drain"
        /\ UNCHANGED <<slots, committed, failed, results, batches, reading, indexDone>>
    BY <1>8 DEF Look
  <2>2. d \in BOOLEAN
    BY DEF WorkersDone
  <2>3. u \in SUBSET Nat /\ n \in Nat
    BY <1>1, SlotNumbers DEF ReadySlots
  <2> HIDE DEF d, u, n
  <2>4. drain' \in DrainTypes
    BY <1>1, <2>1, <2>2, <2>3, DrainFields
  <2> QED
    BY <1>5, <1>6, <2>1, <2>4 DEF DrainPCs
<1>9. CASE Drain
  <2>1. PICK batch \in Seq(Nat) : Drained(batch, drain.done)
    BY <1>1, <1>9, DrainClaims
  <2>2. slots' \in Seq(Slots)
    BY <1>6, <2>1, DrainedRelabels, Relabelling DEF Relabelled
  <2>3. /\ drain' = [drain EXCEPT !.batch = batch, !.seen = {}]
        /\ dpc' \in {"mirror", "acks", "wait"}
        /\ UNCHANGED <<committed, failed, results, batches, reading, indexDone>>
    BY <2>1 DEF Drained
  <2>4. drain' \in DrainTypes
    BY <1>1, <2>3, DrainFields
  <2>5. dpc' \in DrainPCs
    BY <2>3 DEF DrainPCs
  <2> QED
    BY <1>5, <1>6, <2>2, <2>3, <2>4, <2>5
<1>10. CASE Mirror
  <2>1. ToSet(drain.batch) \subseteq DOMAIN slots /\ Reports
    BY <1>1, <1>10, MirrorSteps
  <2>2. committed' \cup failed' =
          committed \cup failed \cup {slots[i].s : i \in ToSet(drain.batch)}
    BY <1>1, <1>10, MirrorSteps
  <2>3. \A i \in ToSet(drain.batch) : slots[i].s \in Sessions
    BY <1>1, <2>1, SlotNumbers DEF Slots
  <2>4. committed' \subseteq Sessions /\ failed' \subseteq Sessions
    <3>1. committed' \cup failed' \subseteq Sessions
      BY <1>6, <2>2, <2>3
    <3> QED
      BY <3>1
  <2>5. results' \in Seq(Sessions)
    BY <1>1, <2>1, ReportsTyped
  <2>6. UNCHANGED <<reading, indexDone>>
    BY <1>10 DEF Mirror
  <2>7. CASE MirrorAcks
    <3>1. slots' \in Seq(Slots)
      BY <1>6, <2>7, AckRelabels, Relabelling DEF MirrorAcks, Relabelled
    <3>2. dpc' = "top" /\ UNCHANGED <<drain, batches>>
      BY <2>7 DEF MirrorAcks
    <3> QED
      BY <1>5, <1>6, <2>4, <2>5, <2>6, <3>1, <3>2 DEF DrainPCs
  <2>8. ASSUME NEW metas \in Seq(Nat), MirrorHandsOver(metas)
        PROVE  Shape'
    <3> DEFINE p == drain.pending + 1
               x == [claimed |-> ToSet(drain.batch), remaining |-> Len(metas)]
    <3>1. /\ batches' = Append(batches, x) /\ UNCHANGED slots /\ dpc' = "send"
          /\ drain' = [drain EXCEPT !.metas = metas, !.pending = p]
      BY <2>8 DEF MirrorHandsOver
    <3>2. p \in Int
      <4>1. drain.pending \in Int
        BY <1>1, DrainFields
      <4> QED
        BY <4>1
    <3>3. ToSet(drain.batch) \in SUBSET Nat /\ Len(metas) \in Int
      BY <1>1, <2>1, SlotNumbers
    <3>4. x \in [claimed : SUBSET Nat, remaining : Int]
      BY <3>3
    <3> HIDE DEF p, x
    <3>5. drain' \in DrainTypes
      BY <1>1, <3>1, <3>2, DrainFields
    <3>6. batches' \in Seq([claimed : SUBSET Nat, remaining : Int])
      BY <1>6, <3>1, <3>4
    <3> QED
      BY <1>5, <1>6, <2>4, <2>5, <2>6, <3>1, <3>5, <3>6 DEF DrainPCs
  <2> QED
    BY <1>1, <1>10, <2>7, <2>8, MirrorSteps
<1>11. CASE SendIndexWork
  <2> DEFINE x == [batch |-> Len(batches), slot |-> Head(drain.metas)]
             m == Tail(drain.metas)
  <2>1. /\ reading' = reading \cup {x} /\ drain' = [drain EXCEPT !.metas = m]
        /\ dpc' \in {"top", "send"} /\ dpc = "send"
        /\ UNCHANGED <<slots, committed, failed, results, batches, indexDone>>
    BY <1>11 DEF SendIndexWork
  <2>2. drain.metas # <<>> /\ drain.metas \in Seq(Nat)
    BY <1>1, <2>1, DrainFields DEF BatchesOK
  <2>3. Head(drain.metas) \in Nat /\ m \in Seq(Nat) /\ Len(batches) \in Nat
    BY <1>1, <2>2, SlotNumbers
  <2>4. x \in IndexWork
    BY <2>3 DEF IndexWork
  <2> HIDE DEF x, m
  <2>5. drain' \in DrainTypes
    BY <1>1, <2>1, <2>3, DrainFields
  <2>6. dpc' \in DrainPCs
    BY <2>1 DEF DrainPCs
  <2> QED
    BY <1>5, <1>6, <2>1, <2>4, <2>5, <2>6
<1>12. CASE Wake
  <2>1. /\ drain' = drain \/ drain' = [drain EXCEPT !.ctxArm = FALSE]
        /\ dpc' = "top"
        /\ UNCHANGED <<slots, committed, failed, results, batches, reading, indexDone>>
    BY <1>12 DEF Wake
  <2>2. drain' \in DrainTypes
    BY <1>1, <2>1, DrainFields
  <2> QED
    BY <1>5, <1>6, <2>1, <2>2 DEF DrainPCs
<1>13. CASE DrainExit
  BY <1>5, <1>6, <1>13 DEF DrainExit, DrainPCs
<1> QED
  BY <1>7, <1>8, <1>9, <1>10, <1>11, <1>12, <1>13 DEF DrainLoop

\* A parser has read its transcript.
LEMMA ItemReadShape ==
    ASSUME Inv, NEW x \in reading, ItemRead(x)
    PROVE  /\ Shape' /\ x.batch \in DOMAIN batches /\ x \in IndexWork
           /\ DOMAIN batches' = DOMAIN batches /\ Len(batches') = Len(batches)
           /\ \A b \in DOMAIN batches :
                 /\ batches'[b].claimed = batches[b].claimed
                 /\ batches'[b].remaining =
                      IF b = x.batch THEN batches[b].remaining - 1
                      ELSE batches[b].remaining
<1> DEFINE B == [claimed : SUBSET Nat, remaining : Int]
           b0 == x.batch
           r == batches[b0].remaining - 1
           y == [batches[b0] EXCEPT !.remaining = r]
<1>1. Shape /\ x \in IndexWork /\ b0 \in DOMAIN batches
  BY DEF Inv, BatchesOK, Shape
<1>2. /\ reading' = reading \ {x}
      /\ batches' = [batches EXCEPT ![b0].remaining = r]
      /\ indexDone' = IF batches[b0].remaining = 1
                      THEN Append(indexDone, b0) ELSE indexDone
      /\ UNCHANGED <<workers, ring, slots, ready, drainer, cancelled>>
  BY DEF ItemRead
<1>3. batches \in Seq(B) /\ batches[b0] \in B
  <2>1. batches \in Seq(B)
    BY <1>1 DEF Shape
  <2> HIDE DEF B, b0
  <2> QED
    BY <1>1, <2>1
<1>4. batches' = [batches EXCEPT ![b0] = y]
  BY <1>1, <1>2, <1>3
<1>5. r \in Int /\ y \in B /\ y.claimed = batches[b0].claimed /\ y.remaining = r
  BY <1>3
<1> HIDE DEF y
<1>6. /\ batches' \in Seq(B) /\ DOMAIN batches' = DOMAIN batches
      /\ Len(batches') = Len(batches) /\ batches'[b0] = y
      /\ \A b \in DOMAIN batches : b # b0 => batches'[b] = batches[b]
  BY <1>1, <1>3, <1>4, <1>5
<1>7. indexDone' \in Seq(Nat)
  BY <1>1, <1>2 DEF Shape, IndexWork
<1>8. Shape'
  BY <1>1, <1>2, <1>6, <1>7 DEF Shape, WorkersOK, WorkerOK, InHand, workers, ring,
     drainer
<1> QED
  BY <1>1, <1>5, <1>6, <1>8

----------------------------------------------------------------------------
(* The slots. *)

\* One worker, or none, changes; what it publishes is told apart.
LEMMA WorkerSlots ==
    ASSUME Inv, NEW w \in Workers, Worker(w)
    PROVE  SlotsOK'
<1>1. Shape /\ Publishing /\ Draining /\ WorkersOK
  BY DEF Inv, SlotsOK, Shape
<1>2. DOMAIN work = Workers /\ DOMAIN wpc = Workers
  BY <1>1 DEF WorkersOK
<1>3. UNCHANGED <<dpc, drain>>
  BY DEF Worker, TakeRoot, WorkerExit, Process, CopyToArena, StageOutside,
     ClaimSlot, Publish, WorkerOnly, drainer
<1>4. wpc[w] # "exit"
  BY DEF Worker, TakeRoot, WorkerExit, Process, CopyToArena, StageOutside,
     ClaimSlot, Publish
<1>5. ~WorkersDone
  BY <1>4 DEF WorkersDone
<1>6. \A v \in Workers \ {w} : wpc'[v] = wpc[v] /\ work'[v] = work[v]
  BY <1>2 DEF Worker, TakeRoot, WorkerExit, Process, CopyToArena, StageOutside,
     ClaimSlot, Publish
<1>7. CASE \/ TakeRoot(w) \/ WorkerExit(w) \/ Process(w) \/ CopyToArena(w)
           \/ StageOutside(w)
  <2>1. UNCHANGED slots /\ wpc[w] # "publish" /\ wpc'[w] # "publish"
    BY <1>2, <1>7 DEF TakeRoot, WorkerExit, Process, CopyToArena, StageOutside
  <2>2. Publishing'
    BY <1>1, <1>6, <2>1 DEF Publishing
  <2>3. Draining'
    BY <1>1, <1>3, <1>5, <2>1 DEF Draining, ReadySlots
  <2> QED
    BY <2>2, <2>3 DEF SlotsOK
<1>8. CASE ClaimSlot(w)
  <2> DEFINE n == Len(slots) + 1
             e == [s |-> work[w].s, kind |-> work[w].kind,
                   start |-> work[w].start, len |-> work[w].size,
                   pad |-> work[w].pad, state |-> "empty"]
  <2>1. /\ slots' = Append(slots, e) /\ wpc[w] = "slot"
        /\ wpc'[w] = "publish" /\ work'[w].slot = n
    <3>1. work'[w] = [work[w] EXCEPT !.slot = n]
      BY <1>2, <1>8 DEF ClaimSlot
    <3>2. work[w] \in Works
      BY <1>1 DEF WorkersOK, WorkerOK
    <3>3. work'[w].slot = n
      BY <3>1, <3>2 DEF Works
    <3> QED
      BY <1>2, <1>8, <3>3 DEF ClaimSlot
  <2>2. slots \in Seq(Slots) /\ e.state = "empty"
    BY <1>1 DEF Shape
  <2> HIDE DEF e
  <2>3. /\ DOMAIN slots' = DOMAIN slots \cup {n} /\ n \notin DOMAIN slots
        /\ \A i \in DOMAIN slots : slots'[i] = slots[i]
        /\ slots'[n] = e
    BY <2>1, <2>2
  <2> HIDE DEF n
  <2>4. Publishing'
    BY <1>1, <1>6, <2>1, <2>2, <2>3 DEF Publishing
  <2>5. ReadySlots' = ReadySlots
    BY <2>2, <2>3 DEF ReadySlots
  <2>6. Draining'
    BY <1>1, <1>3, <1>5, <2>3, <2>5 DEF Draining
  <2> QED
    BY <2>4, <2>6 DEF SlotsOK
<1>9. CASE Publish(w)
  <2> DEFINE n == work[w].slot
  <2>1. /\ wpc[w] = "publish" /\ wpc'[w] # "publish"
    BY <1>2, <1>9 DEF Publish
  <2>2. n \in DOMAIN slots /\ slots[n].state = "empty"
    BY <1>1, <2>1 DEF Publishing
  <2>3. /\ DOMAIN slots' = DOMAIN slots
        /\ \A i \in DOMAIN slots :
              slots'[i].state = IF i \in {n} THEN "ready" ELSE slots[i].state
    BY <1>1, <1>9, PublishRelabels, Relabelling DEF SlotsOK, Relabelled, Shape
  <2>4. \A v \in Workers \ {w} : wpc[v] = "publish" => work[v].slot # n
    BY <1>1, <2>1 DEF Publishing
  <2> HIDE DEF n
  <2>5. Publishing'
    <3>1. \A v \in Workers : wpc'[v] = "publish" =>
             /\ v # w /\ wpc[v] = "publish" /\ work'[v] = work[v]
             /\ work[v].slot # n
      BY <1>6, <2>1, <2>4
    <3>2. \A i \in DOMAIN slots : slots'[i].state = "empty" =>
             slots[i].state = "empty" /\ i # n
      BY <2>3
    <3>3. \A i \in DOMAIN slots : slots'[i].state = "empty" =>
             \E v \in Workers : wpc'[v] = "publish" /\ work'[v].slot = i
      <4> SUFFICES ASSUME NEW i \in DOMAIN slots, slots'[i].state = "empty"
                   PROVE  \E v \in Workers : wpc'[v] = "publish" /\ work'[v].slot = i
        OBVIOUS
      <4>1. PICK v \in Workers : wpc[v] = "publish" /\ work[v].slot = i
        BY <1>1, <3>2 DEF Publishing
      <4>2. v # w
        BY <3>2, <4>1 DEF n
      <4> QED
        BY <1>6, <4>1, <4>2
    <3> QED
      BY <1>1, <2>3, <3>1, <3>3 DEF Publishing
  <2>6. ReadySlots \subseteq ReadySlots'
    BY <2>2, <2>3 DEF ReadySlots
  <2>7. Draining'
    <3>1. dpc = "mirror" => \A i \in ToSet(drain.batch) :
             i \in DOMAIN slots /\ slots'[i].state = "claimed"
      BY <1>1, <2>2, <2>3 DEF Draining
    <3> QED
      BY <1>1, <1>3, <1>5, <2>3, <2>6, <3>1 DEF Draining
  <2> QED
    BY <2>5, <2>7 DEF SlotsOK
<1> QED
  BY <1>7, <1>8, <1>9 DEF Worker

\* The drain loop leaves what is being published alone.
LEMMA PublishingKept ==
    ASSUME Publishing, UNCHANGED <<wpc, work>>, DOMAIN slots' = DOMAIN slots,
           \A i \in DOMAIN slots :
              slots'[i].state = "empty" <=> slots[i].state = "empty"
    PROVE  Publishing'
BY DEF Publishing

(***************************************************************************)
(* When the workers are done, no ready slot waits for a parent that is not *)
(* there: the parents were staged too, and since the scheduling edges have *)
(* no cycle one of the ready slots has a parent that was mirrored.         *)
(***************************************************************************)
LEMMA SomeEligible ==
    ASSUME Inv, WorkersDone, dpc = "drain", ReadySlots # {}
    PROVE  \E i \in ReadySlots : Eligible(slots[i].s)
<1>1. /\ Shape /\ Publishing /\ Reached /\ Reported
      /\ \A i \in DOMAIN slots : slots[i] \in Slots
  BY SlotNumbers DEF Inv, SlotsOK
<1>2. ReadySlots \subseteq DOMAIN slots
  BY DEF ReadySlots
<1> DEFINE S == {slots[i].s : i \in ReadySlots}
<1>3. S \in SUBSET Sessions /\ S # {}
  BY <1>1, <1>2 DEF Slots
<1>4. PICK s \in S : Parent[s] \notin S
  BY <1>3, AcyclicAssumption
<1>5. PICK i \in ReadySlots : slots[i].s = s
  BY <1>4
<1> HIDE DEF S
<1>6. CASE Parent[s] = None
  BY <1>5, <1>6 DEF Eligible
<1>7. CASE Parent[s] # None
  <2>1. s \in Processed
    BY <1>2, <1>5 DEF Processed, Staged
  <2>2. Parent[s] \in Processed
    BY <1>1, <1>7, <2>1 DEF Reached, Known
  <2>3. Parent[s] \in Staged
    BY <2>2 DEF Processed, WorkersDone, InHand
  <2>4. PICK j \in DOMAIN slots : slots[j].s = Parent[s]
    BY <2>3 DEF Staged
  <2>5. j \notin ReadySlots
    BY <1>4, <2>4 DEF S
  <2>6. slots[j].state # "empty"
    BY <1>1 DEF Publishing, WorkersDone
  <2>7. slots[j].state \in {"claimed", "acked"}
    BY <1>1, <2>5, <2>6 DEF ReadySlots, Slots
  <2>8. j \in Mirrored
    BY <2>7 DEF Mirrored, InBatch
  <2>9. Parent[s] \in committed \cup failed
    BY <1>1, <2>4, <2>8 DEF Reported
  <2> QED
    BY <1>5, <2>9 DEF Eligible
<1> QED
  BY <1>6, <1>7

\* What an acknowledgement finds: claimed slots, of the batch that reported
\* first or of the batch that was just mirrored.
LEMMA AckOfBatch ==
    ASSUME Inv, ReceiveAck
    PROVE  LET b == Head(indexDone)
               C == batches[b].claimed
           IN  /\ b \in ToSet(indexDone) /\ b \in DOMAIN batches /\ b \in Pending
               /\ batches[b].remaining = 0
               /\ Ack(C) /\ C \subseteq DOMAIN slots
               /\ \A i \in C : slots[i].state = "claimed"
               /\ indexDone' = Tail(indexDone) /\ Injective(Tail(indexDone))
               /\ ToSet(Tail(indexDone)) = ToSet(indexDone) \ {b}
<1> DEFINE b == Head(indexDone)
           C == batches[b].claimed
<1>1. Shape /\ BatchesOK /\ Owed
  BY DEF Inv
<1>2. /\ indexDone # <<>> /\ Ack(C) /\ indexDone' = Tail(indexDone)
  BY DEF ReceiveAck
<1>3. indexDone \in Seq(Nat) /\ Injective(indexDone)
  BY <1>1 DEF Shape, BatchesOK
<1>4. /\ b \in ToSet(indexDone) /\ Injective(Tail(indexDone))
      /\ ToSet(Tail(indexDone)) = ToSet(indexDone) \ {b}
  BY <1>2, <1>3, TailOf
<1> HIDE DEF b, C
<1>5. b \in DOMAIN batches /\ b \in Pending /\ batches[b].remaining = 0
  BY <1>1, <1>4 DEF BatchesOK, Pending
<1>6. C \subseteq DOMAIN slots
  BY <1>1, <1>5 DEF BatchesOK, C
<1>7. \A i \in C : slots[i].state = "claimed"
  BY <1>1, <1>5 DEF Owed, C
<1> QED
  BY <1>2, <1>4, <1>5, <1>6, <1>7 DEF b, C

\* An acknowledgement of claimed slots leaves the ready and the empty ones.
LEMMA AckChanges ==
    ASSUME Shape, NEW C \in SUBSET DOMAIN slots, Ack(C),
           \A i \in C : slots[i].state = "claimed"
    PROVE  /\ Relabelled
           /\ \A i \in DOMAIN slots :
                 /\ slots'[i].state = IF i \in C THEN "acked" ELSE slots[i].state
                 /\ slots'[i].state = "empty" <=> slots[i].state = "empty"
           /\ ReadySlots' = ReadySlots
<1>1. /\ Relabelled
      /\ \A i \in DOMAIN slots :
            slots'[i].state = IF i \in C THEN "acked" ELSE slots[i].state
  BY AckRelabels, Relabelling DEF Shape
<1>2. DOMAIN slots' = DOMAIN slots
  BY <1>1 DEF Relabelled
<1>3. \A i \in DOMAIN slots :
         slots'[i].state = "empty" <=> slots[i].state = "empty"
  BY <1>1
<1>4. ReadySlots' = ReadySlots
  BY <1>1, <1>2 DEF ReadySlots
<1> QED
  BY <1>1, <1>3, <1>4

\* The drain keeps every slot in the state its holder needs.
LEMMA DrainSlots ==
    ASSUME Inv, DrainLoop
    PROVE  SlotsOK'
<1>1. Shape /\ Publishing /\ Draining /\ SlotsOK /\ BatchesOK
  BY DEF Inv, SlotsOK
<1>2. UNCHANGED <<todo, wpc, work>>
  BY DEF DrainLoop, ReceiveAck, Look, Drain, Drained, Mirror, SendIndexWork, Wake,
     DrainExit, DrainOnly, workers
<1>3. WorkersDone' = WorkersDone
  BY <1>2 DEF WorkersDone
<1>4. UNCHANGED slots => Publishing'
  BY <1>1, <1>2, PublishingKept
<1>5. CASE ReceiveAck
  <2> DEFINE C == batches[Head(indexDone)].claimed
  <2>1. /\ Ack(C) /\ C \subseteq DOMAIN slots
        /\ \A i \in C : slots[i].state = "claimed"
    BY <1>5, AckOfBatch
  <2> HIDE DEF C
  <2>2. /\ DOMAIN slots' = DOMAIN slots
        /\ \A i \in DOMAIN slots :
              /\ slots'[i].state = IF i \in C THEN "acked" ELSE slots[i].state
              /\ slots'[i].state = "empty" <=> slots[i].state = "empty"
    BY <1>1, <2>1, AckChanges DEF Relabelled
  <2>3. Publishing'
    BY <1>1, <1>2, <2>2, PublishingKept
  <2>4. dpc' \in {"top", "send", "acks"} /\ (dpc' = "acks" => dpc = "acks")
    BY <1>5 DEF ReceiveAck
  <2>5. Draining'
    BY <1>1, <1>3, <2>2, <2>4 DEF Draining
  <2> QED
    BY <2>3, <2>5 DEF SlotsOK
<1>6. CASE Look
  <2>1. /\ UNCHANGED slots /\ dpc' = "drain"
        /\ drain' = [drain EXCEPT !.done = WorkersDone, !.seen = ReadySlots,
                                  !.n = Len(slots)]
    BY <1>6 DEF Look
  <2>2. drain'.seen = ReadySlots
    BY <1>1, <2>1, DrainFields DEF DrainTypes
  <2>3. drain'.done = WorkersDone
    BY <1>1, <2>1, DrainFields DEF DrainTypes
  <2>4. ReadySlots' = ReadySlots
    BY <2>1 DEF ReadySlots
  <2>5. Draining'
    BY <1>3, <2>1, <2>2, <2>3, <2>4 DEF Draining
  <2> QED
    BY <1>4, <2>1, <2>5 DEF SlotsOK
<1>7. CASE Drain
  <2> DEFINE seen == {i \in drain.seen : Eligible(slots[i].s)}
  <2>1. PICK batch \in Seq(Nat) :
           /\ Drained(batch, drain.done) /\ Injective(batch)
           /\ ToSet(batch) \subseteq ReadySlots
           /\ batch = <<>> => seen = {}
    BY <1>1, <1>7, DrainClaims
  <2>2. /\ DOMAIN slots' = DOMAIN slots
        /\ \A i \in DOMAIN slots :
              slots'[i].state = IF i \in ToSet(batch) THEN "claimed"
                                ELSE slots[i].state
    BY <1>1, <2>1, DrainedRelabels, Relabelling DEF Shape, Relabelled
  <2>3. /\ ToSet(batch) \subseteq DOMAIN slots
        /\ \A i \in ToSet(batch) : slots[i].state = "ready"
    BY <2>1 DEF ReadySlots
  <2>4. Publishing'
    <3>1. \A i \in DOMAIN slots :
             slots'[i].state = "empty" <=> slots[i].state = "empty"
      BY <2>2, <2>3
    <3> QED
      BY <1>1, <1>2, <2>2, <3>1, PublishingKept
  <2>5. /\ drain' = [drain EXCEPT !.batch = batch, !.seen = {}]
        /\ dpc' = IF batch # <<>> THEN "mirror"
                  ELSE IF drain.done THEN "acks" ELSE "wait"
    BY <2>1 DEF Drained
  <2>6. drain'.batch = batch
    BY <1>1, <2>5, DrainFields DEF DrainTypes
  <2>7. CASE dpc' = "acks"
    <3>1. batch = <<>> /\ drain.done /\ dpc = "drain"
      BY <1>7, <2>5, <2>7 DEF Drain
    <3>2. WorkersDone /\ drain.seen = ReadySlots /\ seen = {}
      BY <1>1, <2>1, <3>1 DEF Draining
    <3>3. ReadySlots = {}
      BY <3>1, <3>2, SomeEligible
    <3>4. ToSet(batch) = {}
      BY <3>1 DEF ToSet
    <3>5. \A i \in DOMAIN slots : slots[i].state \in {"claimed", "acked"}
      <4> SUFFICES ASSUME NEW i \in DOMAIN slots
                   PROVE  slots[i].state \in {"claimed", "acked"}
        OBVIOUS
      <4>1. slots[i].state # "ready" /\ slots[i] \in Slots
        BY <1>1, <3>3, SlotNumbers DEF ReadySlots
      <4>2. slots[i].state # "empty"
        BY <1>1, <3>2 DEF Publishing, WorkersDone
      <4> QED
        BY <4>1, <4>2 DEF Slots
    <3> QED
      BY <1>3, <2>2, <2>4, <2>7, <3>2, <3>4, <3>5 DEF SlotsOK, Draining
  <2>8. CASE dpc' = "mirror"
    <3>1. batch # <<>>
      BY <2>5, <2>8
    <3> QED
      BY <2>1, <2>2, <2>3, <2>4, <2>6, <2>8, <3>1 DEF SlotsOK, Draining
  <2>9. CASE dpc' = "wait"
    BY <2>4, <2>9 DEF SlotsOK, Draining
  <2> QED
    BY <2>5, <2>7, <2>8, <2>9
<1>8. CASE Mirror
  <2>1. dpc = "mirror" /\ ToSet(drain.batch) \in SUBSET DOMAIN slots
    BY <1>1, <1>8, MirrorSteps
  <2>2. \A i \in ToSet(drain.batch) : slots[i].state = "claimed"
    BY <1>1, <2>1 DEF Draining
  <2>3. CASE MirrorAcks
    <3>1. Ack(ToSet(drain.batch)) /\ dpc' = "top"
      BY <2>3 DEF MirrorAcks
    <3>2. /\ DOMAIN slots' = DOMAIN slots
          /\ \A i \in DOMAIN slots :
                slots'[i].state = "empty" <=> slots[i].state = "empty"
      BY <1>1, <2>1, <2>2, <3>1, AckChanges DEF Relabelled
    <3>3. Publishing'
      BY <1>1, <1>2, <3>2, PublishingKept
    <3> QED
      BY <3>1, <3>3 DEF SlotsOK, Draining
  <2>4. ASSUME NEW metas, MirrorHandsOver(metas)
        PROVE  SlotsOK'
    <3>1. dpc' = "send" /\ UNCHANGED slots
      BY <2>4 DEF MirrorHandsOver
    <3> QED
      BY <1>4, <3>1 DEF SlotsOK, Draining
  <2> QED
    BY <1>1, <1>8, <2>3, <2>4, MirrorSteps
<1>9. CASE SendIndexWork \/ Wake
  <2>1. UNCHANGED slots /\ dpc' \in {"top", "send"}
    BY <1>9 DEF SendIndexWork, Wake
  <2> QED
    BY <1>4, <2>1 DEF SlotsOK, Draining
<1>10. CASE DrainExit
  <2>1. UNCHANGED slots /\ dpc = "acks" /\ dpc' = "exit"
    BY <1>10 DEF DrainExit
  <2> QED
    BY <1>1, <1>3, <1>4, <2>1 DEF SlotsOK, Draining
<1> QED
  BY <1>5, <1>6, <1>7, <1>8, <1>9, <1>10 DEF DrainLoop

----------------------------------------------------------------------------
(* The batches. *)

\* A step that neither hands anything to the parsers nor hears from them.
LEMMA BatchesKept ==
    ASSUME BatchesOK, UNCHANGED <<batches, reading, indexDone>>,
           drain'.metas = drain.metas, (dpc' = "send") = (dpc = "send"),
           DOMAIN slots \subseteq DOMAIN slots'
    PROVE  BatchesOK'
<1>1. \A b \in DOMAIN batches : Outstanding(b)' = Outstanding(b)
  BY DEF Outstanding
<1>2. \A b \in DOMAIN batches :
         /\ batches'[b].claimed \subseteq DOMAIN slots'
         /\ Outstanding(b)' \subseteq batches'[b].claimed
         /\ batches'[b].remaining = Cardinality(Outstanding(b)')
  BY <1>1 DEF BatchesOK
<1>3. \A b, c \in DOMAIN batches' :
         b # c => batches'[b].claimed \cap batches'[c].claimed = {}
  BY DEF BatchesOK
<1>4. \A x \in reading' : /\ x.batch \in DOMAIN batches'
                          /\ x.batch = Len(batches') => x.slot \notin ToSet(drain'.metas)
  BY DEF BatchesOK
<1>5. /\ Injective(drain'.metas) /\ Injective(indexDone')
      /\ (drain'.metas # <<>>) <=> (dpc' = "send")
      /\ dpc' = "send" => batches' # <<>>
  BY DEF BatchesOK
<1>6. \A b \in ToSet(indexDone') : b \in DOMAIN batches' /\ batches'[b].remaining = 0
  BY DEF BatchesOK
<1> QED
  BY <1>2, <1>3, <1>4, <1>5, <1>6 DEF BatchesOK

\* A step after which the same slots are claimed for the same batches.
LEMMA OwedKept ==
    ASSUME Owed, BatchesOK, UNCHANGED batches, Pending' = Pending,
           drain'.pending = drain.pending, drain'.batch = drain.batch,
           (dpc' = "mirror") = (dpc = "mirror"),
           dpc' = "exit" => drain.pending = 0,
           DOMAIN slots \subseteq DOMAIN slots',
           \A i \in DOMAIN slots :
              \/ slots'[i].state = slots[i].state
              \/ {slots'[i].state, slots[i].state} \subseteq {"empty", "ready"},
           \A i \in DOMAIN slots' \ DOMAIN slots :
              slots'[i].state # "claimed" /\ ~InBatch(i)
    PROVE  Owed'
<1>1. \A i : InBatch(i)' = InBatch(i)
  BY DEF InBatch
<1>2. Pending \subseteq DOMAIN batches
  BY DEF Pending, BatchesOK
<1>3. \A b \in DOMAIN batches' : \A i \in batches'[b].claimed :
         slots'[i].state = IF b \in Pending' THEN "claimed" ELSE "acked"
  <2> SUFFICES ASSUME NEW b \in DOMAIN batches, NEW i \in batches[b].claimed
               PROVE  slots'[i].state = IF b \in Pending THEN "claimed" ELSE "acked"
    OBVIOUS
  <2>1. i \in DOMAIN slots
    BY DEF BatchesOK
  <2>2. slots[i].state = IF b \in Pending THEN "claimed" ELSE "acked"
    BY DEF Owed
  <2> QED
    BY <2>1, <2>2
<1>4. \A i \in DOMAIN slots' : slots'[i].state = "claimed" =>
         InBatch(i)' \/ \E b \in Pending' : i \in batches'[b].claimed
  BY <1>1 DEF Owed
<1>5. \A i \in DOMAIN slots' : InBatch(i)' =>
         \A b \in DOMAIN batches' : i \notin batches'[b].claimed
  BY <1>1 DEF Owed
<1>6. drain'.pending = Cardinality(Pending') /\ (dpc' = "exit" => drain'.pending = 0)
  BY DEF Owed
<1> QED
  BY <1>3, <1>4, <1>5, <1>6 DEF Owed

\* Workers keep the batches and what is still owed for them.
LEMMA WorkerBatches ==
    ASSUME Inv, NEW w \in Workers, Worker(w)
    PROVE  BatchesOK' /\ Owed'
<1>1. Shape /\ SlotsOK /\ BatchesOK /\ Owed
  BY DEF Inv
<1>2. UNCHANGED <<dpc, drain, batches, reading, indexDone>>
  BY DEF Worker, TakeRoot, WorkerExit, Process, CopyToArena, StageOutside,
     ClaimSlot, Publish, WorkerOnly, drainer
<1>3. Pending' = Pending
  BY <1>2 DEF Pending
<1>4. dpc # "exit"
  <2>1. ~WorkersDone
    BY DEF Worker, TakeRoot, WorkerExit, Process, CopyToArena, StageOutside,
       ClaimSlot, Publish, WorkersDone
  <2> QED
    BY <1>1, <2>1 DEF SlotsOK, Draining
<1>5. \A i : InBatch(i) => i \in DOMAIN slots
  BY <1>1 DEF InBatch, SlotsOK, Draining
<1>6. /\ DOMAIN slots \subseteq DOMAIN slots'
      /\ \A i \in DOMAIN slots :
            \/ slots'[i].state = slots[i].state
            \/ {slots'[i].state, slots[i].state} \subseteq {"empty", "ready"}
      /\ \A i \in DOMAIN slots' \ DOMAIN slots : slots'[i].state # "claimed"
  <2>1. CASE ClaimSlot(w)
    <3> DEFINE e == [s |-> work[w].s, kind |-> work[w].kind,
                     start |-> work[w].start, len |-> work[w].size,
                     pad |-> work[w].pad, state |-> "empty"]
    <3>1. slots' = Append(slots, e) /\ e.state = "empty" /\ slots \in Seq(Slots)
      BY <1>1, <2>1 DEF ClaimSlot, Shape
    <3> HIDE DEF e
    <3>2. /\ DOMAIN slots' = DOMAIN slots \cup {Len(slots) + 1}
          /\ \A i \in DOMAIN slots : slots'[i] = slots[i]
          /\ slots'[Len(slots) + 1] = e
      BY <3>1
    <3> QED
      BY <3>1, <3>2
  <2>2. CASE Publish(w)
    <3> DEFINE n == work[w].slot
    <3>1. slots[n].state = "empty"
      BY <1>1, <2>2 DEF Publish, SlotsOK, Publishing
    <3>2. /\ DOMAIN slots' = DOMAIN slots
          /\ \A i \in DOMAIN slots :
                slots'[i].state = IF i \in {n} THEN "ready" ELSE slots[i].state
      BY <1>1, <2>2, PublishRelabels, Relabelling DEF Relabelled, Shape
    <3> HIDE DEF n
    <3> QED
      BY <3>1, <3>2
  <2>3. CASE UNCHANGED slots
    BY <2>3
  <2> QED
    BY <2>1, <2>2, <2>3 DEF Worker, TakeRoot, WorkerExit, Process, CopyToArena,
       StageOutside
<1>7. BatchesOK'
  BY <1>1, <1>2, <1>6, BatchesKept
<1>8. Owed'
  BY <1>1, <1>2, <1>3, <1>4, <1>5, <1>6, OwedKept
<1> QED
  BY <1>7, <1>8

\* Batches that await an acknowledgement are finitely many.
LEMMA PendingSet ==
    ASSUME Shape, BatchesOK
    PROVE  Pending \subseteq DOMAIN batches /\ IsFiniteSet(Pending)
<1>1. Pending \subseteq DOMAIN batches
  BY DEF Pending, BatchesOK
<1>2. IsFiniteSet(DOMAIN batches)
  BY SlotNumbers, FS_Interval
<1> QED
  BY <1>1, <1>2, FS_Subset

\* A batch is acknowledged once: it leaves Pending with its slots.
LEMMA ReceiveAckBatches ==
    ASSUME Inv, ReceiveAck
    PROVE  BatchesOK' /\ Owed'
<1> DEFINE b0 == Head(indexDone)
           C == batches[b0].claimed
           p == drain.pending - 1
<1>1. Shape /\ SlotsOK /\ BatchesOK /\ Owed
  BY DEF Inv
<1>2. /\ b0 \in ToSet(indexDone) /\ b0 \in DOMAIN batches /\ b0 \in Pending
      /\ batches[b0].remaining = 0
      /\ Ack(C) /\ C \subseteq DOMAIN slots
      /\ \A i \in C : slots[i].state = "claimed"
      /\ indexDone' = Tail(indexDone) /\ Injective(indexDone')
      /\ ToSet(indexDone') = ToSet(indexDone) \ {b0}
  BY AckOfBatch
<1>3. /\ drain' = [drain EXCEPT !.pending = p]
      /\ UNCHANGED <<batches, reading>>
      /\ dpc \in {"top", "send", "wait", "acks"}
      /\ dpc' = IF dpc = "wait" THEN "top" ELSE dpc
  BY DEF ReceiveAck
<1>4. drain'.metas = drain.metas /\ drain'.pending = p
  BY <1>1, <1>3, DrainFields DEF DrainTypes
<1> HIDE DEF b0, p
<1>5. /\ DOMAIN slots' = DOMAIN slots
      /\ \A i \in DOMAIN slots :
            slots'[i].state = IF i \in C THEN "acked" ELSE slots[i].state
  <2> HIDE DEF C
  <2> QED
    BY <1>1, <1>2, AckChanges DEF Relabelled
<1>6. BatchesOK'
  <2>1. \A b \in DOMAIN batches : Outstanding(b)' = Outstanding(b)
    BY <1>3, <1>4 DEF Outstanding
  <2>2. \A b \in DOMAIN batches' :
           /\ batches'[b].claimed \subseteq DOMAIN slots'
           /\ Outstanding(b)' \subseteq batches'[b].claimed
           /\ batches'[b].remaining = Cardinality(Outstanding(b)')
    BY <1>1, <1>3, <1>5, <2>1 DEF BatchesOK
  <2>3. \A b, c \in DOMAIN batches' :
           b # c => batches'[b].claimed \cap batches'[c].claimed = {}
    BY <1>1, <1>3 DEF BatchesOK
  <2>4. \A x \in reading' :
           /\ x.batch \in DOMAIN batches'
           /\ x.batch = Len(batches') => x.slot \notin ToSet(drain'.metas)
    BY <1>1, <1>3, <1>4 DEF BatchesOK
  <2>5. (dpc' = "send") <=> (dpc = "send")
    BY <1>3
  <2>6. /\ Injective(drain'.metas) /\ Injective(indexDone')
        /\ (drain'.metas # <<>>) <=> (dpc' = "send")
        /\ dpc' = "send" => batches' # <<>>
    BY <1>1, <1>2, <1>3, <1>4, <2>5 DEF BatchesOK
  <2>7. \A b \in ToSet(indexDone') : b \in DOMAIN batches' /\ batches'[b].remaining = 0
    BY <1>1, <1>2, <1>3 DEF BatchesOK
  <2> QED
    BY <2>2, <2>3, <2>4, <2>6, <2>7 DEF BatchesOK
<1>7. Pending' = Pending \ {b0}
  <2>1. ~(0 > 0)
    OBVIOUS
  <2> QED
    BY <1>2, <1>3, <2>1 DEF Pending
<1>8. Owed'
  <2>1. \A b \in DOMAIN batches : \A i \in batches[b].claimed :
           slots'[i].state = IF b \in Pending' THEN "claimed" ELSE "acked"
    <3> SUFFICES ASSUME NEW b \in DOMAIN batches, NEW i \in batches[b].claimed
                 PROVE  slots'[i].state = IF b \in Pending' THEN "claimed" ELSE "acked"
      OBVIOUS
    <3>1. i \in DOMAIN slots
      BY <1>1 DEF BatchesOK
    <3>2. slots[i].state = IF b \in Pending THEN "claimed" ELSE "acked"
      BY <1>1 DEF Owed
    <3>3. b # b0 => i \notin C
      BY <1>1, <1>2 DEF BatchesOK
    <3> QED
      BY <1>5, <1>7, <3>1, <3>2, <3>3
  <2>2. \A i : ~InBatch(i) /\ ~InBatch(i)'
    BY <1>3 DEF InBatch
  <2>3. \A i \in DOMAIN slots : slots'[i].state = "claimed" =>
           \E b \in Pending' : i \in batches[b].claimed
    <3> SUFFICES ASSUME NEW i \in DOMAIN slots, slots'[i].state = "claimed"
                 PROVE  \E b \in Pending' : i \in batches[b].claimed
      OBVIOUS
    <3>1. i \notin C /\ slots[i].state = "claimed"
      BY <1>5
    <3>2. PICK b \in Pending : i \in batches[b].claimed
      BY <1>1, <2>2, <3>1 DEF Owed
    <3> QED
      BY <1>7, <3>1, <3>2
  <2>4. drain'.pending = Cardinality(Pending')
    <3>1. IsFiniteSet(Pending)
      BY <1>1, PendingSet
    <3>2. Cardinality(Pending \ {b0}) = Cardinality(Pending) - 1
      BY <1>2, <3>1, FS_RemoveElement
    <3> QED
      BY <1>1, <1>4, <1>7, <3>2 DEF Owed, p
  <2>5. dpc' # "exit"
    BY <1>3
  <2> QED
    BY <1>3, <1>5, <2>1, <2>2, <2>3, <2>4, <2>5 DEF Owed
<1> QED
  BY <1>6, <1>8

\* The drain loop claims slots that no batch holds.
LEMMA DrainBatches ==
    ASSUME Inv, Drain
    PROVE  BatchesOK' /\ Owed'
<1>1. Shape /\ SlotsOK /\ BatchesOK /\ Owed
  BY DEF Inv
<1>2. PICK batch \in Seq(Nat) :
         /\ Drained(batch, drain.done) /\ ToSet(batch) \subseteq ReadySlots
  BY <1>1, DrainClaims
<1>3. /\ drain' = [drain EXCEPT !.batch = batch, !.seen = {}]
      /\ dpc = "drain" /\ dpc' \in {"mirror", "acks", "wait"}
      /\ dpc' = "mirror" <=> batch # <<>>
      /\ UNCHANGED <<batches, reading, indexDone>>
  BY <1>2 DEF Drained, Drain
<1>4. /\ drain'.metas = drain.metas /\ drain'.pending = drain.pending
      /\ drain'.batch = batch
  BY <1>1, <1>3, DrainFields DEF DrainTypes
<1>5. /\ DOMAIN slots' = DOMAIN slots
      /\ \A i \in DOMAIN slots :
            slots'[i].state = IF i \in ToSet(batch) THEN "claimed"
                              ELSE slots[i].state
  BY <1>1, <1>2, DrainedRelabels, Relabelling DEF Shape, Relabelled
<1>6. \A i \in ToSet(batch) : i \in DOMAIN slots /\ slots[i].state = "ready"
  BY <1>2 DEF ReadySlots
<1>7. BatchesOK'
  BY <1>1, <1>3, <1>4, <1>5, BatchesKept
<1>8. Pending' = Pending
  BY <1>3 DEF Pending
<1>9. \A i : ~InBatch(i) /\ (InBatch(i)' <=> i \in ToSet(batch))
  <2>1. batch = <<>> => ToSet(batch) = {}
    BY DEF ToSet
  <2> QED
    BY <1>3, <1>4, <2>1 DEF InBatch
<1>10. \A b \in DOMAIN batches : \A i \in batches[b].claimed :
          i \notin ToSet(batch) /\ i \in DOMAIN slots
  BY <1>1, <1>6 DEF BatchesOK, Owed
<1>11. Owed'
  <2>1. \A b \in DOMAIN batches : \A i \in batches[b].claimed :
           slots'[i].state = IF b \in Pending THEN "claimed" ELSE "acked"
    BY <1>1, <1>5, <1>10 DEF Owed
  <2>2. \A i \in DOMAIN slots : slots'[i].state = "claimed" =>
           i \in ToSet(batch) \/ \E b \in Pending : i \in batches[b].claimed
    BY <1>1, <1>5, <1>9 DEF Owed
  <2>3. drain.pending = Cardinality(Pending) /\ dpc' # "exit"
    BY <1>1, <1>3 DEF Owed
  <2> QED
    BY <1>3, <1>4, <1>5, <1>8, <1>9, <1>10, <2>1, <2>2, <2>3 DEF Owed
<1> QED
  BY <1>7, <1>11

\* The drained batch is acknowledged at once, or becomes a batch of the parsers.
LEMMA MirrorBatches ==
    ASSUME Inv, Mirror
    PROVE  BatchesOK' /\ Owed'
<1> DEFINE C == ToSet(drain.batch)
<1>1. Shape /\ SlotsOK /\ BatchesOK /\ Owed
  BY DEF Inv
<1>2. dpc = "mirror" /\ C \subseteq DOMAIN slots /\ UNCHANGED <<reading, indexDone>>
  BY <1>1, MirrorSteps DEF Mirror
<1>3. \A i : InBatch(i) <=> i \in C
  BY <1>2 DEF InBatch
<1>4. \A i \in C : slots[i].state = "claimed"
  BY <1>1, <1>2 DEF SlotsOK, Draining
<1>5. \A b \in DOMAIN batches : \A i \in batches[b].claimed :
         i \notin C /\ i \in DOMAIN slots
  BY <1>1, <1>2, <1>3 DEF BatchesOK, Owed
<1>6. CASE MirrorAcks
  <2>1. Ack(C) /\ dpc' = "top" /\ UNCHANGED <<drain, batches>>
    BY <1>6 DEF MirrorAcks
  <2>2. /\ DOMAIN slots' = DOMAIN slots
        /\ \A i \in DOMAIN slots :
              slots'[i].state = IF i \in C THEN "acked" ELSE slots[i].state
    <3> HIDE DEF C
    <3> QED
      BY <1>1, <1>2, <1>4, <2>1, AckChanges DEF Relabelled
  <2>3. BatchesOK'
    BY <1>1, <1>2, <2>1, <2>2, BatchesKept
  <2>4. Pending' = Pending
    BY <1>2, <2>1 DEF Pending
  <2>5. \A i : ~InBatch(i)'
    BY <2>1 DEF InBatch
  <2>6. \A b \in DOMAIN batches : \A i \in batches[b].claimed :
           slots'[i].state = IF b \in Pending THEN "claimed" ELSE "acked"
    BY <1>1, <1>5, <2>2 DEF Owed
  <2>7. \A i \in DOMAIN slots : slots'[i].state = "claimed" =>
           \E b \in Pending : i \in batches[b].claimed
    BY <1>1, <1>3, <2>2 DEF Owed
  <2>8. drain.pending = Cardinality(Pending)
    BY <1>1 DEF Owed
  <2> QED
    BY <2>1, <2>2, <2>3, <2>4, <2>5, <2>6, <2>7, <2>8 DEF Owed
<1>7. ASSUME NEW metas \in Seq(Nat), MirrorHandsOver(metas), Injective(metas),
             metas # <<>>, ToSet(metas) \subseteq C,
             Len(metas) = Cardinality(ToSet(metas))
      PROVE  BatchesOK' /\ Owed'
  <2>0. PICK n : n = Len(batches) + 1
    OBVIOUS
  <2> DEFINE p == drain.pending + 1
             y == [claimed |-> C, remaining |-> Len(metas)]
  <2>1. /\ batches' = Append(batches, y) /\ UNCHANGED slots /\ dpc' = "send"
        /\ drain' = [drain EXCEPT !.metas = metas, !.pending = p]
    BY <1>7 DEF MirrorHandsOver
  <2>2. drain'.metas = metas /\ drain'.pending = p
    BY <1>1, <2>1, DrainFields DEF DrainTypes
  <2>3. drain.metas = <<>> /\ ToSet(drain.metas) = {}
    BY <1>1, <1>2 DEF BatchesOK, ToSet
  <2>4. y.claimed = C /\ y.remaining = Len(metas) /\ Len(metas) \in Nat \ {0}
    BY <1>7
  <2> HIDE DEF y, C, p
  <2>5. /\ DOMAIN batches' = DOMAIN batches \cup {n} /\ n \notin DOMAIN batches
        /\ Len(batches') = n /\ batches' # <<>>
        /\ \A b \in DOMAIN batches : batches'[b] = batches[b]
        /\ batches'[n] = y
    <3> DEFINE k == Len(batches) + 1
    <3>1. /\ DOMAIN batches' = DOMAIN batches \cup {k} /\ k \notin DOMAIN batches
          /\ Len(batches') = k /\ batches' # <<>>
          /\ \A b \in DOMAIN batches : batches'[b] = batches[b]
          /\ batches'[k] = y
      <4>1. batches \in Seq([claimed : SUBSET Nat, remaining : Int])
        BY <1>1 DEF Shape
      <4>2. batches' = Append(batches, y)
        BY <2>1
      <4>3. DOMAIN batches = 1..Len(batches) /\ Len(batches) \in Nat
        BY <4>1
      <4>4. /\ Len(batches') = k /\ DOMAIN batches' = 1..k
            /\ batches'[k] = y
            /\ \A b \in DOMAIN batches : batches'[b] = batches[b]
        BY <4>1, <4>2
      <4> QED
        BY <4>3, <4>4
    <3> HIDE DEF k
    <3> QED
      BY <2>0, <3>1 DEF k
  <2>6. \A b \in DOMAIN batches : Outstanding(b)' = Outstanding(b)
    BY <1>2, <2>3, <2>5 DEF Outstanding
  <2>7. Outstanding(n)' = ToSet(metas)
    <3>1. \A x \in reading : x.batch # n
      BY <1>1, <2>5 DEF BatchesOK
    <3> QED
      BY <1>2, <2>2, <2>5, <3>1 DEF Outstanding
  <2>8. BatchesOK'
    <3>1. ASSUME NEW b \in DOMAIN batches'
          PROVE  /\ batches'[b].claimed \subseteq DOMAIN slots'
                 /\ Outstanding(b)' \subseteq batches'[b].claimed
                 /\ batches'[b].remaining = Cardinality(Outstanding(b)')
      <4>1. CASE b = n
        BY <1>2, <1>7, <2>1, <2>4, <2>5, <2>7, <4>1
      <4>2. CASE b \in DOMAIN batches
        BY <1>1, <2>1, <2>5, <2>6, <4>2 DEF BatchesOK
      <4> QED
        BY <2>5, <4>1, <4>2
    <3>2. ASSUME NEW b \in DOMAIN batches', NEW c \in DOMAIN batches', b # c
          PROVE  batches'[b].claimed \cap batches'[c].claimed = {}
      <4>1. CASE b \in DOMAIN batches /\ c \in DOMAIN batches
        BY <1>1, <2>5, <3>2, <4>1 DEF BatchesOK
      <4>2. CASE b = n /\ c \in DOMAIN batches
        BY <1>5, <2>4, <2>5, <4>2
      <4>3. CASE c = n /\ b \in DOMAIN batches
        BY <1>5, <2>4, <2>5, <4>3
      <4> QED
        BY <2>5, <3>2, <4>1, <4>2, <4>3
    <3>3. \A x \in reading' :
             /\ x.batch \in DOMAIN batches'
             /\ x.batch = Len(batches') => x.slot \notin ToSet(drain'.metas)
      BY <1>1, <1>2, <2>5 DEF BatchesOK
    <3>4. \A b \in ToSet(indexDone') : b \in DOMAIN batches' /\ batches'[b].remaining = 0
      BY <1>1, <1>2, <2>5 DEF BatchesOK
    <3>5. Injective(drain'.metas) /\ drain'.metas # <<>> /\ Injective(indexDone')
      BY <1>1, <1>2, <1>7, <2>2 DEF BatchesOK
    <3> QED
      BY <2>1, <2>5, <3>1, <3>2, <3>3, <3>4, <3>5 DEF BatchesOK
  <2>9. Pending' = Pending \cup {n} /\ n \notin Pending
    <3>1. Pending \subseteq DOMAIN batches
      BY <1>1, PendingSet
    <3>2. batches'[n].remaining > 0
      BY <2>4, <2>5
    <3> QED
      BY <1>2, <2>5, <3>1, <3>2 DEF Pending
  <2>10. Owed'
    <3>1. ASSUME NEW b \in DOMAIN batches', NEW i \in batches'[b].claimed
          PROVE  slots'[i].state = IF b \in Pending' THEN "claimed" ELSE "acked"
      <4>1. CASE b = n
        BY <1>4, <2>1, <2>4, <2>5, <2>9, <3>1, <4>1
      <4>2. CASE b \in DOMAIN batches
        <5>1. i \in batches[b].claimed /\ b # n
          BY <2>5, <3>1, <4>2
        <5> QED
          BY <1>1, <2>1, <2>9, <4>2, <5>1 DEF Owed
      <4> QED
        BY <2>5, <4>1, <4>2
    <3>2. \A i : ~InBatch(i)'
      BY <2>1 DEF InBatch
    <3>3. ASSUME NEW i \in DOMAIN slots', slots'[i].state = "claimed"
          PROVE  \E b \in Pending' : i \in batches'[b].claimed
      <4>1. i \in DOMAIN slots /\ slots[i].state = "claimed"
        BY <2>1, <3>3
      <4>2. CASE i \in C
        BY <2>4, <2>5, <2>9, <4>2
      <4>3. CASE i \notin C
        <5>1. PICK b \in Pending : i \in batches[b].claimed
          BY <1>1, <1>3, <4>1, <4>3 DEF Owed
        <5>2. b \in DOMAIN batches
          BY <1>1, PendingSet
        <5> QED
          BY <2>5, <2>9, <5>1, <5>2
      <4> QED
        BY <4>2, <4>3
    <3>4. drain'.pending = Cardinality(Pending')
      <4>1. IsFiniteSet(Pending)
        BY <1>1, PendingSet
      <4>2. Cardinality(Pending \cup {n}) = Cardinality(Pending) + 1
        BY <2>9, <4>1, FS_AddElement
      <4> QED
        BY <1>1, <2>2, <2>9, <4>2 DEF Owed, p
    <3> QED
      BY <2>1, <3>1, <3>2, <3>3, <3>4 DEF Owed
  <2> QED
    BY <2>8, <2>10
<1> QED
  BY <1>1, <1>6, <1>7, MirrorSteps

\* What is handed over leaves metas and is read: it stays outstanding.
LEMMA SendBatches ==
    ASSUME Inv, SendIndexWork
    PROVE  BatchesOK' /\ Owed'
<1> DEFINE h == Head(drain.metas)
           m == Tail(drain.metas)
           x == [batch |-> Len(batches), slot |-> h]
<1>1. Shape /\ SlotsOK /\ BatchesOK /\ Owed
  BY DEF Inv
<1>2. /\ reading' = reading \cup {x} /\ drain' = [drain EXCEPT !.metas = m]
      /\ dpc' = IF Len(drain.metas) = 1 THEN "top" ELSE "send"
      /\ dpc = "send" /\ UNCHANGED <<slots, batches, indexDone>>
  BY DEF SendIndexWork
<1>3. /\ drain'.metas = m /\ drain'.pending = drain.pending
      /\ drain'.batch = drain.batch
  BY <1>1, <1>2, DrainFields DEF DrainTypes
<1>4. drain.metas \in Seq(Nat) /\ drain.metas # <<>> /\ Injective(drain.metas)
  BY <1>1, <1>2, DrainFields DEF BatchesOK
<1>5. /\ Injective(m) /\ h \in ToSet(drain.metas)
      /\ ToSet(m) = ToSet(drain.metas) \ {h}
  BY <1>4, TailOf
<1>6. m # <<>> <=> dpc' = "send"
  <2>1. Len(m) = Len(drain.metas) - 1 /\ m \in Seq(Nat) /\ Len(drain.metas) \in Nat
    BY <1>4
  <2> HIDE DEF m
  <2>2. m = <<>> <=> Len(m) = 0
    BY <2>1, EmptySeq
  <2> QED
    BY <1>2, <2>1, <2>2
<1>7. x.batch = Len(batches) /\ x.slot = h /\ Len(batches) \in DOMAIN batches
  BY <1>1, <1>2, SlotNumbers DEF BatchesOK
<1> HIDE DEF h, m, x
<1>8. \A b \in DOMAIN batches : Outstanding(b)' = Outstanding(b)
  BY <1>2, <1>3, <1>5, <1>7 DEF Outstanding
<1>9. BatchesOK'
  <2>1. \A b \in DOMAIN batches' :
           /\ batches'[b].claimed \subseteq DOMAIN slots'
           /\ Outstanding(b)' \subseteq batches'[b].claimed
           /\ batches'[b].remaining = Cardinality(Outstanding(b)')
    BY <1>1, <1>2, <1>8 DEF BatchesOK
  <2>2. \A b, c \in DOMAIN batches' :
           b # c => batches'[b].claimed \cap batches'[c].claimed = {}
    BY <1>1, <1>2 DEF BatchesOK
  <2>3. \A y \in reading' :
           /\ y.batch \in DOMAIN batches'
           /\ y.batch = Len(batches') => y.slot \notin ToSet(drain'.metas)
    BY <1>1, <1>2, <1>3, <1>5, <1>7 DEF BatchesOK
  <2>4. /\ Injective(drain'.metas) /\ Injective(indexDone')
        /\ batches' # <<>>
        /\ (drain'.metas # <<>>) <=> (dpc' = "send")
    BY <1>1, <1>2, <1>3, <1>5, <1>6 DEF BatchesOK
  <2>5. \A b \in ToSet(indexDone') : b \in DOMAIN batches' /\ batches'[b].remaining = 0
    BY <1>1, <1>2 DEF BatchesOK
  <2> QED
    BY <2>1, <2>2, <2>3, <2>4, <2>5 DEF BatchesOK
<1>10. Owed'
  <2>1. Pending' = Pending
    BY <1>2 DEF Pending
  <2>2. (dpc' = "mirror") = (dpc = "mirror") /\ dpc' # "exit"
    BY <1>2
  <2> QED
    BY <1>1, <1>2, <1>3, <2>1, <2>2, OwedKept
<1> QED
  BY <1>9, <1>10

\* The other steps of the drain loop concern no batch.
LEMMA OtherDrainBatches ==
    ASSUME Inv, Look \/ Wake \/ DrainExit
    PROVE  BatchesOK' /\ Owed'
<1>1. Shape /\ SlotsOK /\ BatchesOK /\ Owed
  BY DEF Inv
<1>2. /\ UNCHANGED <<slots, batches, reading, indexDone>>
      /\ dpc \notin {"send", "mirror"} /\ dpc' \notin {"send", "mirror"}
      /\ dpc' = "exit" => drain.pending = 0
  BY DEF Look, Wake, DrainExit
<1>3. /\ drain'.metas = drain.metas /\ drain'.pending = drain.pending
      /\ drain'.batch = drain.batch
  <2>1. drain \in DrainTypes
    BY <1>1, DrainFields
  <2>2. CASE Look
    BY <2>1, <2>2 DEF Look, DrainTypes
  <2>3. CASE Wake \/ DrainExit
    BY <2>1, <2>3 DEF Wake, DrainExit, DrainTypes
  <2> QED
    BY <2>2, <2>3
<1>4. Pending' = Pending
  BY <1>2 DEF Pending
<1> QED
  BY <1>1, <1>2, <1>3, <1>4, BatchesKept, OwedKept

\* A read transcript is no longer outstanding; the last one of a batch reports it.
LEMMA ItemReadBatches ==
    ASSUME Inv, NEW x \in reading, ItemRead(x)
    PROVE  BatchesOK' /\ Owed'
<1> DEFINE b0 == x.batch
<1>1. Shape /\ SlotsOK /\ BatchesOK /\ Owed
  BY DEF Inv
<1>2. /\ b0 \in DOMAIN batches /\ DOMAIN batches' = DOMAIN batches
      /\ x \in IndexWork /\ Len(batches') = Len(batches)
      /\ \A b \in DOMAIN batches :
            /\ batches'[b].claimed = batches[b].claimed
            /\ batches'[b].remaining = IF b = b0 THEN batches[b].remaining - 1
                                       ELSE batches[b].remaining
  BY ItemReadShape
<1>3. /\ reading' = reading \ {x}
      /\ indexDone' = IF batches[b0].remaining = 1
                      THEN Append(indexDone, b0) ELSE indexDone
      /\ UNCHANGED <<slots, dpc, drain>>
  BY DEF ItemRead, drainer
<1> HIDE DEF b0
<1>4. \A b \in DOMAIN batches : b # b0 => Outstanding(b)' = Outstanding(b)
  BY <1>2, <1>3 DEF Outstanding, b0
<1>5. /\ Outstanding(b0)' = Outstanding(b0) \ {x.slot}
      /\ x.slot \in Outstanding(b0)
  <2>1. \A y \in reading : y.batch = x.batch /\ y.slot = x.slot => y = x
    <3>1. \A y \in reading : y \in IndexWork
      BY <1>1 DEF Shape
    <3>2. ASSUME NEW y \in IndexWork, y.batch = x.batch, y.slot = x.slot
          PROVE  y = x
      BY <1>2, <3>2 DEF IndexWork
    <3> QED
      BY <3>1, <3>2
  <2>2. b0 = Len(batches) => x.slot \notin ToSet(drain.metas)
    BY <1>1 DEF BatchesOK, b0
  <2> QED
    BY <1>2, <1>3, <2>1, <2>2 DEF Outstanding, b0
<1>6. IsFiniteSet(Outstanding(b0))
  <2>1. Outstanding(b0) \subseteq DOMAIN slots
    BY <1>1, <1>2 DEF BatchesOK
  <2>2. IsFiniteSet(DOMAIN slots)
    BY <1>1, SlotNumbers, FS_Interval
  <2> QED
    BY <2>1, <2>2, FS_Subset
<1>7. /\ Cardinality(Outstanding(b0)') = Cardinality(Outstanding(b0)) - 1
      /\ Cardinality(Outstanding(b0)) \in Nat \ {0}
      /\ IsFiniteSet(Outstanding(b0)')
  <2>1. Cardinality(Outstanding(b0) \ {x.slot}) = Cardinality(Outstanding(b0)) - 1
    BY <1>5, <1>6, FS_RemoveElement
  <2>2. Cardinality(Outstanding(b0)) \in Nat
    BY <1>6, FS_CardinalityType
  <2>3. Cardinality(Outstanding(b0)) # 0
    BY <1>5, <1>6, FS_EmptySet
  <2>4. IsFiniteSet(Outstanding(b0) \ {x.slot})
    BY <1>6, FS_RemoveElement
  <2> QED
    BY <1>5, <2>1, <2>2, <2>3, <2>4
<1>8. batches[b0].remaining = Cardinality(Outstanding(b0))
  BY <1>1, <1>2 DEF BatchesOK
<1>9. batches[b0].remaining \in Nat \ {0}
  BY <1>7, <1>8
<1>10. b0 \notin ToSet(indexDone)
  BY <1>1, <1>9 DEF BatchesOK
<1>11. /\ Injective(indexDone')
       /\ ToSet(indexDone') = IF batches[b0].remaining = 1
                              THEN ToSet(indexDone) \cup {b0} ELSE ToSet(indexDone)
  <2>1. indexDone \in Seq(Nat) /\ Injective(indexDone) /\ b0 \in Nat
    BY <1>1, <1>2 DEF Shape, BatchesOK, IndexWork, b0
  <2> QED
    BY <1>3, <1>10, <2>1, AppendOf, ZenonT(40)
<1>12. BatchesOK'
  <2>1. ASSUME NEW b \in DOMAIN batches
        PROVE  /\ batches'[b].claimed \subseteq DOMAIN slots'
               /\ Outstanding(b)' \subseteq batches'[b].claimed
               /\ batches'[b].remaining = Cardinality(Outstanding(b)')
    <3>1. CASE b = b0
      BY <1>1, <1>2, <1>3, <1>5, <1>7, <1>8, <3>1 DEF BatchesOK
    <3>2. CASE b # b0
      BY <1>1, <1>2, <1>3, <1>4, <3>2 DEF BatchesOK
    <3> QED
      BY <3>1, <3>2
  <2>2. \A b, c \in DOMAIN batches' :
           b # c => batches'[b].claimed \cap batches'[c].claimed = {}
    BY <1>1, <1>2 DEF BatchesOK
  <2>3. \A y \in reading' :
           /\ y.batch \in DOMAIN batches'
           /\ y.batch = Len(batches') => y.slot \notin ToSet(drain'.metas)
    BY <1>1, <1>2, <1>3 DEF BatchesOK
  <2>4. /\ Injective(drain'.metas) /\ batches' # <<>>
        /\ (drain'.metas # <<>>) <=> (dpc' = "send")
    <3>1. batches' # <<>>
      BY <1>2
    <3> QED
      BY <1>1, <1>3, <3>1 DEF BatchesOK
  <2>5. ASSUME NEW b \in ToSet(indexDone')
        PROVE  b \in DOMAIN batches' /\ batches'[b].remaining = 0
    <3>1. CASE b = b0
      BY <1>2, <1>10, <1>11, <2>5, <3>1
    <3>2. CASE b # b0
      BY <1>1, <1>2, <1>11, <2>5, <3>2 DEF BatchesOK
    <3> QED
      BY <3>1, <3>2
  <2> QED
    BY <1>2, <1>11, <2>1, <2>2, <2>3, <2>4, <2>5 DEF BatchesOK
<1>13. Pending' = Pending
  <2>1. ASSUME NEW b \in DOMAIN batches, b # b0
        PROVE  b \in Pending' <=> b \in Pending
    BY <1>2, <1>11, <2>1 DEF Pending
  <2>2. b0 \in Pending' /\ b0 \in Pending
    BY <1>2, <1>9, <1>11 DEF Pending
  <2>3. Pending \subseteq DOMAIN batches /\ Pending' \subseteq DOMAIN batches
    <3>1. Pending' \subseteq DOMAIN batches'
      BY <1>12 DEF Pending, BatchesOK
    <3> QED
      BY <1>1, <1>2, <3>1, PendingSet
  <2> QED
    BY <2>1, <2>2, <2>3
<1>14. Owed'
  <2>1. \A b \in DOMAIN batches : batches'[b].claimed = batches[b].claimed
    BY <1>2
  <2>2. \A i : InBatch(i)' = InBatch(i)
    BY <1>3 DEF InBatch
  <2>3. Pending \subseteq DOMAIN batches
    BY <1>1, PendingSet
  <2>4. \A b \in DOMAIN batches' : \A i \in batches'[b].claimed :
           slots'[i].state = IF b \in Pending' THEN "claimed" ELSE "acked"
    BY <1>1, <1>2, <1>3, <1>13, <2>1 DEF Owed
  <2>5. \A i \in DOMAIN slots' : slots'[i].state = "claimed" =>
           InBatch(i)' \/ \E b \in Pending' : i \in batches'[b].claimed
    BY <1>1, <1>3, <1>13, <2>1, <2>2, <2>3 DEF Owed
  <2>6. \A i \in DOMAIN slots' : InBatch(i)' =>
           \A b \in DOMAIN batches' : i \notin batches'[b].claimed
    BY <1>1, <1>2, <1>3, <2>1, <2>2 DEF Owed
  <2>7. drain'.pending = Cardinality(Pending') /\ (dpc' = "exit" => drain'.pending = 0)
    BY <1>1, <1>3, <1>13 DEF Owed
  <2> QED
    BY <2>4, <2>5, <2>6, <2>7 DEF Owed
<1> QED
  BY <1>12, <1>14

----------------------------------------------------------------------------
(* The sessions. *)

\* A step that moves no session.
LEMMA SessionsKept ==
    ASSUME OnePlace, Reached, UNCHANGED todo, DOMAIN slots' = DOMAIN slots,
           \A i \in DOMAIN slots : slots'[i].s = slots[i].s,
           \A w \in Workers : /\ work'[w].queue = work[w].queue
                              /\ InHand(w)' = InHand(w)
                              /\ InHand(w) => work'[w].s = work[w].s,
           \A w \in Workers : wpc'[w] = "exit" => todo = {} \/ cancelled'
    PROVE  OnePlace' /\ Reached'
<1>1. Staged' = Staged
  BY DEF Staged
<1>2. {v \in Workers : InHand(v)}' = {v \in Workers : InHand(v)}
  OBVIOUS
<1>3. Processed' = Processed
  BY <1>1, <1>2 DEF Processed
<1>4. \A w \in Workers : Waiting(w)' = Waiting(w)
  BY DEF Waiting
<1>5. \A s : Known(s)' = Known(s)
  BY <1>3 DEF Known
<1>6. OnePlace'
  <2>1. \A i, j \in DOMAIN slots' : slots'[i].s = slots'[j].s => i = j
    BY DEF OnePlace
  <2>2. \A v, w \in Workers : InHand(v)' /\ InHand(w)' /\ v # w => work'[v].s # work'[w].s
    BY DEF OnePlace
  <2>3. \A w \in Workers : InHand(w)' => work'[w].s \notin Staged'
    BY <1>1 DEF OnePlace
  <2>4. \A w \in Workers : Injective(work'[w].queue)
    BY DEF OnePlace
  <2>5. /\ \A v, w \in Workers : v # w => Waiting(v)' \cap Waiting(w)' = {}
        /\ \A w \in Workers : Waiting(w)' \cap (todo' \cup Processed') = {}
        /\ todo' \cap Processed' = {}
    BY <1>3, <1>4 DEF OnePlace
  <2> QED
    BY <2>1, <2>2, <2>3, <2>4, <2>5 DEF OnePlace
<1>7. Reached'
  BY <1>3, <1>4, <1>5 DEF Reached
<1> QED
  BY <1>6, <1>7

\* A worker takes a root: it waits in that worker's queue.
LEMMA TakeRootSessions ==
    ASSUME Inv, NEW w \in Workers, TakeRoot(w)
    PROVE  OnePlace' /\ Reached'
<1>1. Shape /\ WorkersOK /\ OnePlace /\ Reached /\ work[w] \in Works
  BY DEF Inv, Shape, WorkersOK, WorkerOK
<1>2. PICK r \in todo : /\ todo' = todo \ {r}
                        /\ work' = [work EXCEPT ![w].queue = <<r>>]
  BY DEF TakeRoot
<1>3. /\ wpc[w] = "next" /\ wpc' = [wpc EXCEPT ![w] = "process"]
      /\ UNCHANGED <<slots, cancelled>> /\ ~cancelled
  BY DEF TakeRoot, WorkerOnly
<1>4. \A v \in Workers \ {w} : wpc'[v] = wpc[v] /\ work'[v] = work[v]
  BY <1>1, <1>2, <1>3 DEF WorkersOK
<1>5. wpc'[w] = "process" /\ work'[w].queue = <<r>>
  <2>1. wpc'[w] = "process" /\ work'[w] = [work[w] EXCEPT !.queue = <<r>>]
    BY <1>1, <1>2, <1>3 DEF WorkersOK
  <2> QED
    BY <1>1, <2>1 DEF Works
<1>6. Waiting(w) = {} /\ Waiting(w)' = {r} /\ Injective(work'[w].queue)
  <2>1. work[w].queue = <<>>
    BY <1>1, <1>3 DEF WorkersOK, WorkerOK
  <2> QED
    BY <1>5, <2>1 DEF Waiting, ToSet, Injective
<1>7. \A v \in Workers \ {w} : Waiting(v)' = Waiting(v)
  BY <1>4 DEF Waiting
<1>8. ~InHand(w) /\ ~InHand(w)' /\ \A v \in Workers \ {w} : InHand(v)' = InHand(v)
  BY <1>3, <1>4, <1>5 DEF InHand
<1>9. Staged' = Staged
  BY <1>3 DEF Staged
<1>10. Processed' = Processed
  <2>1. {work[v].s : v \in {u \in Workers : InHand(u)}}'
          = {work[v].s : v \in {u \in Workers : InHand(u)}}
    BY <1>4, <1>8
  <2> QED
    BY <1>9, <2>1 DEF Processed
<1>11. \A s : Known(s)' = Known(s)
  BY <1>10 DEF Known
<1>12. OnePlace'
  <2>1. \A i, j \in DOMAIN slots' : slots'[i].s = slots'[j].s => i = j
    BY <1>1, <1>3 DEF OnePlace
  <2>2. \A u, v \in Workers : InHand(u)' /\ InHand(v)' /\ u # v => work'[u].s # work'[v].s
    BY <1>1, <1>4, <1>8 DEF OnePlace
  <2>3. \A v \in Workers : InHand(v)' => work'[v].s \notin Staged'
    BY <1>1, <1>4, <1>8, <1>9 DEF OnePlace
  <2>4. \A v \in Workers : Injective(work'[v].queue)
    BY <1>1, <1>4, <1>6 DEF OnePlace
  <2>5. /\ \A u, v \in Workers : u # v => Waiting(u)' \cap Waiting(v)' = {}
        /\ \A v \in Workers : Waiting(v)' \cap (todo' \cup Processed') = {}
        /\ todo' \cap Processed' = {}
    BY <1>1, <1>2, <1>6, <1>7, <1>10 DEF OnePlace
  <2> QED
    BY <2>1, <2>2, <2>3, <2>4, <2>5 DEF OnePlace
<1>13. Reached'
  <2>1. \A s \in todo' : Parent[s] = None
    BY <1>1, <1>2 DEF Reached
  <2>2. \A v \in Workers : \A s \in Waiting(v)' : Known(s)'
    BY <1>1, <1>6, <1>7, <1>11 DEF Reached, Known
  <2>3. \A s \in Processed' : Known(s)'
    BY <1>1, <1>10, <1>11 DEF Reached
  <2>4. \A s \in Sessions : Known(s)' =>
           s \in todo' \cup Processed' \/ \E v \in Workers : s \in Waiting(v)'
    BY <1>1, <1>2, <1>6, <1>7, <1>10, <1>11 DEF Reached
  <2>5. \A v \in Workers : wpc'[v] = "exit" => todo' = {} \/ cancelled'
    BY <1>1, <1>2, <1>3, <1>4, <1>5 DEF Reached
  <2> QED
    BY <2>1, <2>2, <2>3, <2>4, <2>5 DEF Reached
<1> QED
  BY <1>12, <1>13

\* A worker processes a session: its children are nowhere yet, for each of them
\* would have needed it to be processed.
LEMMA ProcessSessions ==
    ASSUME Inv, NEW w \in Workers, Process(w)
    PROVE  OnePlace' /\ Reached'
<1>1. Shape /\ WorkersOK /\ OnePlace /\ Reached /\ work[w] \in Works
  BY DEF Inv, Shape, WorkersOK, WorkerOK
<1>2. PICK s : s = Head(work[w].queue)
  OBVIOUS
<1> DEFINE q == Tail(work[w].queue) \o Children(s)
           C == {c \in Sessions : Parent[c] = s}
<1>3. PICK o \in Outcomes :
         /\ work' = [work EXCEPT ![w] =
                       [NoWork EXCEPT !.queue = q, !.s = s, !.kind = o.kind,
                                      !.size = o.size]]
         /\ wpc' = [wpc EXCEPT ![w] = IF o.size = 0 THEN "slot" ELSE "copy"]
  BY <1>2 DEF Process
<1>4. /\ wpc[w] = "process" /\ UNCHANGED <<todo, slots, cancelled>>
  BY DEF Process, WorkerOnly
<1>5. \A v \in Workers \ {w} : wpc'[v] = wpc[v] /\ work'[v] = work[v]
  BY <1>1, <1>3 DEF WorkersOK
<1>6. wpc'[w] \in {"slot", "copy"} /\ work'[w].queue = q /\ work'[w].s = s
  <2> HIDE DEF q
  <2>1. work'[w] = [NoWork EXCEPT !.queue = q, !.s = s, !.kind = o.kind,
                                  !.size = o.size]
    BY <1>1, <1>3 DEF WorkersOK
  <2>2. wpc'[w] \in {"slot", "copy"}
    BY <1>1, <1>3 DEF WorkersOK
  <2> QED
    BY <2>1, <2>2 DEF NoWork
<1>7. /\ work[w].queue \in Seq(Sessions) /\ work[w].queue # <<>>
      /\ Injective(work[w].queue)
  BY <1>1, <1>4 DEF WorkersOK, WorkerOK, OnePlace, Works
<1>8. /\ Tail(work[w].queue) \in Seq(Sessions) /\ Injective(Tail(work[w].queue))
      /\ s \in Sessions /\ s \in Waiting(w)
      /\ ToSet(Tail(work[w].queue)) = Waiting(w) \ {s}
  BY <1>2, <1>7, TailOf DEF Waiting
<1>9. /\ Children(s) \in Seq(Sessions) /\ Injective(Children(s))
      /\ ToSet(Children(s)) = C
  BY <1>8, ChildrenOf
<1>10. s \notin todo \cup Processed /\ s # None
  BY <1>1, <1>8, SessionsAssumption DEF OnePlace
<1>11. C \cap (todo \cup Processed) = {} /\ \A v \in Workers : C \cap Waiting(v) = {}
  <2> SUFFICES ASSUME NEW c \in C
               PROVE  /\ c \notin todo \cup Processed
                      /\ \A v \in Workers : c \notin Waiting(v)
    OBVIOUS
  <2>1. c \in Sessions /\ Parent[c] = s
    OBVIOUS
  <2>2. ~Known(c)
    BY <1>10, <2>1 DEF Known
  <2>3. c \notin todo
    BY <1>1, <1>10, <2>1 DEF Reached
  <2> QED
    BY <1>1, <2>2, <2>3 DEF Reached
<1>12. Injective(q) /\ ToSet(q) = (Waiting(w) \ {s}) \cup C
  <2>1. (Waiting(w) \ {s}) \cap C = {}
    BY <1>11
  <2> DEFINE u == Tail(work[w].queue)
             v == Children(s)
  <2>2. /\ u \in Seq(Sessions) /\ v \in Seq(Sessions) /\ Injective(u) /\ Injective(v)
        /\ ToSet(u) = Waiting(w) \ {s} /\ ToSet(v) = C /\ q = u \o v
    BY <1>8, <1>9
  <2> HIDE DEF u, v, q, C
  <2>3. Injective(u \o v) /\ ToSet(u \o v) = ToSet(u) \cup ToSet(v)
    BY <2>1, <2>2, ConcatOf
  <2> QED
    BY <2>2, <2>3
<1> HIDE DEF q
<1>13. Waiting(w)' = (Waiting(w) \ {s}) \cup C
  BY <1>6, <1>12 DEF Waiting
<1>14. \A v \in Workers \ {w} : Waiting(v)' = Waiting(v)
  BY <1>5 DEF Waiting
<1>15. ~InHand(w) /\ InHand(w)' /\ \A v \in Workers \ {w} : InHand(v)' = InHand(v)
  BY <1>4, <1>5, <1>6 DEF InHand
<1>16. Staged' = Staged
  BY <1>4 DEF Staged
<1>17. Processed' = Processed \cup {s}
  <2>1. {work[v].s : v \in {u \in Workers : InHand(u)}}'
          = {work[v].s : v \in {u \in Workers : InHand(u)}} \cup {s}
    BY <1>5, <1>6, <1>15
  <2> QED
    BY <1>16, <2>1 DEF Processed
<1>18. \A x \in Sessions : Known(x)' <=> Known(x) \/ x \in C
  BY <1>17 DEF Known
<1> HIDE DEF C
<1>19. OnePlace'
  <2>1. \A i, j \in DOMAIN slots' : slots'[i].s = slots'[j].s => i = j
    BY <1>1, <1>4 DEF OnePlace
  <2>2. \A v \in Workers : InHand(v) => work[v].s \in Processed
    BY DEF Processed
  <2>3. \A u, v \in Workers : InHand(u)' /\ InHand(v)' /\ u # v => work'[u].s # work'[v].s
    BY <1>1, <1>5, <1>6, <1>10, <1>15, <2>2 DEF OnePlace
  <2>4. Staged \subseteq Processed
    BY DEF Processed
  <2>5. \A v \in Workers : InHand(v)' => work'[v].s \notin Staged'
    BY <1>1, <1>5, <1>6, <1>10, <1>15, <1>16, <2>4 DEF OnePlace
  <2>6. \A v \in Workers : Injective(work'[v].queue)
    BY <1>1, <1>5, <1>6, <1>12 DEF OnePlace
  <2>7. \A u, v \in Workers : u # v => Waiting(u)' \cap Waiting(v)' = {}
    BY <1>1, <1>11, <1>13, <1>14 DEF OnePlace
  <2>8. s \notin C /\ \A v \in Workers \ {w} : s \notin Waiting(v)
    BY <1>1, <1>8, <1>11 DEF OnePlace
  <2>9. \A v \in Workers : Waiting(v)' \cap (todo' \cup Processed') = {}
    BY <1>1, <1>4, <1>11, <1>13, <1>14, <1>17, <2>8 DEF OnePlace
  <2>10. todo' \cap Processed' = {}
    BY <1>1, <1>4, <1>10, <1>17 DEF OnePlace
  <2> QED
    BY <2>1, <2>3, <2>5, <2>6, <2>7, <2>9, <2>10 DEF OnePlace
<1>20. Reached'
  <2>1. \A x \in todo' : Parent[x] = None
    BY <1>1, <1>4 DEF Reached
  <2>2. \A v \in Workers : Waiting(v) \subseteq Sessions
    BY <1>1 DEF WorkersOK, WorkerOK, Works, Waiting, ToSet
  <2>3. Processed \subseteq Sessions
    BY <1>1, SlotNumbers DEF Processed, Staged, Slots, WorkersOK, WorkerOK
  <2>4. C \subseteq Sessions
    BY DEF C
  <2>5. \A v \in Workers : \A x \in Waiting(v)' : Known(x)'
    BY <1>1, <1>13, <1>14, <1>18, <2>2, <2>4 DEF Reached
  <2>6. \A x \in Processed' : Known(x)'
    BY <1>1, <1>8, <1>17, <1>18, <2>3 DEF Reached
  <2>7. ASSUME NEW x \in Sessions, Known(x)'
        PROVE  x \in todo' \cup Processed' \/ \E v \in Workers : x \in Waiting(v)'
    <3>1. CASE x \in C
      BY <1>13, <3>1
    <3>2. CASE Known(x)
      BY <1>1, <1>4, <1>13, <1>14, <1>17, <3>2 DEF Reached
    <3> QED
      BY <1>18, <2>7, <3>1, <3>2
  <2>8. \A v \in Workers : wpc'[v] = "exit" => todo' = {} \/ cancelled'
    BY <1>1, <1>4, <1>5, <1>6 DEF Reached
  <2> QED
    BY <2>1, <2>5, <2>6, <2>7, <2>8 DEF Reached
<1> QED
  BY <1>19, <1>20

\* A worker stages its session.
LEMMA ClaimSlotSessions ==
    ASSUME Inv, NEW w \in Workers, ClaimSlot(w)
    PROVE  OnePlace' /\ Reached'
<1> DEFINE n == Len(slots) + 1
           e == [s |-> work[w].s, kind |-> work[w].kind,
                 start |-> work[w].start, len |-> work[w].size,
                 pad |-> work[w].pad, state |-> "empty"]
<1>1. Shape /\ WorkersOK /\ OnePlace /\ Reached /\ work[w] \in Works
  BY DEF Inv, Shape, WorkersOK, WorkerOK
<1>2. /\ slots' = Append(slots, e) /\ work' = [work EXCEPT ![w].slot = n]
      /\ wpc[w] = "slot" /\ wpc' = [wpc EXCEPT ![w] = "publish"]
      /\ UNCHANGED <<todo, cancelled>>
  BY DEF ClaimSlot, WorkerOnly
<1>3. \A v \in Workers \ {w} : wpc'[v] = wpc[v] /\ work'[v] = work[v]
  BY <1>1, <1>2 DEF WorkersOK
<1>4. wpc'[w] = "publish" /\ work'[w].queue = work[w].queue
  <2>1. work'[w] = [work[w] EXCEPT !.slot = n] /\ wpc'[w] = "publish"
    BY <1>1, <1>2 DEF WorkersOK
  <2> QED
    BY <1>1, <2>1 DEF Works
<1>5. slots \in Seq(Slots) /\ e.s = work[w].s
  BY <1>1 DEF Shape
<1> HIDE DEF e
<1>6. /\ DOMAIN slots' = DOMAIN slots \cup {n} /\ n \notin DOMAIN slots
      /\ \A i \in DOMAIN slots : slots'[i] = slots[i]
      /\ slots'[n] = e
  BY <1>2, <1>5
<1> HIDE DEF n
<1>7. InHand(w) /\ ~InHand(w)' /\ \A v \in Workers \ {w} : InHand(v)' = InHand(v)
  BY <1>2, <1>3, <1>4 DEF InHand
<1>8. Staged' = Staged \cup {work[w].s} /\ work[w].s \notin Staged
  <2>1. Staged' = Staged \cup {work[w].s}
    BY <1>5, <1>6 DEF Staged
  <2> QED
    BY <1>1, <1>7, <2>1 DEF OnePlace
<1>9. Processed' = Processed
  <2>1. {work[v].s : v \in {u \in Workers : InHand(u)}}
          = {work[v].s : v \in {u \in Workers : InHand(u)}}' \cup {work[w].s}
    BY <1>3, <1>7
  <2> QED
    BY <1>8, <2>1 DEF Processed
<1>10. \A v \in Workers : Waiting(v)' = Waiting(v)
  BY <1>3, <1>4 DEF Waiting
<1>11. \A s : Known(s)' = Known(s)
  BY <1>9 DEF Known
<1>12. OnePlace'
  <2>1. \A i, j \in DOMAIN slots' : slots'[i].s = slots'[j].s => i = j
    <3>1. \A i \in DOMAIN slots : slots[i].s # e.s
      BY <1>5, <1>8 DEF Staged
    <3> QED
      BY <1>1, <1>6, <3>1 DEF OnePlace
  <2>2. \A u, v \in Workers : InHand(u)' /\ InHand(v)' /\ u # v => work'[u].s # work'[v].s
    BY <1>1, <1>3, <1>7 DEF OnePlace
  <2>3. \A v \in Workers : InHand(v)' => work'[v].s \notin Staged'
    BY <1>1, <1>3, <1>7, <1>8 DEF OnePlace
  <2>4. \A v \in Workers : Injective(work'[v].queue)
    BY <1>1, <1>3, <1>4 DEF OnePlace
  <2>5. /\ \A u, v \in Workers : u # v => Waiting(u)' \cap Waiting(v)' = {}
        /\ \A v \in Workers : Waiting(v)' \cap (todo' \cup Processed') = {}
        /\ todo' \cap Processed' = {}
    BY <1>1, <1>2, <1>9, <1>10 DEF OnePlace
  <2> QED
    BY <2>1, <2>2, <2>3, <2>4, <2>5 DEF OnePlace
<1>13. Reached'
  <2>1. \A v \in Workers : wpc'[v] = "exit" => todo' = {} \/ cancelled'
    BY <1>1, <1>2, <1>3, <1>4 DEF Reached
  <2> QED
    BY <1>1, <1>2, <1>9, <1>10, <1>11, <2>1 DEF Reached
<1> QED
  BY <1>12, <1>13

\* Workers keep each session in one place, reached through its parent.
LEMMA WorkerSessions ==
    ASSUME Inv, NEW w \in Workers, Worker(w)
    PROVE  OnePlace' /\ Reached'
<1>1. Shape /\ SlotsOK /\ WorkersOK /\ OnePlace /\ Reached /\ work[w] \in Works
  BY DEF Inv, Shape, WorkersOK, WorkerOK
<1>2. DOMAIN work = Workers /\ DOMAIN wpc = Workers
  BY <1>1 DEF WorkersOK
<1>3. ASSUME UNCHANGED <<todo, cancelled>>, DOMAIN slots' = DOMAIN slots,
             \A i \in DOMAIN slots : slots'[i].s = slots[i].s,
             \A v \in Workers \ {w} : wpc'[v] = wpc[v] /\ work'[v] = work[v],
             work'[w].queue = work[w].queue, work'[w].s = work[w].s,
             InHand(w)' = InHand(w), wpc'[w] = "exit" => todo = {} \/ cancelled
      PROVE  OnePlace' /\ Reached'
  <2>1. \A v \in Workers : /\ work'[v].queue = work[v].queue
                           /\ InHand(v)' = InHand(v)
                           /\ InHand(v) => work'[v].s = work[v].s
    BY <1>3 DEF InHand
  <2>2. \A v \in Workers : wpc'[v] = "exit" => todo = {} \/ cancelled'
    BY <1>1, <1>3 DEF Reached
  <2> QED
    BY <1>1, <1>3, <2>1, <2>2, SessionsKept
<1>4. CASE WorkerExit(w)
  <2>1. /\ wpc[w] = "next" /\ wpc'[w] = "exit" /\ (todo = {} \/ cancelled)
        /\ UNCHANGED <<todo, work, slots, cancelled>>
        /\ \A v \in Workers \ {w} : wpc'[v] = wpc[v]
    BY <1>2, <1>4 DEF WorkerExit, WorkerOnly
  <2>2. InHand(w)' = InHand(w)
    BY <2>1 DEF InHand
  <2> QED
    BY <1>3, <2>1, <2>2
<1>5. CASE CopyToArena(w)
  <2> DEFINE k == [work[w] EXCEPT !.start = head + Gap(work[w].size),
                                  !.pad = Gap(work[w].size)]
  <2>1. /\ wpc[w] = "copy" /\ wpc'[w] = "slot" /\ work'[w] = k
        /\ UNCHANGED <<todo, slots, cancelled>>
        /\ \A v \in Workers \ {w} : wpc'[v] = wpc[v] /\ work'[v] = work[v]
    BY <1>2, <1>5 DEF CopyToArena, WorkerOnly
  <2>2. k.queue = work[w].queue /\ k.s = work[w].s
    BY <1>1 DEF Works
  <2>3. InHand(w)' = InHand(w)
    BY <2>1 DEF InHand
  <2> HIDE DEF k
  <2> QED
    BY <1>3, <2>1, <2>2, <2>3
<1>6. CASE StageOutside(w)
  <2> DEFINE k == [work[w] EXCEPT !.size = 0]
  <2>1. /\ wpc[w] = "copy" /\ wpc'[w] = "slot" /\ work'[w] = k
        /\ UNCHANGED <<todo, slots, cancelled>>
        /\ \A v \in Workers \ {w} : wpc'[v] = wpc[v] /\ work'[v] = work[v]
    BY <1>2, <1>6 DEF StageOutside, WorkerOnly
  <2>2. k.queue = work[w].queue /\ k.s = work[w].s
    BY <1>1 DEF Works
  <2>3. InHand(w)' = InHand(w)
    BY <2>1 DEF InHand
  <2> HIDE DEF k
  <2> QED
    BY <1>3, <2>1, <2>2, <2>3
<1>7. CASE Publish(w)
  <2>1. /\ wpc[w] = "publish" /\ wpc'[w] \in {"next", "process"}
        /\ UNCHANGED <<todo, work, cancelled>>
        /\ \A v \in Workers \ {w} : wpc'[v] = wpc[v]
    BY <1>2, <1>7 DEF Publish, WorkerOnly
  <2>2. DOMAIN slots' = DOMAIN slots /\ \A i \in DOMAIN slots : slots'[i].s = slots[i].s
    BY <1>1, <1>7, PublishRelabels, Relabelling DEF Shape, Relabelled
  <2>3. InHand(w)' = InHand(w)
    BY <2>1 DEF InHand
  <2> QED
    BY <1>3, <2>1, <2>2, <2>3
<1> QED
  BY <1>4, <1>5, <1>6, <1>7, TakeRootSessions, ProcessSessions, ClaimSlotSessions
  DEF Worker

\* The drain loop changes of the slots only their states.
LEMMA DrainLoopRelabels ==
    ASSUME Inv, DrainLoop
    PROVE  Relabelled
<1>1. Shape /\ SlotsOK /\ slots \in Seq(Slots)
  BY DEF Inv, Shape
<1>2. UNCHANGED slots => Relabelled
  BY <1>1 DEF Relabelled
<1>3. CASE ReceiveAck
  BY <1>1, <1>3, AckRelabels, Relabelling DEF ReceiveAck
<1>4. CASE Drain
  BY <1>1, <1>4, DrainClaims, DrainedRelabels, Relabelling
<1>5. CASE Mirror
  <2>1. CASE MirrorAcks
    BY <1>1, <2>1, AckRelabels, Relabelling DEF MirrorAcks
  <2>2. CASE \E metas \in Seq(Nat) : MirrorHandsOver(metas)
    BY <1>2, <2>2 DEF MirrorHandsOver
  <2> QED
    BY <1>1, <1>5, <2>1, <2>2, MirrorSteps
<1>6. CASE Look \/ SendIndexWork \/ Wake \/ DrainExit
  BY <1>2, <1>6 DEF Look, SendIndexWork, Wake, DrainExit
<1> QED
  BY <1>3, <1>4, <1>5, <1>6 DEF DrainLoop

\* So does the drain.
LEMMA DrainSessions ==
    ASSUME Inv, DrainLoop
    PROVE  OnePlace' /\ Reached'
<1>1. OnePlace /\ Reached
  BY DEF Inv
<1>2. UNCHANGED <<todo, wpc, work, cancelled>>
  BY DEF DrainLoop, ReceiveAck, Look, Drain, Drained, Mirror, SendIndexWork, Wake,
     DrainExit, DrainOnly, workers
<1>3. DOMAIN slots' = DOMAIN slots /\ \A i \in DOMAIN slots : slots'[i].s = slots[i].s
  BY DrainLoopRelabels DEF Relabelled
<1>4. \A w \in Workers : InHand(w)' = InHand(w)
  BY <1>2 DEF InHand
<1>5. \A w \in Workers : wpc'[w] = "exit" => todo = {} \/ cancelled'
  BY <1>1, <1>2 DEF Reached
<1> QED
  BY <1>1, <1>2, <1>3, <1>4, <1>5, SessionsKept

----------------------------------------------------------------------------
(* The reports. *)

\* A step that mirrors nothing.
LEMMA ReportedKept ==
    ASSUME Reported, UNCHANGED <<results, committed, failed>>,
           DOMAIN slots \subseteq DOMAIN slots',
           \A i \in DOMAIN slots : slots'[i].s = slots[i].s,
           Mirrored' = Mirrored,
           \A i \in DOMAIN slots' : InBatch(i)' => i \in DOMAIN slots /\ InBatch(i)
    PROVE  Reported'
<1>1. Mirrored \subseteq DOMAIN slots
  BY DEF Mirrored
<1>2. {slots[i].s : i \in Mirrored}' = {slots[i].s : i \in Mirrored}
  BY <1>1
<1>3. \A s : Eligible(s)' <=> Eligible(s)
  BY DEF Eligible
<1>4. \A i \in DOMAIN slots' : InBatch(i)' => Eligible(slots[i].s)'
  BY <1>3 DEF Reported
<1> QED
  BY <1>2, <1>4 DEF Reported

\* Workers lose no session on the way to a report.
LEMMA WorkerReported ==
    ASSUME Inv, NEW w \in Workers, Worker(w)
    PROVE  Reported'
<1>1. Shape /\ SlotsOK /\ Reported
  BY DEF Inv
<1>2. UNCHANGED <<dpc, drain, committed, failed, results>>
  BY DEF Worker, TakeRoot, WorkerExit, Process, CopyToArena, StageOutside,
     ClaimSlot, Publish, WorkerOnly, drainer
<1>3. \A i : InBatch(i)' = InBatch(i)
  BY <1>2 DEF InBatch
<1>4. \A i : InBatch(i) => i \in DOMAIN slots
  BY <1>1 DEF InBatch, SlotsOK, Draining
<1>5. CASE UNCHANGED slots
  <2>1. Mirrored' = Mirrored
    BY <1>3, <1>5 DEF Mirrored
  <2> QED
    BY <1>1, <1>2, <1>3, <1>5, <2>1, ReportedKept
<1>6. CASE ClaimSlot(w)
  <2> DEFINE e == [s |-> work[w].s, kind |-> work[w].kind,
                   start |-> work[w].start, len |-> work[w].size,
                   pad |-> work[w].pad, state |-> "empty"]
  <2>1. slots' = Append(slots, e) /\ e.state = "empty" /\ slots \in Seq(Slots)
    BY <1>1, <1>6 DEF ClaimSlot, Shape
  <2> HIDE DEF e
  <2>2. /\ DOMAIN slots' = DOMAIN slots \cup {Len(slots) + 1}
        /\ \A i \in DOMAIN slots : slots'[i] = slots[i]
        /\ slots'[Len(slots) + 1] = e
    BY <2>1
  <2>3. Mirrored' = Mirrored
    BY <1>3, <2>1, <2>2 DEF Mirrored
  <2> QED
    BY <1>1, <1>2, <1>3, <1>4, <2>2, <2>3, ReportedKept
<1>7. CASE Publish(w)
  <2> DEFINE n == work[w].slot
  <2>1. slots[n].state = "empty"
    BY <1>1, <1>7 DEF Publish, SlotsOK, Publishing
  <2>2. /\ DOMAIN slots' = DOMAIN slots
        /\ \A i \in DOMAIN slots : slots'[i].s = slots[i].s
        /\ \A i \in DOMAIN slots :
              slots'[i].state = IF i \in {n} THEN "ready" ELSE slots[i].state
    BY <1>1, <1>7, PublishRelabels, Relabelling DEF Relabelled, Shape
  <2> HIDE DEF n
  <2>3. Mirrored' = Mirrored
    BY <1>3, <2>1, <2>2 DEF Mirrored
  <2> QED
    BY <1>1, <1>2, <1>3, <2>2, <2>3, ReportedKept
<1> QED
  BY <1>5, <1>6, <1>7 DEF Worker, TakeRoot, WorkerExit, Process, CopyToArena,
     StageOutside

\* Mirroring a batch reports each of its sessions, which no report names yet.
LEMMA MirrorReported ==
    ASSUME Inv, Mirror
    PROVE  Reported'
<1> DEFINE C == ToSet(drain.batch)
           S == {slots[i].s : i \in C}
           new == [k \in DOMAIN drain.batch |-> slots[drain.batch[k]].s]
<1>1. Shape /\ SlotsOK /\ OnePlace /\ Reported
  BY DEF Inv
<1>2. /\ dpc = "mirror" /\ C \subseteq DOMAIN slots /\ Reports
      /\ committed' \cup failed' = committed \cup failed \cup S
  BY <1>1, MirrorSteps
<1>3. /\ new \in Seq(Sessions) /\ results' = results \o new
      /\ results \in Seq(Sessions) /\ ToSet(new) = S
  BY <1>1, <1>2, ReportsTyped
<1>4. \A i : InBatch(i) <=> i \in C
  BY <1>2 DEF InBatch
<1>5. Injective(new)
  <2>1. Injective(drain.batch) /\ \A k \in DOMAIN drain.batch : drain.batch[k] \in C
    BY <1>1, <1>2 DEF SlotsOK, Draining, ToSet
  <2> SUFFICES ASSUME NEW j \in DOMAIN new, NEW k \in DOMAIN new, new[j] = new[k]
               PROVE  j = k
    BY DEF Injective
  <2>2. slots[drain.batch[j]].s = slots[drain.batch[k]].s
    OBVIOUS
  <2>3. drain.batch[j] = drain.batch[k]
    BY <1>1, <1>2, <2>1, <2>2 DEF OnePlace
  <2> QED
    BY <2>1, <2>3 DEF Injective
<1>6. ToSet(results) \cap ToSet(new) = {}
  <2>1. ToSet(results) = {slots[i].s : i \in Mirrored}
    BY <1>1 DEF Reported
  <2>2. Mirrored \cap C = {} /\ Mirrored \subseteq DOMAIN slots
    BY <1>4 DEF Mirrored
  <2>3. \A i \in Mirrored, j \in C : slots[i].s # slots[j].s
    BY <1>1, <1>2, <2>2 DEF OnePlace
  <2> QED
    BY <1>3, <2>1, <2>3
<1>7. Injective(results)
  BY <1>1 DEF Reported
<1> HIDE DEF new
<1>8. Injective(results') /\ ToSet(results') = ToSet(results) \cup S
  BY <1>3, <1>5, <1>6, <1>7, ConcatOf
<1>9. \A i : ~InBatch(i)'
  BY <1>1, <1>2, MirrorSteps DEF InBatch, MirrorAcks, MirrorHandsOver
<1>10. \A i \in C : slots[i].state = "claimed"
  BY <1>1, <1>2 DEF SlotsOK, Draining
<1>11. /\ DOMAIN slots' = DOMAIN slots
       /\ \A i \in DOMAIN slots : slots'[i].s = slots[i].s
       /\ \A i \in DOMAIN slots :
             \/ slots'[i].state = slots[i].state
             \/ i \in C /\ slots'[i].state = "acked"
  <2>1. CASE MirrorAcks
    <3>1. Ack(C)
      BY <2>1 DEF MirrorAcks
    <3> HIDE DEF C
    <3> QED
      BY <1>1, <1>2, <1>10, <3>1, AckChanges DEF Relabelled
  <2>2. CASE UNCHANGED slots
    BY <2>2
  <2> QED
    BY <1>1, <2>1, <2>2, MirrorSteps DEF MirrorHandsOver
<1>12. Mirrored' = Mirrored \cup C
  BY <1>2, <1>4, <1>9, <1>10, <1>11 DEF Mirrored
<1>13. ToSet(results') = {slots[i].s : i \in Mirrored}'
  <2>1. ToSet(results) = {slots[i].s : i \in Mirrored}
    BY <1>1 DEF Reported
  <2>2. Mirrored' \subseteq DOMAIN slots
    BY <1>11 DEF Mirrored
  <2> QED
    BY <1>8, <1>11, <1>12, <2>1, <2>2
<1>14. ToSet(results') = committed' \cup failed'
  BY <1>1, <1>2, <1>8 DEF Reported
<1> QED
  BY <1>8, <1>9, <1>13, <1>14 DEF Reported

\* Nor does the drain.
LEMMA DrainReported ==
    ASSUME Inv, DrainLoop
    PROVE  Reported'
<1>1. Shape /\ SlotsOK /\ Reported
  BY DEF Inv
<1>2. DOMAIN slots' = DOMAIN slots /\ \A i \in DOMAIN slots : slots'[i].s = slots[i].s
  BY DrainLoopRelabels DEF Relabelled
<1>3. CASE ReceiveAck
  <2> DEFINE C == batches[Head(indexDone)].claimed
  <2>1. /\ Ack(C) /\ C \subseteq DOMAIN slots
        /\ \A i \in C : slots[i].state = "claimed"
    BY <1>3, AckOfBatch
  <2> HIDE DEF C
  <2>2. \A i \in DOMAIN slots :
           slots'[i].state = IF i \in C THEN "acked" ELSE slots[i].state
    BY <1>1, <2>1, AckChanges
  <2>3. dpc # "mirror" /\ dpc' # "mirror" /\ UNCHANGED <<committed, failed, results>>
    BY <1>3 DEF ReceiveAck
  <2>4. Mirrored' = Mirrored
    BY <1>2, <2>1, <2>2, <2>3 DEF Mirrored, InBatch
  <2> QED
    BY <1>1, <1>2, <2>3, <2>4, ReportedKept DEF InBatch
<1>4. CASE Drain
  <2>1. PICK batch \in Seq(Nat) :
           /\ Drained(batch, drain.done) /\ ToSet(batch) \subseteq ReadySlots
           /\ \A i \in ToSet(batch) : Eligible(slots[i].s)
    BY <1>1, <1>4, DrainClaims
  <2>2. /\ drain' = [drain EXCEPT !.batch = batch, !.seen = {}]
        /\ dpc = "drain" /\ (dpc' = "mirror" <=> batch # <<>>)
    BY <1>4, <2>1 DEF Drained, Drain
  <2>3. drain'.batch = batch
    BY <1>1, <2>2, DrainFields DEF DrainTypes
  <2>4. \A i : ~InBatch(i) /\ (InBatch(i)' <=> i \in ToSet(batch))
    <3>1. batch = <<>> => ToSet(batch) = {}
      BY DEF ToSet
    <3> QED
      BY <2>2, <2>3, <3>1 DEF InBatch
  <2>5. \A i \in DOMAIN slots :
           slots'[i].state = IF i \in ToSet(batch) THEN "claimed" ELSE slots[i].state
    BY <1>1, <2>1, DrainedRelabels, Relabelling DEF Shape
  <2>6. Mirrored' = Mirrored
    BY <1>2, <2>1, <2>4, <2>5 DEF Mirrored, ReadySlots
  <2>7. UNCHANGED <<committed, failed, results>>
    BY <2>1 DEF Drained
  <2>8. {slots[i].s : i \in Mirrored}' = {slots[i].s : i \in Mirrored}
    BY <1>2, <2>6 DEF Mirrored
  <2>9. \A i \in DOMAIN slots' : InBatch(i)' => Eligible(slots[i].s)'
    <3>1. \A s : Eligible(s)' <=> Eligible(s)
      BY <2>7 DEF Eligible
    <3> QED
      BY <1>2, <2>1, <2>4, <3>1
  <2> QED
    BY <1>1, <2>7, <2>8, <2>9 DEF Reported
<1>5. CASE Look \/ SendIndexWork \/ Wake \/ DrainExit
  <2>1. /\ UNCHANGED <<slots, committed, failed, results>>
        /\ dpc # "mirror" /\ dpc' # "mirror"
    BY <1>5 DEF Look, SendIndexWork, Wake, DrainExit
  <2>2. Mirrored' = Mirrored
    BY <2>1 DEF Mirrored, InBatch
  <2> QED
    BY <1>1, <2>1, <2>2, ReportedKept DEF InBatch
<1> QED
  BY <1>3, <1>4, <1>5, MirrorReported DEF DrainLoop

----------------------------------------------------------------------------
(* The ring. *)

\* A step that neither copies nor releases.
LEMMA RingKept ==
    ASSUME Ring, UNCHANGED <<head, tail, released, arena>>,
           LiveSlots' = LiveSlots, Copied' = Copied,
           \A i \in LiveSlots :
              /\ slots'[i].s = slots[i].s /\ slots'[i].start = slots[i].start
              /\ slots'[i].len = slots[i].len /\ slots'[i].pad = slots[i].pad,
           \A w \in Copied :
              /\ work'[w].s = work[w].s /\ work'[w].start = work[w].start
              /\ work'[w].size = work[w].size /\ work'[w].pad = work[w].pad
    PROVE  Ring'
<1>1. \A i \in LiveSlots : Span(i)' = Span(i)
  BY DEF Span
<1>2. \A w \in Copied : ClaimOf(w)' = ClaimOf(w)
  BY DEF ClaimOf
<1>3. \A x : Within(x)' <=> Within(x)
  BY DEF Within
<1>4. RingBounds'
  <2>1. \A i \in LiveSlots' : Within(Span(i))'
    BY <1>1, <1>3 DEF Ring, RingBounds, Within
  <2>2. \A w \in Copied' : Within(ClaimOf(w))'
    BY <1>2, <1>3 DEF Ring, RingBounds, Within
  <2> QED
    BY <1>3, <2>1, <2>2 DEF Ring, RingBounds
<1>5. RingApart'
  BY <1>1, <1>2 DEF Ring, RingApart, Apart
<1>6. RingCovered'
  BY <1>1, <1>2 DEF Ring, RingCovered, Covers
<1>7. RingIntact'
  BY DEF Ring, RingIntact, Stored
<1> QED
  BY <1>4, <1>5, <1>6, <1>7 DEF Ring

\* The coordinates are integers.
LEMMA SpanTypes ==
    ASSUME Shape
    PROVE  /\ \A i \in LiveSlots :
                 /\ slots[i].start \in Nat /\ slots[i].len \in Nat /\ slots[i].pad \in Nat
                 /\ Span(i) \in Spans
                 /\ Span(i).start = slots[i].start - slots[i].pad
                 /\ Span(i).end = slots[i].start + slots[i].len
           /\ \A w \in Copied :
                 /\ work[w].start \in Nat /\ work[w].size \in Nat /\ work[w].pad \in Nat
                 /\ ClaimOf(w) \in Spans
                 /\ ClaimOf(w).start = work[w].start - work[w].pad
                 /\ ClaimOf(w).end = work[w].start + work[w].size
<1>1. \A i \in LiveSlots : slots[i] \in Slots
  BY SlotNumbers DEF LiveSlots
<1>2. \A i \in LiveSlots :
         slots[i].start \in Nat /\ slots[i].len \in Nat /\ slots[i].pad \in Nat
  BY <1>1 DEF Slots
<1>3. \A w \in Copied : work[w] \in Works
  BY DEF Copied, Shape, WorkersOK, WorkerOK
<1>4. \A w \in Copied :
         work[w].start \in Nat /\ work[w].size \in Nat /\ work[w].pad \in Nat
  BY <1>3 DEF Works
<1> QED
  BY <1>2, <1>4 DEF Span, ClaimOf, Spans

(***************************************************************************)
(* An acknowledgement: every byte the tail moves over was released, so it  *)
(* stops at or before the first live copy, and the gap of a wrap goes with *)
(* the copy behind it.                                                     *)
(***************************************************************************)
LEMMA AckRing ==
    ASSUME Shape, Ring, NEW C \in SUBSET DOMAIN slots, Ack(C),
           \A i \in C : slots[i].state = "claimed",
           UNCHANGED <<head, arena, wpc, work>>
    PROVE  Ring'
<1> DEFINE D == {k \in C : slots[k].len > 0}
           spans == released \cup {Span(i) : i \in D}
<1>1. RingBounds /\ RingApart /\ RingCovered /\ RingIntact
  BY DEF Ring
<1>2. tail' \in Contiguous(spans) /\ released' = {x \in spans : x.end > tail'}
  BY DEF Ack
<1>3. Relabelled /\ DOMAIN slots' = DOMAIN slots
  BY AckChanges DEF Relabelled
<1>4. D \subseteq LiveSlots
  BY DEF LiveSlots
<1>5. LiveSlots' = LiveSlots \ C
  <2>1. \A i \in DOMAIN slots :
           /\ slots'[i].len = slots[i].len
           /\ slots'[i].state = IF i \in C THEN "acked" ELSE slots[i].state
    BY AckChanges DEF Relabelled
  <2> QED
    BY <1>3, <2>1 DEF LiveSlots
<1>6. LiveSlots = LiveSlots' \cup D
  BY <1>4, <1>5 DEF LiveSlots
<1>7. Copied' = Copied
  BY DEF Copied
<1>8. /\ \A i \in LiveSlots' : Span(i)' = Span(i)
      /\ \A w \in Copied : ClaimOf(w)' = ClaimOf(w)
  <2>1. LiveSlots' \subseteq DOMAIN slots
    BY <1>5 DEF LiveSlots
  <2> QED
    BY <1>3, <2>1 DEF Relabelled, Span, ClaimOf
<1>9. \A x \in spans : /\ x \in Spans /\ x.start \in Int /\ x.end \in Int /\ Within(x)
  <2>1. \A x \in spans : x \in Spans /\ Within(x)
    BY <1>1, <1>4, SpanTypes DEF RingBounds
  <2> QED
    BY <2>1 DEF Spans
<1>10. \A x, y \in spans : x # y => Apart(x, y)
  <2>1. \A x \in released, i \in D : Apart(x, Span(i)) /\ Apart(Span(i), x)
    BY <1>1, <1>4 DEF RingApart, Apart
  <2>2. \A i, j \in D : Span(i) # Span(j) => Apart(Span(i), Span(j))
    BY <1>1, <1>4 DEF RingApart
  <2>3. \A x, y \in released : x # y => Apart(x, y)
    BY <1>1 DEF RingApart
  <2> QED
    BY <2>1, <2>2, <2>3
<1>11. /\ \A i \in LiveSlots', x \in spans : Apart(Span(i), x)
       /\ \A w \in Copied, x \in spans : Apart(ClaimOf(w), x)
  <2>1. \A i \in LiveSlots', j \in D : i # j
    BY <1>5
  <2> QED
    BY <1>1, <1>4, <1>5, <2>1 DEF RingApart, Apart
<1> HIDE DEF D, spans
<1>12. /\ head \in Nat /\ tail \in 0..head
       /\ \A i \in LiveSlots : Within(Span(i))
       /\ \A w \in Copied : Within(ClaimOf(w))
  BY <1>1 DEF RingBounds
<1>13. /\ \/ tail' = tail
          \/ \E x \in spans : tail' = x.end
       /\ \A x \in spans : x.start # tail'
       /\ \A k \in tail..(tail' - 1) : \E x \in spans : Covers(x, k)
  BY <1>2 DEF Contiguous, Covers
<1>14. tail' \in tail..head /\ tail' \in 0..head
  BY <1>9, <1>12, <1>13 DEF Within
<1>15. ASSUME NEW y \in Spans, Within(y), \A x \in spans : Apart(y, x)
       PROVE  tail' <= y.start
  <2>1. y.start \in Int /\ y.end \in Int
    BY DEF Spans
  <2> SUFFICES ASSUME y.start < tail'
               PROVE  FALSE
    BY <1>14, <2>1
  <2>2. y.start \in tail..(tail' - 1)
    BY <1>12, <1>14, <1>15, <2>1 DEF Within
  <2>3. PICK x \in spans : Covers(x, y.start)
    BY <1>13, <2>2
  <2> QED
    BY <1>9, <1>15, <2>1, <2>3 DEF Covers, Apart, Within
<1>16. ASSUME NEW x \in spans, x.end > tail'
       PROVE  tail' < x.start
  <2> SUFFICES ASSUME x.start < tail'
               PROVE  FALSE
    BY <1>9, <1>13, <1>14
  <2>1. tail' # tail
    BY <1>9, <1>12 DEF Within
  <2>2. PICK y \in spans : tail' = y.end
    BY <1>13, <2>1
  <2>3. Apart(x, y)
    BY <1>9, <1>10, <1>16, <2>2
  <2> QED
    BY <1>9, <1>16, <2>2, <2>3 DEF Apart, Within
<1>17. RingBounds'
  <2>1. \A i \in LiveSlots' : Within(Span(i))'
    <3> SUFFICES ASSUME NEW i \in LiveSlots'
                 PROVE  Within(Span(i))'
      OBVIOUS
    <3>1. i \in LiveSlots /\ Span(i) \in Spans /\ Within(Span(i))
      BY <1>5, <1>12, SpanTypes
    <3>2. tail' <= Span(i).start
      BY <1>11, <1>15, <3>1
    <3> QED
      BY <1>8, <3>1, <3>2 DEF Within
  <2>2. \A w \in Copied' : Within(ClaimOf(w))'
    <3> SUFFICES ASSUME NEW w \in Copied
                 PROVE  Within(ClaimOf(w))'
      BY <1>7
    <3>1. ClaimOf(w) \in Spans /\ Within(ClaimOf(w))
      BY <1>12, SpanTypes
    <3>2. tail' <= ClaimOf(w).start
      BY <1>11, <1>15, <3>1
    <3> QED
      BY <1>8, <3>1, <3>2 DEF Within
  <2>3. ASSUME NEW x \in released'
        PROVE  x \in Spans /\ Within(x)' /\ tail' < x.start
    <3>1. x \in spans /\ tail' < x.start
      BY <1>2, <1>16
    <3>2. x \in Spans /\ Within(x) /\ x.start \in Int
      BY <1>9, <3>1
    <3> QED
      BY <1>14, <3>1, <3>2 DEF Within
  <2> QED
    BY <1>12, <1>14, <2>1, <2>2, <2>3 DEF RingBounds
<1>18. RingApart'
  <2>1. released' \subseteq spans
    BY <1>2
  <2>2. \A i, j \in LiveSlots' : i # j => Apart(Span(i), Span(j))
    BY <1>1, <1>5 DEF RingApart
  <2>3. \A v, w \in Copied : v # w => Apart(ClaimOf(v), ClaimOf(w))
    BY <1>1 DEF RingApart
  <2>4. \A i \in LiveSlots', w \in Copied : Apart(Span(i), ClaimOf(w))
    BY <1>1, <1>5 DEF RingApart
  <2> QED
    BY <1>7, <1>8, <1>10, <1>11, <2>1, <2>2, <2>3, <2>4 DEF RingApart, Apart
<1>19. RingCovered'
  <2> SUFFICES ASSUME NEW k \in tail'..(head' - 1)
               PROVE  \/ \E i \in LiveSlots' : Covers(Span(i)', k)
                      \/ \E w \in Copied' : Covers(ClaimOf(w)', k)
                      \/ \E x \in released' : Covers(x, k)
    BY DEF RingCovered, Covers
  <2>1. k \in tail..(head - 1) /\ tail' <= k /\ k \in Int
    BY <1>12, <1>14
  <2>2. ASSUME NEW x \in spans, Covers(x, k)
        PROVE  x \in released'
    BY <1>2, <1>9, <1>14, <2>1, <2>2 DEF Covers
  <2>3. CASE \E i \in LiveSlots : Covers(Span(i), k)
    <3>1. PICK i \in LiveSlots : Covers(Span(i), k)
      BY <2>3
    <3>2. CASE i \in D
      BY <2>2, <3>1, <3>2 DEF spans
    <3>3. CASE i \in LiveSlots'
      BY <1>8, <3>1, <3>3
    <3> QED
      BY <1>6, <3>2, <3>3
  <2>4. CASE \E w \in Copied : Covers(ClaimOf(w), k)
    BY <1>7, <1>8, <2>4
  <2>5. CASE \E x \in released : Covers(x, k)
    BY <2>2, <2>5 DEF spans
  <2> QED
    BY <1>1, <2>1, <2>3, <2>4, <2>5 DEF RingCovered
<1>20. RingIntact'
  <2>1. \A i \in LiveSlots' : /\ i \in LiveSlots
                              /\ slots'[i].s = slots[i].s
                              /\ slots'[i].start = slots[i].start
                              /\ slots'[i].len = slots[i].len
    BY <1>3, <1>5 DEF Relabelled, LiveSlots
  <2> QED
    BY <1>1, <1>7, <2>1 DEF RingIntact, Stored
<1> QED
  BY <1>17, <1>18, <1>19, <1>20 DEF Ring

\* A claim with its wrap gap, and the bytes copied behind it.
LEMMA CopyRing ==
    ASSUME Inv, NEW w \in Workers, CopyToArena(w)
    PROVE  Ring'
<1>1. Shape /\ Ring /\ WorkersOK /\ WorkerOK(w) /\ work[w] \in Works
  BY DEF Inv, Shape, WorkersOK, WorkerOK
<1>2. RingBounds /\ RingApart /\ RingCovered /\ RingIntact
  BY <1>1 DEF Ring
<1>3. PICK n, g, start : n = work[w].size /\ g = Gap(n) /\ start = head + g
  OBVIOUS
<1>4. /\ Fits(n) /\ head' = start + n /\ wpc[w] = "copy"
      /\ arena' = [i \in DOMAIN arena |->
                     IF i \in Bytes(start, n) THEN work[w].s ELSE arena[i]]
      /\ work' = [work EXCEPT ![w].start = start, ![w].pad = g]
      /\ wpc' = [wpc EXCEPT ![w] = "slot"]
      /\ UNCHANGED <<tail, released, slots>>
  BY <1>3 DEF CopyToArena
<1>5. /\ n \in Nat \ {0} /\ 2 * n <= ArenaSize /\ ArenaSize \in Nat \ {0}
      /\ head \in Nat /\ tail \in 0..head
  BY <1>1, <1>2, <1>3, <1>4, BoundsAssumption DEF WorkerOK, Works, RingBounds
<1>6. head % ArenaSize \in 0..(ArenaSize - 1)
  BY <1>5, Division
<1>7. /\ g \in Nat /\ start \in Nat /\ head' \in Nat /\ head <= start /\ start < head'
      /\ head' - tail <= ArenaSize
      /\ g = 0 => (head % ArenaSize) + n <= ArenaSize
      /\ g # 0 => g = ArenaSize - (head % ArenaSize)
  <2> DEFINE m == head % ArenaSize
  <2>1. g = IF m + n > ArenaSize THEN ArenaSize - m ELSE 0
    BY <1>3 DEF Gap
  <2>2. ArenaSize - (head - tail) >= g + n
    BY <1>3, <1>4 DEF Fits
  <2>3. m \in 0..(ArenaSize - 1)
    BY <1>6
  <2> HIDE DEF m
  <2>4. g \in Nat /\ (g = 0 => m + n <= ArenaSize) /\ (g # 0 => g = ArenaSize - m)
    BY <1>5, <2>1, <2>3
  <2>5. /\ start \in Nat /\ head' \in Nat /\ head <= start /\ start < head'
        /\ head' - tail <= ArenaSize
    BY <1>3, <1>4, <1>5, <2>2, <2>4
  <2> QED
    BY <2>4, <2>5 DEF m
<1>8. (start % ArenaSize) + n <= ArenaSize
  <2>1. CASE g = 0
    BY <1>3, <1>5, <1>7, <2>1
  <2>2. CASE g # 0
    <3>1. start = head + (ArenaSize - (head % ArenaSize))
      BY <1>3, <1>7, <2>2
    <3>2. start % ArenaSize = 0
      BY <1>5, <3>1, AfterTheGap
    <3> QED
      BY <1>5, <3>2
  <2> QED
    BY <2>1, <2>2
<1>9. \A v \in Workers \ {w} : wpc'[v] = wpc[v] /\ work'[v] = work[v]
  BY <1>1, <1>4 DEF WorkersOK
<1>10. /\ wpc'[w] = "slot" /\ work'[w].s = work[w].s /\ work'[w].size = n
       /\ work'[w].start = start /\ work'[w].pad = g
  <2>1. /\ wpc'[w] = "slot"
        /\ work'[w] = [work[w] EXCEPT !.start = start, !.pad = g]
    BY <1>1, <1>4 DEF WorkersOK
  <2> QED
    BY <1>1, <1>3, <2>1 DEF Works
<1>11. Copied' = Copied \cup {w} /\ w \notin Copied
  <2>1. \A v \in Workers \ {w} : v \in Copied' <=> v \in Copied
    BY <1>9 DEF Copied
  <2>2. n > 0
    BY <1>5
  <2>3. w \in Copied' /\ w \notin Copied
    BY <1>4, <1>10, <2>2 DEF Copied
  <2>4. Copied \subseteq Workers /\ Copied' \subseteq Workers
    BY DEF Copied
  <2> QED
    BY <2>1, <2>3, <2>4
<1>12. LiveSlots' = LiveSlots /\ \A i : Span(i)' = Span(i)
  BY <1>4 DEF LiveSlots, Span
<1>13. \A v \in Copied : ClaimOf(v)' = ClaimOf(v)
  BY <1>9, <1>11 DEF ClaimOf, Copied
<1>14. PICK c : c = ClaimOf(w)'
  OBVIOUS
<1>15. c.start = head /\ c.end = head'
  BY <1>3, <1>4, <1>5, <1>7, <1>10, <1>14 DEF ClaimOf
<1>16. \A x : Within(x) /\ x.start \in Int /\ x.end \in Int => Within(x)' /\ x.end <= c.start
  BY <1>4, <1>5, <1>7, <1>15 DEF Within
<1>17. /\ \A i \in LiveSlots : Span(i).start \in Int /\ Span(i).end \in Int
       /\ \A v \in Copied : ClaimOf(v).start \in Int /\ ClaimOf(v).end \in Int
       /\ \A x \in released : x.start \in Int /\ x.end \in Int
  BY <1>1, <1>2, SpanTypes DEF Spans, RingBounds
<1>18. /\ \A i \in LiveSlots : Within(Span(i)) /\ Span(i).end <= c.start
       /\ \A v \in Copied : Within(ClaimOf(v)) /\ ClaimOf(v).end <= c.start
       /\ \A x \in released : Within(x) /\ x.end <= c.start
  BY <1>2, <1>16, <1>17 DEF RingBounds
<1>19. RingBounds'
  <2>1. \A i \in LiveSlots' : Within(Span(i))'
    BY <1>12, <1>16, <1>17, <1>18 DEF Within
  <2>2. \A v \in Copied : Within(ClaimOf(v))'
    BY <1>13, <1>16, <1>17, <1>18 DEF Within
  <2>3. Within(ClaimOf(w))'
    BY <1>4, <1>5, <1>7, <1>14, <1>15 DEF Within
  <2>4. \A x \in released' : Within(x)' /\ tail' < x.start
    BY <1>2, <1>4, <1>16, <1>17, <1>18 DEF RingBounds
  <2>5. head' \in Nat /\ tail' \in 0..head' /\ released' \subseteq Spans
    BY <1>2, <1>4, <1>5, <1>7 DEF RingBounds
  <2> QED
    BY <1>11, <2>1, <2>2, <2>3, <2>4, <2>5 DEF RingBounds
<1>20. RingApart'
  <2>1. \A i, j \in LiveSlots' : i # j => Apart(Span(i), Span(j))'
    BY <1>2, <1>12 DEF RingApart, Apart
  <2>2. \A x, y \in released' : x # y => Apart(x, y)
    BY <1>2, <1>4 DEF RingApart
  <2>3. \A i \in LiveSlots', x \in released' : Apart(Span(i), x)'
    BY <1>2, <1>4, <1>12 DEF RingApart, Apart
  <2>4. \A u, v \in Copied' : u # v => Apart(ClaimOf(u), ClaimOf(v))'
    BY <1>2, <1>11, <1>13, <1>14, <1>18 DEF RingApart, Apart
  <2>5. \A i \in LiveSlots', v \in Copied' : Apart(Span(i), ClaimOf(v))'
    BY <1>2, <1>11, <1>12, <1>13, <1>14, <1>18 DEF RingApart, Apart
  <2>6. \A v \in Copied', x \in released' : Apart(ClaimOf(v), x)'
    BY <1>2, <1>4, <1>11, <1>13, <1>14, <1>18 DEF RingApart, Apart
  <2> QED
    BY <2>1, <2>2, <2>3, <2>4, <2>5, <2>6 DEF RingApart, Apart
<1>21. RingCovered'
  <2> SUFFICES ASSUME NEW k \in tail'..(head' - 1)
               PROVE  \/ \E i \in LiveSlots' : Covers(Span(i)', k)
                      \/ \E v \in Copied' : Covers(ClaimOf(v)', k)
                      \/ \E x \in released' : Covers(x, k)
    BY DEF RingCovered, Covers
  <2>1. CASE k < head
    <3>1. k \in tail..(head - 1)
      BY <1>4, <1>5, <1>7, <2>1
    <3>2. CASE \E i \in LiveSlots : Covers(Span(i), k)
      BY <1>12, <3>2
    <3>3. CASE \E v \in Copied : Covers(ClaimOf(v), k)
      BY <1>11, <1>13, <3>3
    <3>4. CASE \E x \in released : Covers(x, k)
      BY <1>4, <3>4
    <3> QED
      BY <1>2, <3>1, <3>2, <3>3, <3>4 DEF RingCovered
  <2>2. CASE k >= head
    <3>1. Covers(c, k)
      BY <1>4, <1>5, <1>7, <1>15, <2>2 DEF Covers
    <3>2. w \in Copied' /\ Covers(ClaimOf(w)', k)
      BY <1>11, <1>14, <3>1
    <3> QED
      BY <3>2
  <2> QED
    BY <1>4, <1>5, <1>7, <2>1, <2>2
<1>22. ASSUME NEW j \in tail..(head - 1)
       PROVE  arena'[j % ArenaSize] = arena[j % ArenaSize]
  <2>1. j \in Nat /\ j % ArenaSize \in 0..(ArenaSize - 1)
    BY <1>5, Division
  <2>2. ASSUME NEW k \in start..(start + n - 1)
        PROVE  j % ArenaSize # k % ArenaSize
    <3>1. k \in Nat /\ j < k /\ k < j + ArenaSize
      BY <1>4, <1>5, <1>7, <2>1
    <3> QED
      BY <1>5, <2>1, <3>1, LessThanATurn
  <2>3. j % ArenaSize \notin Bytes(start, n)
    BY <2>2 DEF Bytes
  <2>4. DOMAIN arena = 0..(ArenaSize - 1)
    BY <1>1 DEF Shape
  <2> QED
    BY <1>4, <2>1, <2>3, <2>4
<1>23. RingIntact'
  <2>1. \A i \in LiveSlots' : Stored(slots[i].s, slots[i].start, slots[i].len)'
    <3> SUFFICES ASSUME NEW i \in LiveSlots
                 PROVE  Stored(slots[i].s, slots[i].start, slots[i].len)'
      BY <1>12
    <3>1. /\ slots[i].start \in Nat /\ slots[i].len \in Nat /\ slots[i].pad \in Nat
          /\ Span(i).start = slots[i].start - slots[i].pad
          /\ Span(i).end = slots[i].start + slots[i].len
      BY <1>1, SpanTypes
    <3>2. tail <= slots[i].start - slots[i].pad /\ slots[i].start + slots[i].len <= head
      BY <1>15, <1>18, <3>1 DEF Within
    <3>3. Stored(slots[i].s, slots[i].start, slots[i].len)
      BY <1>2 DEF RingIntact
    <3> DEFINE s == slots[i].s
               a == slots[i].start
               len == slots[i].len
               pad == slots[i].pad
    <3>4. UNCHANGED <<s, a, len>>
      BY <1>4
    <3>5. (a % ArenaSize) + len <= ArenaSize
      BY <3>3 DEF Stored
    <3>6. \A k \in a..(a + len - 1) : arena[k % ArenaSize] = s
      BY <3>3 DEF Stored
    <3>7. a \in Nat /\ len \in Nat /\ pad \in Nat /\ tail <= a - pad /\ a + len <= head
      BY <3>1, <3>2
    <3> HIDE DEF s, a, len, pad
    <3>8. \A k \in a..(a + len - 1) : k \in tail..(head - 1)
      BY <1>5, <3>7
    <3>9. \A k \in a..(a + len - 1) : arena'[k % ArenaSize] = s
      BY <1>22, <3>6, <3>8
    <3> QED
      BY <3>4, <3>5, <3>9 DEF Stored, s, a, len
  <2>2. \A v \in Copied : Stored(work[v].s, work[v].start, work[v].size)'
    <3> SUFFICES ASSUME NEW v \in Copied
                 PROVE  Stored(work[v].s, work[v].start, work[v].size)'
      OBVIOUS
    <3> DEFINE s == work[v].s
               a == work[v].start
               len == work[v].size
               pad == work[v].pad
    <3>1. /\ a \in Nat /\ len \in Nat /\ pad \in Nat
          /\ ClaimOf(v).start = a - pad /\ ClaimOf(v).end = a + len
      BY <1>1, SpanTypes
    <3>2. UNCHANGED <<s, a, len>>
      BY <1>9, <1>11 DEF Copied
    <3>3. Stored(s, a, len)
      BY <1>2 DEF RingIntact
    <3> HIDE DEF s, a, len, pad
    <3>4. tail <= a - pad /\ a + len <= head
      BY <1>15, <1>18, <3>1 DEF Within
    <3>5. \A k \in a..(a + len - 1) : k \in tail..(head - 1)
      BY <1>5, <3>1, <3>4
    <3>6. \A k \in a..(a + len - 1) : arena'[k % ArenaSize] = s
      BY <1>22, <3>3, <3>5 DEF Stored
    <3> QED
      BY <3>2, <3>3, <3>6 DEF Stored, s, a, len
  <2>3. Stored(work[w].s, work[w].start, work[w].size)'
    <3>1. ASSUME NEW k \in start..(start + n - 1)
          PROVE  arena'[k % ArenaSize] = work[w].s
      <4>1. k % ArenaSize \in 0..(ArenaSize - 1)
        <5>1. k \in Nat
          BY <1>5, <1>7
        <5> QED
          BY <1>5, <5>1, Division
      <4>2. k % ArenaSize \in Bytes(start, n)
        BY DEF Bytes
      <4>3. DOMAIN arena = 0..(ArenaSize - 1)
        BY <1>1 DEF Shape
      <4> QED
        BY <1>4, <4>1, <4>2, <4>3
    <3> QED
      BY <1>8, <1>10, <3>1 DEF Stored
  <2> QED
    BY <1>11, <2>1, <2>2, <2>3 DEF RingIntact
<1> QED
  BY <1>19, <1>20, <1>21, <1>23 DEF Ring

\* The claim of a worker becomes the span of its slot.
LEMMA ClaimSlotRing ==
    ASSUME Inv, NEW w \in Workers, ClaimSlot(w)
    PROVE  Ring'
<1>1. Shape /\ Ring /\ WorkersOK /\ work[w] \in Works
  BY DEF Inv, Shape, WorkersOK, WorkerOK
<1>2. RingBounds /\ RingApart /\ RingCovered /\ RingIntact
  BY <1>1 DEF Ring
<1>3. PICK n, e : /\ n = Len(slots) + 1
                  /\ e = [s |-> work[w].s, kind |-> work[w].kind,
                          start |-> work[w].start, len |-> work[w].size,
                          pad |-> work[w].pad, state |-> "empty"]
  OBVIOUS
<1>4. /\ slots' = Append(slots, e) /\ wpc[w] = "slot"
      /\ work' = [work EXCEPT ![w].slot = n]
      /\ wpc' = [wpc EXCEPT ![w] = "publish"]
      /\ UNCHANGED <<head, tail, released, arena>>
  BY <1>3 DEF ClaimSlot, ring
<1>5. /\ DOMAIN slots' = DOMAIN slots \cup {n} /\ n \notin DOMAIN slots
      /\ \A i \in DOMAIN slots : slots'[i] = slots[i]
      /\ slots'[n] = e
  <2>1. slots \in Seq(Slots)
    BY <1>1 DEF Shape
  <2> DEFINE k == Len(slots) + 1
  <2>2. /\ DOMAIN slots' = DOMAIN slots \cup {k} /\ k \notin DOMAIN slots
        /\ \A i \in DOMAIN slots : slots'[i] = slots[i]
        /\ slots'[k] = e
    BY <1>4, <2>1
  <2> QED
    BY <1>3, <2>2
<1>6. /\ e.s = work[w].s /\ e.start = work[w].start /\ e.len = work[w].size
      /\ e.pad = work[w].pad /\ e.state = "empty"
  BY <1>3
<1>7. \A v \in Workers \ {w} : wpc'[v] = wpc[v] /\ work'[v] = work[v]
  BY <1>1, <1>4 DEF WorkersOK
<1>8. wpc'[w] = "publish"
  BY <1>1, <1>4 DEF WorkersOK
<1>9. Copied' = Copied \ {w}
  <2>1. \A v \in Workers \ {w} : v \in Copied' <=> v \in Copied
    BY <1>7 DEF Copied
  <2>2. w \notin Copied' /\ Copied \subseteq Workers /\ Copied' \subseteq Workers
    BY <1>8 DEF Copied
  <2> QED
    BY <2>1, <2>2
<1>10. LiveSlots' = LiveSlots \cup (IF w \in Copied THEN {n} ELSE {}) /\ n \notin LiveSlots
  <2>1. \A i \in DOMAIN slots : i \in LiveSlots' <=> i \in LiveSlots
    BY <1>5 DEF LiveSlots
  <2>2. n \in LiveSlots' <=> w \in Copied
    BY <1>4, <1>5, <1>6 DEF LiveSlots, Copied
  <2>3. LiveSlots' \subseteq DOMAIN slots \cup {n} /\ LiveSlots \subseteq DOMAIN slots
    BY <1>5 DEF LiveSlots
  <2> QED
    BY <1>5, <2>1, <2>2, <2>3
<1>11. /\ \A i \in LiveSlots : Span(i)' = Span(i)
       /\ \A v \in Copied' : ClaimOf(v)' = ClaimOf(v)
  <2>1. LiveSlots \subseteq DOMAIN slots /\ Copied' \subseteq Workers \ {w}
    BY <1>9 DEF LiveSlots, Copied
  <2> QED
    BY <1>5, <1>7, <2>1 DEF Span, ClaimOf
<1>12. Span(n)' = ClaimOf(w)
  BY <1>5, <1>6 DEF Span, ClaimOf
<1>13. CASE w \notin Copied
  <2>1. Copied' = Copied /\ LiveSlots' = LiveSlots
    BY <1>9, <1>10, <1>13
  <2>2. LiveSlots \subseteq DOMAIN slots /\ Copied \subseteq Workers \ {w}
    BY <1>13 DEF LiveSlots, Copied
  <2> QED
    BY <1>1, <1>4, <1>5, <1>7, <2>1, <2>2, RingKept
<1>14. CASE w \in Copied
  <2>1. LiveSlots' = LiveSlots \cup {n} /\ n \notin LiveSlots
    BY <1>10, <1>14
  <2>2. Copied' \subseteq Copied /\ \A v \in Copied' : v # w
    BY <1>9
  <2>3. \A x : Within(x)' <=> Within(x)
    BY <1>4 DEF Within
  <2>4. RingBounds'
    <3>1. \A i \in LiveSlots : Within(Span(i))'
      BY <1>2, <1>4, <1>11 DEF RingBounds, Within
    <3>2. Within(Span(n))'
      BY <1>2, <1>4, <1>12, <1>14 DEF RingBounds, Within
    <3>3. \A v \in Copied' : Within(ClaimOf(v))'
      BY <1>2, <1>4, <1>11, <2>2 DEF RingBounds, Within
    <3>4. \A x \in released' : Within(x)' /\ tail' < x.start
      BY <1>2, <1>4, <2>3 DEF RingBounds
    <3> QED
      BY <1>2, <1>4, <2>1, <3>1, <3>2, <3>3, <3>4 DEF RingBounds
  <2>5. RingApart'
    <3>1. \A i, j \in LiveSlots' : i # j => Apart(Span(i), Span(j))'
      BY <1>2, <1>11, <1>12, <1>14, <2>1 DEF RingApart, Apart
    <3>2. \A u, v \in Copied' : u # v => Apart(ClaimOf(u), ClaimOf(v))'
      BY <1>2, <1>11, <2>2 DEF RingApart, Apart
    <3>3. \A x, y \in released' : x # y => Apart(x, y)
      BY <1>2, <1>4 DEF RingApart
    <3>4. \A i \in LiveSlots', v \in Copied' : Apart(Span(i), ClaimOf(v))'
      BY <1>2, <1>11, <1>12, <1>14, <2>1, <2>2 DEF RingApart, Apart
    <3>5. \A i \in LiveSlots', x \in released' : Apart(Span(i), x)'
      BY <1>2, <1>4, <1>11, <1>12, <1>14, <2>1 DEF RingApart, Apart
    <3>6. \A v \in Copied', x \in released' : Apart(ClaimOf(v), x)'
      BY <1>2, <1>4, <1>11, <2>2 DEF RingApart, Apart
    <3> QED
      BY <3>1, <3>2, <3>3, <3>4, <3>5, <3>6 DEF RingApart, Apart
  <2>6. RingCovered'
    <3> SUFFICES ASSUME NEW k \in tail..(head - 1)
                 PROVE  \/ \E i \in LiveSlots' : Covers(Span(i)', k)
                        \/ \E v \in Copied' : Covers(ClaimOf(v)', k)
                        \/ \E x \in released' : Covers(x, k)
      BY <1>4 DEF RingCovered, Covers
    <3>1. CASE \E i \in LiveSlots : Covers(Span(i), k)
      BY <1>11, <2>1, <3>1
    <3>2. CASE \E v \in Copied : Covers(ClaimOf(v), k)
      <4>1. PICK v \in Copied : Covers(ClaimOf(v), k)
        BY <3>2
      <4>2. CASE v = w
        BY <1>12, <2>1, <4>1, <4>2
      <4>3. CASE v # w
        BY <1>9, <1>11, <4>1, <4>3
      <4> QED
        BY <4>2, <4>3
    <3>3. CASE \E x \in released : Covers(x, k)
      BY <1>4, <3>3
    <3> QED
      BY <1>2, <3>1, <3>2, <3>3 DEF RingCovered
  <2>7. RingIntact'
    <3>1. \A i \in LiveSlots : slots'[i] = slots[i]
      BY <1>5 DEF LiveSlots
    <3>2. \A v \in Copied' : work'[v] = work[v]
      BY <1>7, <2>2 DEF Copied
    <3>3. \A i \in LiveSlots : Stored(slots[i].s, slots[i].start, slots[i].len)'
      BY <1>2, <1>4, <3>1 DEF RingIntact, Stored
    <3>4. Stored(e.s, e.start, e.len)'
      BY <1>2, <1>4, <1>6, <1>14 DEF RingIntact, Stored
    <3>5. Stored(slots[n].s, slots[n].start, slots[n].len)'
      BY <1>5, <3>4
    <3>6. \A v \in Copied' : Stored(work[v].s, work[v].start, work[v].size)'
      BY <1>2, <1>4, <2>2, <3>2 DEF RingIntact, Stored
    <3> QED
      BY <2>1, <3>3, <3>5, <3>6 DEF RingIntact
  <2> QED
    BY <2>4, <2>5, <2>6, <2>7 DEF Ring
<1> QED
  BY <1>13, <1>14

\* Workers keep the live spans of the arena apart and inside its window.
LEMMA WorkerRing ==
    ASSUME Inv, NEW w \in Workers, Worker(w)
    PROVE  Ring'
<1>1. Shape /\ SlotsOK /\ Ring /\ WorkersOK /\ WorkerOK(w) /\ work[w] \in Works
  BY DEF Inv, Shape, WorkersOK, WorkerOK
<1>2. DOMAIN work = Workers /\ DOMAIN wpc = Workers
  BY <1>1 DEF WorkersOK
<1>3. ASSUME UNCHANGED <<head, tail, released, arena, slots>>,
             \A v \in Workers \ {w} : wpc'[v] = wpc[v] /\ work'[v] = work[v],
             w \notin Copied, w \notin Copied'
      PROVE  Ring'
  <2>1. LiveSlots' = LiveSlots
    BY <1>3 DEF LiveSlots
  <2>2. Copied' = Copied
    <3>1. \A v \in Workers \ {w} : v \in Copied' <=> v \in Copied
      BY <1>3 DEF Copied
    <3>2. Copied \subseteq Workers /\ Copied' \subseteq Workers
      BY DEF Copied
    <3> QED
      BY <1>3, <3>1, <3>2
  <2>3. \A v \in Copied : work'[v] = work[v]
    BY <1>3 DEF Copied
  <2> QED
    BY <1>1, <1>3, <2>1, <2>2, <2>3, RingKept
<1>4. CASE TakeRoot(w) \/ WorkerExit(w)
  <2>1. /\ UNCHANGED <<head, tail, released, arena, slots>>
        /\ \A v \in Workers \ {w} : wpc'[v] = wpc[v] /\ work'[v] = work[v]
        /\ wpc[w] # "slot" /\ wpc'[w] # "slot"
    BY <1>2, <1>4 DEF TakeRoot, WorkerExit, ring
  <2> QED
    BY <1>3, <2>1 DEF Copied
<1>5. CASE Process(w)
  <2> DEFINE s == Head(work[w].queue)
             q == Tail(work[w].queue) \o Children(s)
  <2>1. PICK o \in Outcomes :
           /\ work' = [work EXCEPT ![w] =
                 [NoWork EXCEPT !.queue = q, !.s = s, !.kind = o.kind,
                                !.size = o.size]]
           /\ wpc' = [wpc EXCEPT ![w] = IF o.size = 0 THEN "slot" ELSE "copy"]
    BY <1>5 DEF Process
  <2> HIDE DEF q, s
  <2>2. work'[w].size = o.size
    BY <1>2, <2>1 DEF NoWork
  <2>3. wpc'[w] = IF o.size = 0 THEN "slot" ELSE "copy"
    BY <1>2, <2>1
  <2>4. w \notin Copied'
    BY <2>2, <2>3 DEF Copied
  <2>5. /\ UNCHANGED <<head, tail, released, arena, slots>>
        /\ \A v \in Workers \ {w} : wpc'[v] = wpc[v] /\ work'[v] = work[v]
        /\ wpc[w] # "slot"
    BY <1>2, <1>5, <2>1 DEF Process, ring
  <2> QED
    BY <1>3, <2>4, <2>5 DEF Copied
<1>6. CASE StageOutside(w)
  <2>1. /\ UNCHANGED <<head, tail, released, arena, slots>>
        /\ \A v \in Workers \ {w} : wpc'[v] = wpc[v] /\ work'[v] = work[v]
        /\ wpc[w] # "slot" /\ work'[w] = [work[w] EXCEPT !.size = 0]
    BY <1>2, <1>6 DEF StageOutside, ring
  <2>2. work'[w].size = 0
    BY <1>1, <2>1 DEF Works
  <2>3. ~(0 > 0)
    OBVIOUS
  <2>4. w \notin Copied /\ w \notin Copied'
    BY <2>1, <2>2, <2>3 DEF Copied
  <2> QED
    BY <1>3, <2>1, <2>4
<1>7. CASE Publish(w)
  <2> DEFINE n == work[w].slot
  <2>1. /\ UNCHANGED <<head, tail, released, arena, work>>
        /\ \A v \in Workers \ {w} : wpc'[v] = wpc[v]
        /\ wpc[w] = "publish" /\ wpc'[w] # "slot"
    BY <1>2, <1>7 DEF Publish, ring
  <2>2. slots[n].state = "empty"
    BY <1>1, <2>1 DEF SlotsOK, Publishing
  <2>3. /\ Relabelled
        /\ \A i \in DOMAIN slots :
              slots'[i].state = IF i \in {n} THEN "ready" ELSE slots[i].state
    BY <1>1, <1>7, PublishRelabels, Relabelling, ZenonT(40) DEF Shape
  <2> HIDE DEF n
  <2>4. LiveSlots' = LiveSlots /\ LiveSlots \subseteq DOMAIN slots
    BY <2>2, <2>3 DEF LiveSlots, Relabelled
  <2>5. Copied' = Copied
    BY <2>1 DEF Copied
  <2>6. \A i \in LiveSlots :
           /\ slots'[i].s = slots[i].s /\ slots'[i].start = slots[i].start
           /\ slots'[i].len = slots[i].len /\ slots'[i].pad = slots[i].pad
    BY <2>3, <2>4 DEF Relabelled
  <2> QED
    BY <1>1, <2>1, <2>4, <2>5, <2>6, RingKept
<1> QED
  BY <1>4, <1>5, <1>6, <1>7, CopyRing, ClaimSlotRing DEF Worker

\* So does the drain.
LEMMA DrainRing ==
    ASSUME Inv, DrainLoop
    PROVE  Ring'
<1>1. Shape /\ SlotsOK /\ Ring
  BY DEF Inv
<1>2. UNCHANGED <<wpc, work, head, arena>>
  BY DEF DrainLoop, ReceiveAck, Look, Drain, Drained, Mirror, SendIndexWork, Wake,
     DrainExit, DrainOnly, workers
<1>3. Copied' = Copied
  BY <1>2 DEF Copied
<1>4. ASSUME UNCHANGED <<tail, released>>,
             \A i \in DOMAIN slots :
                slots'[i].state = "acked" <=> slots[i].state = "acked"
      PROVE  Ring'
  <2>1. LiveSlots' = LiveSlots /\ LiveSlots \subseteq DOMAIN slots
    BY <1>4, DrainLoopRelabels DEF LiveSlots, Relabelled
  <2>2. \A i \in LiveSlots :
           /\ slots'[i].s = slots[i].s /\ slots'[i].start = slots[i].start
           /\ slots'[i].len = slots[i].len /\ slots'[i].pad = slots[i].pad
    BY <2>1, DrainLoopRelabels DEF Relabelled
  <2> QED
    BY <1>1, <1>2, <1>3, <1>4, <2>1, <2>2, RingKept
<1>5. CASE ReceiveAck
  <2> DEFINE C == batches[Head(indexDone)].claimed
  <2>1. /\ Ack(C) /\ C \subseteq DOMAIN slots
        /\ \A i \in C : slots[i].state = "claimed"
    BY <1>5, AckOfBatch
  <2> HIDE DEF C
  <2> QED
    BY <1>1, <1>2, <2>1, AckRing
<1>6. CASE Drain
  <2>1. PICK batch \in Seq(Nat) :
           /\ Drained(batch, drain.done) /\ ToSet(batch) \subseteq ReadySlots
    BY <1>1, <1>6, DrainClaims
  <2>2. UNCHANGED <<tail, released>>
    BY <2>1 DEF Drained
  <2>3. \A i \in DOMAIN slots :
           slots'[i].state = IF i \in ToSet(batch) THEN "claimed" ELSE slots[i].state
    BY <1>1, <2>1, DrainedRelabels, Relabelling DEF Shape
  <2>4. \A i \in ToSet(batch) : slots[i].state = "ready"
    BY <2>1 DEF ReadySlots
  <2> QED
    BY <1>4, <2>2, <2>3, <2>4
<1>7. CASE Mirror
  <2> DEFINE C == ToSet(drain.batch)
  <2>1. dpc = "mirror" /\ C \subseteq DOMAIN slots
    BY <1>1, <1>7, MirrorSteps
  <2>2. \A i \in C : slots[i].state = "claimed"
    BY <1>1, <2>1 DEF SlotsOK, Draining
  <2>3. CASE MirrorAcks
    <3>1. Ack(C)
      BY <2>3 DEF MirrorAcks
    <3> HIDE DEF C
    <3> QED
      BY <1>1, <1>2, <2>1, <2>2, <3>1, AckRing
  <2>4. CASE UNCHANGED <<slots, tail, released>>
    BY <1>4, <2>4
  <2> QED
    BY <1>1, <1>7, <2>3, <2>4, MirrorSteps DEF MirrorHandsOver
<1>8. CASE Look \/ SendIndexWork \/ Wake \/ DrainExit
  BY <1>4, <1>8 DEF Look, SendIndexWork, Wake, DrainExit
<1> QED
  BY <1>5, <1>6, <1>7, <1>8 DEF DrainLoop

----------------------------------------------------------------------------
(* The invariant holds. *)

\* A parser, and the cancellation, leave the staging buffer alone.
LEMMA StagingKept ==
    ASSUME Inv, UNCHANGED <<workers, ring, slots, drainer>>, cancelled => cancelled'
    PROVE  SlotsOK' /\ Ring' /\ OnePlace' /\ Reached' /\ Reported'
<1>1. SlotsOK /\ Ring /\ OnePlace /\ Reached /\ Reported
  BY DEF Inv
<1>2. /\ UNCHANGED <<todo, wpc, work, head, tail, released, arena, slots>>
      /\ UNCHANGED <<dpc, drain, committed, failed, results>>
  BY DEF workers, ring, drainer
<1>3. SlotsOK'
  BY <1>1, <1>2 DEF SlotsOK, Publishing, Draining, ReadySlots, WorkersDone
<1>4. Ring'
  <2>1. LiveSlots' = LiveSlots /\ Copied' = Copied
    BY <1>2 DEF LiveSlots, Copied
  <2> QED
    BY <1>1, <1>2, <2>1, RingKept
<1>5. OnePlace' /\ Reached'
  <2>1. \A w \in Workers : InHand(w)' = InHand(w)
    BY <1>2 DEF InHand
  <2>2. \A w \in Workers : wpc'[w] = "exit" => todo = {} \/ cancelled'
    BY <1>1, <1>2 DEF Reached
  <2> QED
    BY <1>1, <1>2, <2>1, <2>2, SessionsKept
<1>6. Reported'
  <2>1. \A i : InBatch(i)' = InBatch(i)
    BY <1>2 DEF InBatch
  <2>2. Mirrored' = Mirrored
    BY <1>2, <2>1 DEF Mirrored
  <2> QED
    BY <1>1, <1>2, <2>1, <2>2, ReportedKept
<1> QED
  BY <1>3, <1>4, <1>5, <1>6

\* The invariant is inductive.
LEMMA InvStep ==
    ASSUME Inv, [StagingNext]_staging
    PROVE  Inv'
<1>1. ASSUME NEW w \in Workers, Worker(w)
      PROVE  Inv'
  BY <1>1, WorkersShape, WorkerSlots, WorkerBatches, WorkerRing, WorkerSessions,
     WorkerReported DEF Inv
<1>2. CASE DrainLoop
  <2>1. BatchesOK' /\ Owed'
    BY <1>2, ReceiveAckBatches, DrainBatches, MirrorBatches, SendBatches,
       OtherDrainBatches DEF DrainLoop
  <2> QED
    BY <1>2, <2>1, DrainShape, DrainSlots, DrainRing, DrainSessions, DrainReported
    DEF Inv
<1>3. ASSUME NEW x \in reading, ItemRead(x)
      PROVE  Inv'
  <2>1. SlotsOK' /\ Ring' /\ OnePlace' /\ Reached' /\ Reported'
    BY <1>3, StagingKept DEF ItemRead
  <2> QED
    BY <1>3, <2>1, ItemReadShape, ItemReadBatches DEF Inv
<1>4. CASE Cancel \/ UNCHANGED staging
  <2>1. /\ UNCHANGED <<workers, ring, slots, ready, drainer, batches, reading, indexDone>>
        /\ cancelled' = TRUE \/ cancelled' = cancelled
    BY <1>4 DEF Cancel, staging
  <2>2. SlotsOK' /\ Ring' /\ OnePlace' /\ Reached' /\ Reported'
    BY <2>1, StagingKept
  <2>3. cancelled' \in BOOLEAN
    BY <2>1, Zenon DEF Inv, Shape
  <2>4. Shape'
    BY <2>1, <2>3 DEF Inv, Shape, WorkersOK, WorkerOK, InHand, workers, ring, drainer
  <2>5. UNCHANGED <<dpc, drain>> /\ Pending' = Pending
    BY <2>1 DEF Pending, drainer
  <2>6. \A i : InBatch(i) => i \in DOMAIN slots
    BY DEF Inv, SlotsOK, Draining, InBatch
  <2>7. dpc = "exit" => drain.pending = 0
    BY DEF Inv, Owed
  <2>8. BatchesOK'
    BY <2>1, <2>5, BatchesKept DEF Inv
  <2>9. Owed'
    BY <2>1, <2>5, <2>6, <2>7, OwedKept DEF Inv
  <2> QED
    BY <2>2, <2>4, <2>8, <2>9 DEF Inv
<1> QED
  BY <1>1, <1>2, <1>3, <1>4 DEF StagingNext

\* It holds before the first session is taken.
LEMMA InvInit ==
    ASSUME StagingInit
    PROVE  Inv
<1>1. /\ todo = Roots /\ wpc = [w \in Workers |-> "next"]
      /\ work = [w \in Workers |-> NoWork] /\ head = 0 /\ tail = 0 /\ released = {}
      /\ arena = [i \in 0..(ArenaSize - 1) |-> None] /\ slots = <<>>
      /\ ready = FALSE /\ dpc = "top" /\ committed = {} /\ failed = {}
      /\ results = <<>> /\ batches = <<>> /\ reading = {} /\ indexDone = <<>>
      /\ cancelled = FALSE
  BY DEF StagingInit
<1>2. drain = [done |-> FALSE, seen |-> {}, n |-> 0, batch |-> <<>>,
               metas |-> <<>>, pending |-> 0, ctxArm |-> TRUE]
  BY DEF StagingInit
<1>3. NoWork \in Works /\ NoWork.queue = <<>>
  <2>1. <<>> \in Seq(Sessions)
    OBVIOUS
  <2> QED
    BY <2>1 DEF NoWork, Works, Kinds
<1>4. WorkersOK
  <2>1. todo \subseteq Sessions
    BY <1>1 DEF Roots
  <2>2. \A w \in Workers : wpc[w] = "next" /\ work[w] = NoWork
    BY <1>1
  <2>3. \A w \in Workers : WorkerOK(w)
    BY <1>3, <2>2 DEF WorkerOK, WorkerPCs, InHand
  <2>4. wpc = [w \in Workers |-> wpc[w]] /\ work = [w \in Workers |-> work[w]]
    BY <1>1
  <2> QED
    BY <2>1, <2>3, <2>4 DEF WorkersOK
<1>5. DOMAIN slots = {} /\ DOMAIN batches = {} /\ ToSet(indexDone) = {}
      /\ ToSet(results) = {}
  BY <1>1 DEF ToSet
<1>6. Shape
  <2>1. drain \in DrainTypes
    <3>1. <<>> \in Seq(Nat)
      OBVIOUS
    <3> QED
      BY <1>2, <3>1 DEF DrainTypes
  <2>2. /\ slots \in Seq(Slots) /\ results \in Seq(Sessions)
        /\ batches \in Seq([claimed : SUBSET Nat, remaining : Int])
        /\ indexDone \in Seq(Nat)
    BY <1>1
  <2>3. arena \in [0..(ArenaSize - 1) -> Sessions \cup {None}]
    BY <1>1
  <2>4. ready \in BOOLEAN /\ cancelled \in BOOLEAN /\ dpc \in DrainPCs
    BY <1>1 DEF DrainPCs
  <2>5. committed \subseteq Sessions /\ failed \subseteq Sessions
        /\ reading \subseteq IndexWork
    BY <1>1
  <2> QED
    BY <1>4, <2>1, <2>2, <2>3, <2>4, <2>5 DEF Shape
<1>7. SlotsOK
  BY <1>1, <1>5 DEF SlotsOK, Publishing, Draining
<1>8. BatchesOK /\ Owed
  <2>1. drain.metas = <<>> /\ drain.pending = 0
    BY <1>2
  <2>2. Pending = {}
    BY <1>5 DEF Pending
  <2>3. Cardinality(Pending) = 0
    BY <2>2, FS_EmptySet
  <2>4. Injective(<<>>)
    BY DEF Injective
  <2>5. \A i : ~InBatch(i)
    BY <1>1 DEF InBatch
  <2>6. BatchesOK
    BY <1>1, <1>5, <2>1, <2>4 DEF BatchesOK
  <2>7. Owed
    BY <1>1, <1>5, <2>1, <2>3, <2>5 DEF Owed
  <2> QED
    BY <2>6, <2>7
<1>9. Ring
  <2>1. LiveSlots = {} /\ Copied = {}
    BY <1>1, <1>5 DEF LiveSlots, Copied
  <2>2. RingBounds
    BY <1>1, <2>1 DEF RingBounds
  <2>3. RingCovered
    BY <1>1 DEF RingCovered
  <2> QED
    BY <1>1, <2>1, <2>2, <2>3 DEF Ring, RingApart, RingIntact
<1>10. OnePlace /\ Reached
  <2>1. Staged = {} /\ \A w \in Workers : ~InHand(w) /\ wpc[w] # "exit"
    BY <1>1, <1>5 DEF Staged, InHand
  <2>2. Processed = {}
    BY <2>1 DEF Processed
  <2>3. \A w \in Workers : Waiting(w) = {} /\ Injective(work[w].queue)
    BY <1>1, <1>3 DEF Waiting, ToSet, Injective
  <2>4. OnePlace
    BY <1>5, <2>1, <2>2, <2>3 DEF OnePlace
  <2>5. Reached
    BY <1>1, <2>1, <2>2, <2>3 DEF Reached, Known, Roots
  <2> QED
    BY <2>4, <2>5
<1>11. Reported
  <2>1. Mirrored = {} /\ Injective(results)
    BY <1>1, <1>5 DEF Mirrored, Injective
  <2> QED
    BY <1>1, <1>5, <2>1 DEF Reported
<1> QED
  BY <1>6, <1>7, <1>8, <1>9, <1>10, <1>11 DEF Inv

\* What the invariant says of the end: every slot is acknowledged.
LEMMA AtTheEnd ==
    ASSUME Inv, StagingEnded
    PROVE  \A i \in DOMAIN slots : slots[i].state = "acked"
<1>1. dpc = "exit" /\ Shape /\ SlotsOK /\ BatchesOK /\ Owed
  BY DEF Inv, StagingEnded
<1>2. Pending = {}
  <2>1. Cardinality(Pending) = 0 /\ IsFiniteSet(Pending)
    BY <1>1, PendingSet DEF Owed
  <2> QED
    BY <2>1, FS_EmptySet
<1> SUFFICES ASSUME NEW i \in DOMAIN slots
             PROVE  slots[i].state = "acked"
  OBVIOUS
<1>3. slots[i].state \in {"claimed", "acked"}
  BY <1>1 DEF SlotsOK, Draining
<1>4. slots[i].state # "claimed"
  BY <1>1, <1>2 DEF Owed, InBatch
<1> QED
  BY <1>3, <1>4

\* It implies the type invariant,
LEMMA InvTypes ==
    ASSUME Inv
    PROVE  StagingTypeOK
<1>1. Shape /\ WorkersOK /\ BatchesOK /\ Owed /\ RingBounds
  BY DEF Inv, Shape, Ring
<1>2. todo \subseteq Sessions /\ wpc \in [Workers -> WorkerPCs]
      /\ work \in [Workers -> Works]
  BY <1>1 DEF WorkersOK, WorkerOK
<1>3. drain \in Drains
  <2>1. Cardinality(Pending) \in Nat
    BY <1>1, PendingSet, FS_CardinalityType
  <2>2. drain \in DrainTypes /\ drain.pending \in Nat
    BY <1>1, <2>1 DEF Shape, Owed
  <2> QED
    BY <2>2 DEF DrainTypes, Drains
<1>4. batches \in Seq(Batches)
  <2>1. ASSUME NEW b \in DOMAIN batches
        PROVE  batches[b] \in Batches
    <3>1. Outstanding(b) \subseteq DOMAIN slots
      BY <1>1 DEF BatchesOK
    <3>2. IsFiniteSet(DOMAIN slots)
      BY <1>1, SlotNumbers, FS_Interval
    <3>3. IsFiniteSet(Outstanding(b))
      BY <3>1, <3>2, FS_Subset
    <3>4. Cardinality(Outstanding(b)) \in Nat
      BY <3>3, FS_CardinalityType
    <3>5. batches[b].remaining \in Nat
      BY <1>1, <3>4 DEF BatchesOK
    <3> DEFINE B == [claimed : SUBSET Nat, remaining : Int]
    <3>6. batches \in Seq(B)
      BY <1>1 DEF Shape
    <3>7. batches[b] \in B
      <4> HIDE DEF B
      <4> QED
        BY <3>6
    <3> QED
      BY <3>5, <3>7 DEF Batches
  <2>2. batches \in Seq([claimed : SUBSET Nat, remaining : Int])
    BY <1>1 DEF Shape
  <2>3. batches \in [1..Len(batches) -> Batches] /\ Len(batches) \in Nat
    BY <2>1, <2>2
  <2> QED
    BY <2>3
<1>5. \A x \in released : tail < x.start /\ x.start < x.end /\ x.end <= head
  BY <1>1 DEF RingBounds, Within
<1>6. {ready, cancelled} \subseteq BOOLEAN
  BY <1>1, Zenon DEF Shape
<1> QED
  BY <1>1, <1>2, <1>3, <1>4, <1>5, <1>6 DEF StagingTypeOK, Shape, RingBounds

\* A slot that a parser may still read is live: its batch is not acknowledged.
LEMMA InvPayload ==
    ASSUME Inv
    PROVE  PayloadIntact
<1>1. Shape /\ BatchesOK /\ Owed /\ RingIntact
  BY DEF Inv, Ring
<1>2. ASSUME NEW i \in DOMAIN slots, NEW x \in reading, x.slot = i
      PROVE  slots[i].state = "claimed"
  <2>1. x.batch \in DOMAIN batches
    BY <1>1 DEF BatchesOK
  <2>2. i \in Outstanding(x.batch)
    BY <1>2 DEF Outstanding
  <2>3. Outstanding(x.batch) \subseteq DOMAIN slots
    BY <1>1, <2>1 DEF BatchesOK
  <2>4. IsFiniteSet(DOMAIN slots)
    BY <1>1, SlotNumbers, FS_Interval
  <2>5. IsFiniteSet(Outstanding(x.batch))
    BY <2>3, <2>4, FS_Subset
  <2>6. Cardinality(Outstanding(x.batch)) \in Nat /\ Cardinality(Outstanding(x.batch)) # 0
    BY <2>2, <2>5, FS_CardinalityType, FS_EmptySet
  <2>7. batches[x.batch].remaining > 0
    BY <1>1, <2>1, <2>6 DEF BatchesOK
  <2>8. x.batch \in Pending /\ i \in batches[x.batch].claimed
    BY <1>1, <2>1, <2>2, <2>7 DEF Pending, BatchesOK
  <2> QED
    BY <1>1, <2>1, <2>8 DEF Owed
<1> SUFFICES ASSUME NEW i \in DOMAIN slots, slots[i].len > 0,
                    slots[i].state # "acked" \/ \E x \in reading : x.slot = i
             PROVE  /\ (slots[i].start % ArenaSize) + slots[i].len <= ArenaSize
                    /\ \A k \in Bytes(slots[i].start, slots[i].len) :
                          arena[k] = slots[i].s
  BY DEF PayloadIntact
<1>3. i \in LiveSlots
  BY <1>2 DEF LiveSlots
<1>4. Stored(slots[i].s, slots[i].start, slots[i].len)
  BY <1>1, <1>3 DEF RingIntact
<1> QED
  BY <1>4 DEF Stored, Bytes

\* that the ring is returned,
LEMMA InvCapacity ==
    ASSUME Inv
    PROVE  CapacityReturns
<1> SUFFICES ASSUME StagingEnded
             PROVE  /\ head = tail /\ released = {}
                    /\ \A i \in DOMAIN slots : slots[i].state = "acked"
  BY DEF CapacityReturns
<1>1. RingBounds /\ RingCovered
  BY DEF Inv, Ring
<1>2. \A i \in DOMAIN slots : slots[i].state = "acked"
  BY AtTheEnd
<1>3. LiveSlots = {} /\ Copied = {}
  BY <1>2 DEF LiveSlots, Copied, StagingEnded, WorkersDone
<1>4. head \in Nat /\ tail \in 0..head
  BY <1>1 DEF RingBounds
<1>5. \A x \in released : x.start \in Int /\ x.end \in Int /\ tail < x.start
                          /\ x.start < x.end /\ x.end <= head
  BY <1>1 DEF RingBounds, Within, Spans
<1>6. head = tail
  <2> SUFFICES ASSUME tail < head
               PROVE  FALSE
    BY <1>4
  <2>1. tail \in tail..(head - 1)
    BY <1>4
  <2>2. PICK x \in released : Covers(x, tail)
    BY <1>1, <1>3, <2>1 DEF RingCovered
  <2> QED
    BY <1>4, <1>5, <2>2 DEF Covers
<1>7. released = {}
  BY <1>4, <1>5, <1>6
<1> QED
  BY <1>2, <1>6, <1>7

\* and that an ended harvest has reported every session.
LEMMA InvNothingLost ==
    ASSUME Inv
    PROVE  NothingLost
<1> SUFFICES ASSUME StagingEnded
             PROVE  /\ \A j, k \in DOMAIN results : results[j] = results[k] => j = k
                    /\ {slots[i].s : i \in DOMAIN slots} = ToSet(results)
                    /\ ~cancelled => ToSet(results) = Sessions
  BY DEF NothingLost
<1>1. Shape /\ WorkersOK /\ Reached /\ Reported
  BY DEF Inv, Shape
<1>2. dpc = "exit" /\ \A w \in Workers : wpc[w] = "exit"
  BY DEF StagingEnded, WorkersDone
<1>3. Mirrored = DOMAIN slots
  BY <1>2, AtTheEnd DEF Mirrored, InBatch
<1>4. ToSet(results) = Staged
  BY <1>1, <1>3 DEF Reported, Staged
<1>5. ASSUME ~cancelled
      PROVE  Staged = Sessions
  <2>1. todo = {}
    BY <1>1, <1>2, <1>5, BoundsAssumption DEF Reached
  <2>2. \A w \in Workers : Waiting(w) = {}
    BY <1>1, <1>2 DEF WorkersOK, WorkerOK, Waiting, ToSet
  <2>3. Processed = Staged
    BY <1>2 DEF Processed, InHand
  <2>4. Staged \subseteq Sessions
    BY <1>1, SlotNumbers DEF Staged, Slots
  <2>5. \A s \in Sessions : Known(s) => s \in Staged
    BY <1>1, <2>1, <2>2, <2>3 DEF Reached
  <2>6. Sessions \ Staged = {}
    <3> SUFFICES ASSUME Sessions \ Staged # {}
                 PROVE  FALSE
      OBVIOUS
    <3>1. PICK s \in Sessions \ Staged : Parent[s] \notin Sessions \ Staged
      BY AcyclicAssumption
    <3>2. Parent[s] = None \/ Parent[s] \in Staged
      BY <3>1, SessionsAssumption
    <3> QED
      BY <2>3, <2>5, <3>1, <3>2 DEF Known
  <2> QED
    BY <2>4, <2>6
<1> QED
  BY <1>1, <1>4, <1>5 DEF Reported, Injective, Staged

----------------------------------------------------------------------------
(* Theorems *)

\* The inductive invariant of the staging holds for every forest of sessions,
\* every number of workers, every arena and every outcome of a mirror batch.
THEOREM InvHolds == StagingSpec => []Inv
BY InvInit, InvStep, PTL DEF StagingSpec

\* The staging types, and with them the bounds of the counters: pending
\* acknowledgements and outstanding work items never become negative.
THEOREM StagingTypes == StagingSpec => []StagingTypeOK
BY InvHolds, InvTypes, PTL

\* The bytes a parser reads are those the worker copied, for every size of the
\* ring and every order of claims, drains, reads and acknowledgements.
THEOREM TranscriptsAreIntact == StagingSpec => []PayloadIntact
BY InvHolds, InvPayload, PTL

\* When the run ends the ring is empty and every batch was acknowledged.
THEOREM RingIsReturned == StagingSpec => []CapacityReturns
BY InvHolds, InvCapacity, PTL

\* When the run ends each staged session was reported once and, if the run was
\* not cancelled, every session of the forest was.
THEOREM EverythingIsReported == StagingSpec => []NothingLost
BY InvHolds, InvNothingLost, PTL

\* The drain loop reports a child after its parent, in a later batch.
THEOREM ParentsComeFirst == StagingSpec => ParentFirst
<1> DEFINE A == \A k \in DOMAIN results' \ DOMAIN results :
                   LET p == Parent[results'[k]]
                   IN  p # None => \E j \in DOMAIN results : results[j] = p
<1>1. ASSUME Inv, [StagingNext]_staging
      PROVE  A
  <2>1. Shape /\ SlotsOK /\ Reported
    BY <1>1 DEF Inv
  <2>2. CASE UNCHANGED results
    BY <2>2
  <2>3. CASE Mirror
    <3> DEFINE new == [k \in DOMAIN drain.batch |-> slots[drain.batch[k]].s]
               C == ToSet(drain.batch)
    <3>1. dpc = "mirror" /\ C \subseteq DOMAIN slots /\ Reports
      BY <2>1, <2>3, MirrorSteps
    <3>2. /\ new \in Seq(Sessions) /\ results' = results \o new
          /\ results \in Seq(Sessions) /\ ToSet(new) = {slots[i].s : i \in C}
      BY <2>1, <3>1, ReportsTyped
    <3> HIDE DEF new
    <3>3. ASSUME NEW k \in DOMAIN results' \ DOMAIN results
          PROVE  results'[k] \in ToSet(new)
      <4>1. k - Len(results) \in DOMAIN new /\ results'[k] = new[k - Len(results)]
        BY <3>2
      <4> QED
        BY <4>1 DEF ToSet
    <3> SUFFICES ASSUME NEW k \in DOMAIN results' \ DOMAIN results,
                        Parent[results'[k]] # None
                 PROVE  \E j \in DOMAIN results : results[j] = Parent[results'[k]]
      OBVIOUS
    <3>4. PICK i \in C : results'[k] = slots[i].s
      BY <3>2, <3>3
    <3>5. i \in DOMAIN slots /\ InBatch(i)
      BY <3>1 DEF InBatch
    <3>6. Parent[results'[k]] \in committed \cup failed
      BY <2>1, <3>4, <3>5 DEF Reported, Eligible
    <3> QED
      BY <2>1, <3>6 DEF Reported, ToSet
  <2> QED
    BY <1>1, <2>2, <2>3 DEF StagingNext, Worker, TakeRoot, WorkerExit, Process,
       CopyToArena, StageOutside, ClaimSlot, Publish, WorkerOnly, DrainLoop,
       ReceiveAck, Look, Drain, Drained, SendIndexWork, Wake, DrainExit, ItemRead,
       Cancel, staging, drainer
<1> HIDE DEF A
<1>2. StagingSpec => [][A]_staging
  BY <1>1, InvHolds, PTL DEF StagingSpec
<1> QED
  BY <1>2 DEF ParentFirst, A

----------------------------------------------------------------------------
(* What the stages behind the hand-over rely on. *)

\* A step of the first stages neither takes work back nor hands a slot over
\* twice: what of a batch is not read only becomes less, as the parsers read it.
LEMMA HandedOnce ==
    ASSUME Inv, [StagingNext]_staging
    PROVE  /\ DOMAIN slots \subseteq DOMAIN slots'
           /\ \A i \in DOMAIN slots : slots'[i].s = slots[i].s
           /\ DOMAIN batches \subseteq DOMAIN batches'
           /\ \A b \in DOMAIN batches : /\ batches'[b].claimed = batches[b].claimed
                                        /\ Outstanding(b)' \subseteq Outstanding(b)
<1>1. Shape /\ SlotsOK /\ BatchesOK
  BY DEF Inv
<1>2. ASSUME UNCHANGED <<batches, reading>>, drain'.metas = drain.metas
      PROVE  \A b \in DOMAIN batches : /\ batches'[b].claimed = batches[b].claimed
                                       /\ Outstanding(b)' \subseteq Outstanding(b)
  BY <1>2 DEF Outstanding
<1>3. ASSUME NEW w \in Workers, Worker(w)
      PROVE  /\ DOMAIN slots \subseteq DOMAIN slots'
             /\ \A i \in DOMAIN slots : slots'[i].s = slots[i].s
             /\ UNCHANGED <<batches, reading, drain>>
  <2>1. UNCHANGED <<batches, reading, drain>>
    BY <1>3 DEF Worker, TakeRoot, WorkerExit, Process, CopyToArena, StageOutside,
       ClaimSlot, Publish, WorkerOnly, drainer
  <2>2. CASE ClaimSlot(w)
    <3>1. \E e : slots' = Append(slots, e)
      BY <2>2 DEF ClaimSlot
    <3>2. slots \in Seq(Slots)
      BY <1>1 DEF Shape
    <3> QED
      BY <2>1, <3>1, <3>2
  <2>3. CASE Publish(w)
    BY <1>1, <2>1, <2>3, PublishRelabels, Relabelling DEF Shape, Relabelled
  <2>4. CASE UNCHANGED slots
    BY <2>1, <2>4
  <2> QED
    BY <1>3, <2>2, <2>3, <2>4 DEF Worker, TakeRoot, WorkerExit, Process,
       CopyToArena, StageOutside
<1>4. ASSUME DrainLoop
      PROVE  /\ DOMAIN batches \subseteq DOMAIN batches'
             /\ \A b \in DOMAIN batches : /\ batches'[b].claimed = batches[b].claimed
                                          /\ Outstanding(b)' \subseteq Outstanding(b)
  <2>1. drain \in DrainTypes
    BY <1>1, DrainFields
  <2>2. CASE ReceiveAck \/ Look \/ Wake \/ DrainExit
    <3>1. UNCHANGED <<batches, reading>>
      BY <2>2 DEF ReceiveAck, Look, Wake, DrainExit
    <3>2. drain'.metas = drain.metas
      BY <2>1, <2>2 DEF ReceiveAck, Look, Wake, DrainExit, DrainTypes
    <3> QED
      BY <1>2, <3>1, <3>2
  <2>3. CASE Drain
    <3>1. PICK batch : Drained(batch, drain.done)
      BY <1>1, <2>3, DrainClaims
    <3>2. UNCHANGED <<batches, reading>> /\ drain'.metas = drain.metas
      BY <2>1, <3>1 DEF Drained, DrainTypes
    <3> QED
      BY <1>2, <3>2
  <2>4. CASE Mirror
    <3>1. UNCHANGED reading /\ dpc = "mirror"
      BY <2>4 DEF Mirror
    <3>2. CASE MirrorAcks
      BY <1>2, <3>1, <3>2 DEF MirrorAcks
    <3>3. CASE \E metas \in Seq(Nat) : MirrorHandsOver(metas)
      <4>1. PICK y : batches' = Append(batches, y)
        BY <3>3 DEF MirrorHandsOver
      <4>2. /\ DOMAIN batches \subseteq DOMAIN batches'
            /\ Len(batches') \notin DOMAIN batches
            /\ \A b \in DOMAIN batches : batches'[b] = batches[b]
        BY <1>1, <4>1 DEF Shape
      <4> QED
        BY <3>1, <4>2 DEF Outstanding
    <3> QED
      BY <1>1, <2>4, <3>2, <3>3, MirrorSteps
  <2>5. CASE SendIndexWork
    <3> DEFINE x == [batch |-> Len(batches), slot |-> Head(drain.metas)]
               m == Tail(drain.metas)
    <3>1. /\ UNCHANGED batches /\ reading' = reading \cup {x} /\ dpc = "send"
          /\ drain' = [drain EXCEPT !.metas = m]
      BY <2>5 DEF SendIndexWork
    <3>2. drain'.metas = m /\ x.batch = Len(batches) /\ x.slot = Head(drain.metas)
      BY <2>1, <3>1 DEF DrainTypes
    <3>3. drain.metas \in Seq(Nat) /\ drain.metas # <<>> /\ Injective(drain.metas)
      BY <1>1, <3>1, DrainFields DEF BatchesOK
    <3>4. x.slot \in ToSet(drain.metas) /\ ToSet(m) \subseteq ToSet(drain.metas)
      BY <3>2, <3>3, TailOf
    <3> HIDE DEF x, m
    <3> QED
      BY <3>1, <3>2, <3>4 DEF Outstanding
  <2> QED
    BY <1>4, <2>2, <2>3, <2>4, <2>5 DEF DrainLoop
<1>5. ASSUME NEW x \in reading, ItemRead(x)
      PROVE  /\ UNCHANGED slots /\ DOMAIN batches \subseteq DOMAIN batches'
             /\ \A b \in DOMAIN batches : /\ batches'[b].claimed = batches[b].claimed
                                          /\ Outstanding(b)' \subseteq Outstanding(b)
  <2>1. /\ DOMAIN batches' = DOMAIN batches /\ Len(batches') = Len(batches)
        /\ \A b \in DOMAIN batches : batches'[b].claimed = batches[b].claimed
    BY <1>5, ItemReadShape
  <2>2. reading' \subseteq reading /\ UNCHANGED <<slots, drain>>
    BY <1>5 DEF ItemRead, drainer
  <2> QED
    BY <2>1, <2>2 DEF Outstanding
<1>6. CASE DrainLoop
  <2>1. DOMAIN slots' = DOMAIN slots /\ \A i \in DOMAIN slots : slots'[i].s = slots[i].s
    BY <1>6, DrainLoopRelabels DEF Relabelled
  <2> QED
    BY <1>4, <1>6, <2>1
<1>7. CASE Cancel \/ UNCHANGED staging
  BY <1>2, <1>7 DEF Cancel, staging, drainer
<1>8. CASE \E w \in Workers : Worker(w)
  BY <1>2, <1>3, <1>8
<1> QED
  BY <1>5, <1>6, <1>7, <1>8 DEF StagingNext

\* Reading an item takes it off what is outstanding of its batch.
LEMMA ReadOnce ==
    ASSUME Inv, NEW x \in reading
    PROVE  /\ x.batch \in DOMAIN batches /\ x \in IndexWork
           /\ x.slot \in Outstanding(x.batch)
           /\ x.slot \in batches[x.batch].claimed /\ x.slot \in DOMAIN slots
           /\ ItemRead(x) => x.slot \notin Outstanding(x.batch)'
<1>1. Shape /\ BatchesOK
  BY DEF Inv
<1>2. x.batch \in DOMAIN batches /\ x \in IndexWork
  BY <1>1 DEF BatchesOK, Shape
<1>3. x.slot \in Outstanding(x.batch)
  BY DEF Outstanding
<1>4. x.slot \in batches[x.batch].claimed /\ x.slot \in DOMAIN slots
  BY <1>1, <1>2, <1>3 DEF BatchesOK
<1>5. ASSUME ItemRead(x)
      PROVE  x.slot \notin Outstanding(x.batch)'
  <2>1. reading' = reading \ {x} /\ UNCHANGED drain /\ Len(batches') = Len(batches)
    BY <1>5, ItemReadShape DEF ItemRead, drainer
  <2>2. \A y \in reading : y.batch = x.batch /\ y.slot = x.slot => y = x
    <3>1. \A y \in reading : y \in IndexWork
      BY <1>1 DEF Shape
    <3>2. ASSUME NEW y \in IndexWork, y.batch = x.batch, y.slot = x.slot
          PROVE  y = x
      BY <1>2, <3>2 DEF IndexWork
    <3> QED
      BY <3>1, <3>2
  <2>3. x.batch = Len(batches) => x.slot \notin ToSet(drain.metas)
    BY <1>1 DEF BatchesOK
  <2> QED
    BY <2>1, <2>2, <2>3 DEF Outstanding
<1> QED
  BY <1>2, <1>3, <1>4, <1>5

=============================================================================
