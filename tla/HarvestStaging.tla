--------------------------- MODULE HarvestStaging ----------------------------
(***************************************************************************)
(* The first streamed stages of a harvest (internal/ingest, Pipeline.Run): *)
(* worker goroutines extract sessions and stage them in a buffer whose     *)
(* transcript bytes live in one ring; the drain loop records them, parents *)
(* first, hands them to the INDEX parsers, and gives their bytes back when *)
(* every parser of a batch has read them.                                  *)
(*                                                                         *)
(* What happens behind the parsers is HarvestPipeline's; here a session    *)
(* that was handed over is eventually read.  A cancelled run keeps         *)
(* draining what was staged.  Slots are sized for the run, so Add never    *)
(* finds them exhausted.                                                   *)
(***************************************************************************)
EXTENDS Integers, Sequences, FiniteSets, SequencesExt

CONSTANTS
    Sessions,    \* the sessions of the run
    Parent,      \* the operational scheduling edge of each, or None
    Workers,     \* EXTRACT goroutines
    Outcomes,    \* what processSession may return: a kind, and bytes
    ArenaSize,   \* bytes of the ring
    MaxDrain,    \* DefaultMaxDrainBatch
    IndexRoom,   \* sessions that indexCh and the parsers hold together
    MayCancel,   \* the run may be cancelled
    None

ASSUME SessionsAssumption ==
    /\ IsFiniteSet(Sessions) /\ None \notin Sessions
    /\ Parent \in [Sessions -> Sessions \cup {None}]
\* Cycles were removed from the scheduling edges before the run.
ASSUME AcyclicAssumption ==
    \A S \in SUBSET Sessions : S # {} => \E s \in S : Parent[s] \notin S
ASSUME BoundsAssumption ==
    /\ Workers # {}
    /\ {ArenaSize, MaxDrain, IndexRoom} \subseteq Nat \ {0}
    /\ MayCancel \in BOOLEAN

\* A result to index, one with nothing to index, one that failed.
Kinds == {"index", "plain", "error"}

\* The sizing rule copyToArena documents: every wrapping claim can be placed.
ASSUME OutcomesAssumption ==
    /\ Outcomes \subseteq [kind : Kinds, size : Nat]
    /\ \A o \in Outcomes : 2 * o.size <= ArenaSize

VARIABLES
    todo,               \* roots that no worker took yet
    wpc, work,          \* per worker
    head, tail,         \* ring coordinates, linear
    released,           \* spans released behind an older live one
    arena,              \* the ring: whose byte is stored where
    slots,              \* the staging slots, in the order they were claimed
    ready,              \* the wake of the drain loop
    dpc, drain,         \* the drain loop
    committed, failed,  \* sessions recorded, and sessions that were not
    results,            \* SessionResults, in order
    batches,            \* indexBatchCompletion of each streamed batch
    reading,            \* work handed to the parsers and not yet read
    indexDone,          \* batches that every parser has read
    cancelled

workers == <<todo, wpc, work>>
ring == <<head, tail, released, arena>>
drainer == <<dpc, drain, committed, failed, results>>
staging == <<workers, ring, slots, ready, drainer, batches, reading, indexDone,
             cancelled>>

Works == [queue : Seq(Sessions), s : Sessions \cup {None}, kind : Kinds,
          size : Nat, start : Nat, pad : Nat, slot : Nat]
Slots == [s : Sessions, kind : Kinds, start : Nat, len : Nat, pad : Nat,
          state : {"empty", "ready", "claimed", "acked"}]
Drains == [done : BOOLEAN, seen : SUBSET Nat, n : Nat, batch : Seq(Nat),
           metas : Seq(Nat), pending : Nat, ctxArm : BOOLEAN]
Batches == [claimed : SUBSET Nat, remaining : Nat]
IndexWork == [batch : Nat, slot : Nat]

WorkerPCs == {"next", "process", "copy", "slot", "publish", "exit"}
DrainPCs == {"top", "drain", "mirror", "send", "wait", "acks", "exit"}

Roots == {s \in Sessions : Parent[s] = None}
Children(s) == SetToSeq({c \in Sessions : Parent[c] = s})
WorkersDone == \A w \in Workers : wpc[w] = "exit"

NoWork == [queue |-> <<>>, s |-> None, kind |-> "plain", size |-> 0,
           start |-> 0, pad |-> 0, slot |-> 0]

StagingInit ==
    /\ todo = Roots
    /\ wpc = [w \in Workers |-> "next"]
    /\ work = [w \in Workers |-> NoWork]
    /\ head = 0 /\ tail = 0 /\ released = {}
    /\ arena = [i \in 0..(ArenaSize - 1) |-> None]
    /\ slots = <<>>
    /\ ready = FALSE
    /\ dpc = "top"
    /\ drain = [done |-> FALSE, seen |-> {}, n |-> 0, batch |-> <<>>,
                metas |-> <<>>, pending |-> 0, ctxArm |-> TRUE]
    /\ committed = {} /\ failed = {} /\ results = <<>> /\ batches = <<>>
    /\ reading = {} /\ indexDone = <<>>
    /\ cancelled = FALSE

----------------------------------------------------------------------------
(* EXTRACT workers. *)

WorkerOnly == UNCHANGED <<drainer, batches, reading, indexDone, cancelled>>

TakeRoot(w) ==
    /\ wpc[w] = "next"
    /\ ~cancelled
    /\ \E r \in todo : /\ todo' = todo \ {r}
                       /\ work' = [work EXCEPT ![w].queue = <<r>>]
    /\ wpc' = [wpc EXCEPT ![w] = "process"]
    /\ UNCHANGED <<ring, slots, ready>> /\ WorkerOnly

WorkerExit(w) ==
    /\ wpc[w] = "next"
    /\ todo = {} \/ cancelled
    /\ wpc' = [wpc EXCEPT ![w] = "exit"]
    /\ UNCHANGED <<todo, work, ring, slots, ready>> /\ WorkerOnly

\* processSession of the next session of the subtree.  Its children follow in
\* the same goroutine.
Process(w) ==
    /\ wpc[w] = "process"
    /\ \E o \in Outcomes :
          /\ LET s == Head(work[w].queue)
             IN  work' = [work EXCEPT ![w] =
                    [NoWork EXCEPT !.queue = Tail(work[w].queue) \o Children(s),
                                   !.s = s, !.kind = o.kind, !.size = o.size]]
          /\ wpc' = [wpc EXCEPT ![w] = IF o.size = 0 THEN "slot" ELSE "copy"]
    /\ UNCHANGED <<todo, ring, slots, ready>> /\ WorkerOnly

\* The rest of the slab, when n bytes would straddle its end.
Gap(n) == LET phys == head % ArenaSize
          IN  IF phys + n > ArenaSize THEN ArenaSize - phys ELSE 0

Fits(n) == ArenaSize - (head - tail) >= Gap(n) + n

\* The physical bytes of a copy.
Bytes(start, n) == {i % ArenaSize : i \in start..(start + n - 1)}

\* copyToArena: the claim, with its wrap gap, is one compare-and-swap, and the
\* bytes that follow it are the worker's own.
CopyToArena(w) ==
    /\ wpc[w] = "copy"
    /\ LET n == work[w].size
           start == head + Gap(n)
       IN  /\ Fits(n)
           /\ head' = start + n
           /\ arena' = [i \in DOMAIN arena |->
                          IF i \in Bytes(start, n) THEN work[w].s ELSE arena[i]]
           /\ work' = [work EXCEPT ![w].start = start, ![w].pad = Gap(n)]
    /\ wpc' = [wpc EXCEPT ![w] = "slot"]
    /\ UNCHANGED <<todo, tail, released, slots, ready>> /\ WorkerOnly

\* The wait for space ends with the context: the result keeps its own bytes.
StageOutside(w) ==
    /\ wpc[w] = "copy"
    /\ ~Fits(work[w].size)
    /\ cancelled
    /\ work' = [work EXCEPT ![w].size = 0]
    /\ wpc' = [wpc EXCEPT ![w] = "slot"]
    /\ UNCHANGED <<todo, ring, slots, ready>> /\ WorkerOnly

ClaimSlot(w) ==
    /\ wpc[w] = "slot"
    /\ slots' = Append(slots, [s |-> work[w].s, kind |-> work[w].kind,
                               start |-> work[w].start, len |-> work[w].size,
                               pad |-> work[w].pad, state |-> "empty"])
    /\ work' = [work EXCEPT ![w].slot = Len(slots) + 1]
    /\ wpc' = [wpc EXCEPT ![w] = "publish"]
    /\ UNCHANGED <<todo, ring, ready>> /\ WorkerOnly

Publish(w) ==
    /\ wpc[w] = "publish"
    /\ slots' = [slots EXCEPT ![work[w].slot].state = "ready"]
    /\ ready' = TRUE
    /\ wpc' = [wpc EXCEPT ![w] = IF work[w].queue = <<>> THEN "next"
                                 ELSE "process"]
    /\ UNCHANGED <<todo, work, ring>> /\ WorkerOnly

Worker(w) ==
    \/ TakeRoot(w) \/ WorkerExit(w) \/ Process(w) \/ CopyToArena(w)
    \/ StageOutside(w) \/ ClaimSlot(w) \/ Publish(w)

----------------------------------------------------------------------------
(* The drain loop. *)

DrainOnly == UNCHANGED <<workers, head, arena, cancelled>>

\* Mutant: a span is reusable as soon as its own batch is done.
ContiguousToLatest(spans) ==
    {e \in {x.end : x \in spans} \cup {tail} : \A x \in spans : x.end <= e}

\* releaseArena: the tail moves over the released spans as long as one starts
\* at it.  There is one such end.
Contiguous(spans) ==
    {e \in {x.end : x \in spans} \cup {tail} :
        /\ \A x \in spans : x.start # e
        /\ \A k \in tail..(e - 1) : \E x \in spans : x.start <= k /\ k < x.end}

\* Mutant: the wrap gap of a copy is not released with it.
SpanWithoutGap(i) ==
    [start |-> slots[i].start, end |-> slots[i].start + slots[i].len]

Span(i) == [start |-> slots[i].start - slots[i].pad,
            end |-> slots[i].start + slots[i].len]

\* AckBatch.
Ack(claimed) ==
    LET spans == released \cup {Span(i) : i \in {k \in claimed : slots[k].len > 0}}
    IN  /\ slots' = [i \in DOMAIN slots |->
                       IF i \in claimed THEN [slots[i] EXCEPT !.state = "acked"]
                       ELSE slots[i]]
        /\ tail' \in Contiguous(spans)
        /\ released' = {x \in spans : x.end > tail'}

\* A finished batch is received from indexDoneCh, at whichever of its four
\* receives the loop stands.
ReceiveAck ==
    /\ dpc \in {"top", "send", "wait", "acks"}
    /\ indexDone # <<>>
    /\ Ack(batches[Head(indexDone)].claimed)
    /\ indexDone' = Tail(indexDone)
    /\ drain' = [drain EXCEPT !.pending = @ - 1]
    /\ dpc' = IF dpc = "wait" THEN "top" ELSE dpc
    /\ UNCHANGED <<ready, committed, failed, results, batches, reading>>
    /\ DrainOnly

ReadySlots == {i \in DOMAIN slots : slots[i].state = "ready"}

\* Whether the producers are done is observed before the slots are read.
Look ==
    /\ dpc = "top"
    /\ indexDone = <<>>
    /\ drain' = [drain EXCEPT !.done = WorkersDone, !.seen = ReadySlots,
                              !.n = Len(slots)]
    /\ dpc' = "drain"
    /\ UNCHANGED <<tail, released, slots, ready, committed, failed, results,
                   batches, reading, indexDone>>
    /\ DrainOnly

\* Mutant: a child need not wait for its parent.
EligibleAtOnce(s) == s \in Sessions

Eligible(s) == Parent[s] = None \/ Parent[s] \in committed \cup failed

\* The first MaxDrain of the slots, by index.
FirstOf(T) == {i \in T : Cardinality({k \in T : k < i}) < MaxDrain}

\* The slots of T in the order of their index.
Ascending(T) ==
    {q \in SetToSeqs(T) : \A j, k \in DOMAIN q : j < k => q[j] < q[k]}

\* The loop goes on with a batch, ends, or waits.
Drained(batch, done) ==
    /\ drain' = [drain EXCEPT !.batch = batch, !.seen = {}]
    /\ slots' = [i \in DOMAIN slots |->
                   IF i \in ToSet(batch) THEN [slots[i] EXCEPT !.state = "claimed"]
                   ELSE slots[i]]
    /\ dpc' = IF batch # <<>> THEN "mirror" ELSE IF done THEN "acks" ELSE "wait"
    /\ UNCHANGED <<tail, released, ready, committed, failed, results, batches,
                   reading, indexDone>>
    /\ DrainOnly

\* Mutant: whether the producers are done is read after the slots.
DrainLooksLate ==
    /\ dpc = "drain"
    /\ LET seen == {i \in drain.seen : Eligible(slots[i].s)}
       IN  \E batch \in Ascending(FirstOf(seen)) : Drained(batch, WorkersDone)

\* Drain reads slot after slot while others are published: one that became
\* ready meanwhile is taken or missed.
Drain ==
    /\ dpc = "drain"
    /\ LET seen == {i \in drain.seen : Eligible(slots[i].s)}
           fresh == {i \in ReadySlots \ drain.seen :
                        i <= drain.n /\ Eligible(slots[i].s)}
       IN  \E T \in SUBSET fresh :
              \E batch \in Ascending(FirstOf(seen \cup T)) :
                  Drained(batch, drain.done)

\* newIndexBatchCompletion.
Completion(batch, metas) == [claimed |-> batch, remaining |-> Len(metas)]

\* mirrorDrainedBatch, then Commit and MarkFailed, before the ack: children
\* of the batch are eligible from now on.
Mirror ==
    /\ dpc = "mirror"
    /\ LET batch == ToSet(drain.batch)
           indexable == {i \in batch : slots[i].kind = "index"}
       IN  \E lost \in SUBSET indexable :
           LET bad == lost \cup {i \in batch : slots[i].kind = "error"}
           IN  /\ committed' = committed \cup {slots[i].s : i \in batch \ bad}
               /\ failed' = failed \cup {slots[i].s : i \in bad}
               /\ IF indexable = lost
                  THEN /\ Ack(batch)
                       /\ dpc' = "top"
                       /\ UNCHANGED <<drain, batches>>
                  ELSE \E metas \in Ascending(indexable \ lost) :
                       /\ batches' = Append(batches, Completion(batch, metas))
                       /\ drain' = [drain EXCEPT !.metas = metas,
                                                 !.pending = @ + 1]
                       /\ dpc' = "send"
                       /\ UNCHANGED <<slots, tail, released>>
    /\ results' = results \o [k \in DOMAIN drain.batch |-> slots[drain.batch[k]].s]
    /\ UNCHANGED <<ready, reading, indexDone>>
    /\ DrainOnly

SendIndexWork ==
    /\ dpc = "send"
    /\ Cardinality(reading) < IndexRoom
    /\ reading' = reading \cup {[batch |-> Len(batches), slot |-> Head(drain.metas)]}
    /\ drain' = [drain EXCEPT !.metas = Tail(@)]
    /\ dpc' = IF Len(drain.metas) = 1 THEN "top" ELSE "send"
    /\ UNCHANGED <<tail, released, slots, ready, committed, failed, results,
                   batches, indexDone>>
    /\ DrainOnly

\* The idle wait ends with a published slot, with the producers, or once with
\* the context.
Wake ==
    /\ dpc = "wait"
    /\ \/ ready /\ ready' = FALSE /\ UNCHANGED drain
       \/ WorkersDone /\ UNCHANGED <<ready, drain>>
       \/ /\ cancelled /\ drain.ctxArm
          /\ drain' = [drain EXCEPT !.ctxArm = FALSE]
          /\ UNCHANGED ready
    /\ dpc' = "top"
    /\ UNCHANGED <<tail, released, slots, committed, failed, results, batches,
                   reading, indexDone>>
    /\ DrainOnly

DrainExit ==
    /\ dpc = "acks"
    /\ drain.pending = 0
    /\ dpc' = "exit"
    /\ UNCHANGED <<drain, tail, released, slots, ready, committed, failed,
                   results, batches, reading, indexDone>>
    /\ DrainOnly

DrainLoop ==
    \/ ReceiveAck \/ Look \/ Drain \/ Mirror \/ SendIndexWork
    \/ Wake \/ DrainExit

\* A parser has read the transcript of a session it was handed;
\* completeWorkItem: the last one of a batch reports it.
ItemRead(x) ==
    /\ x \in reading
    /\ reading' = reading \ {x}
    /\ batches' = [batches EXCEPT ![x.batch].remaining = @ - 1]
    /\ indexDone' = IF batches[x.batch].remaining = 1
                    THEN Append(indexDone, x.batch) ELSE indexDone
    /\ UNCHANGED <<workers, ring, slots, ready, drainer, cancelled>>

Cancel ==
    /\ MayCancel /\ ~cancelled
    /\ cancelled' = TRUE
    /\ UNCHANGED <<workers, ring, slots, ready, drainer, batches, reading, indexDone>>

\* The workers and the drain loop have returned.
StagingEnded == WorkersDone /\ dpc = "exit"

StagingNext ==
    \/ \E w \in Workers : Worker(w)
    \/ DrainLoop
    \/ \E x \in reading : ItemRead(x)
    \/ Cancel
    \/ StagingEnded /\ UNCHANGED staging

\* Every goroutine that can go on does, and what was handed over is read.
StagingFairness ==
    /\ \A w \in Workers : WF_staging(Worker(w))
    /\ WF_staging(DrainLoop)
    /\ WF_staging(\E x \in reading : ItemRead(x))

StagingSpec == StagingInit /\ [][StagingNext]_staging /\ StagingFairness

----------------------------------------------------------------------------
(* Properties *)

StagingTypeOK ==
    /\ todo \subseteq Sessions
    /\ wpc \in [Workers -> WorkerPCs] /\ work \in [Workers -> Works]
    /\ head \in Nat /\ tail \in 0..head
    /\ \A x \in released : tail < x.start /\ x.start < x.end /\ x.end <= head
    /\ arena \in [0..(ArenaSize - 1) -> Sessions \cup {None}]
    /\ slots \in Seq(Slots)
    /\ {ready, cancelled} \subseteq BOOLEAN
    /\ dpc \in DrainPCs /\ drain \in Drains
    /\ committed \subseteq Sessions /\ failed \subseteq Sessions
    /\ results \in Seq(Sessions) /\ batches \in Seq(Batches)
    /\ reading \subseteq IndexWork /\ indexDone \in Seq(Nat)

\* A staged transcript stays what its worker copied until it is acknowledged
\* and every parser has read it, and it lies in one piece, however allocations
\* are reordered by eligibility, parsers and wraps.
PayloadIntact ==
    \A i \in DOMAIN slots :
        LET e == slots[i]
            read == \E x \in reading : x.slot = i
        IN  (e.state # "acked" \/ read) /\ e.len > 0 =>
              /\ (e.start % ArenaSize) + e.len <= ArenaSize
              /\ \A k \in Bytes(e.start, e.len) : arena[k] = e.s

\* The row of a child is written only after the drain loop wrote the row of
\* its parent, or gave it up, in an earlier batch.
ParentFirst ==
    [][\A k \in DOMAIN results' \ DOMAIN results :
          LET p == Parent[results'[k]]
          IN  p # None => \E j \in DOMAIN results : results[j] = p]_staging

\* At the end every session a worker staged is reported exactly once, also
\* behind a failed parent or a cancellation; without one that is every session.
NothingLost ==
    StagingEnded =>
        /\ \A j, k \in DOMAIN results : results[j] = results[k] => j = k
        /\ {slots[i].s : i \in DOMAIN slots} = ToSet(results)
        /\ ~cancelled => ToSet(results) = Sessions

\* At the end nothing is held: the ring is empty including every wrap gap,
\* and each batch was acknowledged.
CapacityReturns ==
    StagingEnded => /\ head = tail /\ released = {}
             /\ \A i \in DOMAIN slots : slots[i].state = "acked"

==============================================================================
