--------------------------- MODULE HarvestPipeline ---------------------------
(***************************************************************************)
(* HarvestStaging with what stands behind the hand-over (indexLoop and     *)
(* runStreamedDownstream): parsers ask a byte gate for admission, one      *)
(* goroutine groups the parsed results into write batches, and feeds the   *)
(* metrics stage.  That stage computes as sessions come, or, with a store  *)
(* and an engine that can refresh stored metrics, only drains its channel: *)
(* then refreshStoredMetrics pages through the stored sessions after every *)
(* goroutine returned.                                                     *)
(*                                                                         *)
(* Everyone can wait for everyone: a worker for ring space that an ack of  *)
(* the drain loop frees, the drain loop for a place in the parsers' queue, *)
(* a parser for bytes that a write batch holds, a write batch for another  *)
(* parsed result.                                                          *)
(***************************************************************************)
EXTENDS HarvestStaging

CONSTANTS
    Parsers,        \* INDEX goroutines
    Weights,        \* bytes of a parsed candidate; 0 is none
    IndexCap,       \* places in indexCh
    ParsedCap,      \* places in parsedCh
    GateCap,        \* StagedMemoryBytes
    BatchSessions, BatchBytes,   \* WriteConfig
    DownCap,        \* places in downstreamCh
    Wirings,        \* what the metrics goroutine does: "stream", "drain"
    Outside         \* sessions that started before the --since window but were
                    \* taken for the time of their file

ASSUME IndexAssumption ==
    /\ {IndexCap, ParsedCap, GateCap, BatchSessions, BatchBytes, DownCap}
          \subseteq Nat \ {0}
    /\ Weights \subseteq Nat
    /\ IndexRoom = IndexCap + Cardinality(Parsers)
    /\ Wirings \subseteq {"stream", "drain"}
    /\ Outside \subseteq Sessions

VARIABLES
    ppc, item,          \* per parser
    parsedCh,
    used, blocked,      \* the byte gate and its wake of the write loop
    fpc, flush,         \* the write loop of indexLoop
    out, lane,          \* downstreamCh and the metrics goroutine
    indexed, computed,  \* sessions written, and sessions whose metrics are
    reported            \* sessions with a metrics diagnostic; None: for a page

writing == <<fpc, flush, indexed>>
metrics == <<out, lane, computed, reported>>
index == <<ppc, item, parsedCh, used, blocked, writing, metrics>>
vars == <<staging, index>>

\* What a parser holds, with the gate bytes it owns.
Items == [work : IndexWork \cup {None}, bytes : Nat]
\* A parse result, with the gate bytes it owns.
Parsed == [s : Sessions, bytes : Nat]
\* A nil pointer is no work item and no result.
ASSUME NoneAssumption == None \notin IndexWork \cup Parsed

ParserPCs == {"take", "parse", "admit", "waiting", "complete", "send", "exit"}
WriterPCs == {"wait", "admit", "flush", "emit", "exit"}

Init ==
    /\ StagingInit
    /\ ppc = [p \in Parsers |-> "take"]
    /\ item = [p \in Parsers |-> [work |-> None, bytes |-> 0]]
    /\ parsedCh = <<>>
    /\ used = 0 /\ blocked = FALSE
    /\ fpc = "wait"
    /\ flush = [pending |-> <<>>, hand |-> None, emits |-> <<>>]
    /\ out = <<>> /\ lane \in Wirings
    /\ indexed = {} /\ computed = {} /\ reported = {}

\* indexCh: what no parser took yet.
Queued == reading \ {item[p].work : p \in Parsers}
FirstQueued(x) ==
    /\ x \in Queued
    /\ \A y \in Queued :
          x.batch < y.batch \/ (x.batch = y.batch /\ x.slot <= y.slot)

\* A step of the first stages; indexCh has its own room.
StagingStep(A) ==
    /\ A
    /\ ~(reading' \subseteq reading) => Cardinality(Queued) < IndexCap
    /\ UNCHANGED index

----------------------------------------------------------------------------
(* INDEX parsers and the byte gate. *)

ParserOnly == UNCHANGED <<writing, metrics>>

TakeWork(p) ==
    /\ ppc[p] = "take"
    /\ \E x \in Queued :
          /\ FirstQueued(x)
          /\ item' = [item EXCEPT ![p] = [work |-> x, bytes |-> 0]]
    /\ ppc' = [ppc EXCEPT ![p] = "parse"]
    /\ UNCHANGED <<staging, parsedCh, used, blocked>> /\ ParserOnly

ParserExit(p) ==
    /\ ppc[p] = "take"
    /\ Queued = {} /\ dpc = "exit"
    /\ ppc' = [ppc EXCEPT ![p] = "exit"]
    /\ UNCHANGED <<staging, item, parsedCh, used, blocked>> /\ ParserOnly

\* parseIndexMeta reads the transcript; a native candidate asks for bytes.
Parse(p) ==
    /\ ppc[p] = "parse"
    /\ \E n \in Weights :
          /\ item' = [item EXCEPT ![p].bytes = n]
          /\ ppc' = [ppc EXCEPT ![p] = IF n = 0 THEN "complete" ELSE "admit"]
    /\ UNCHANGED <<staging, parsedCh, used, blocked>>
    /\ ParserOnly

\* Mutant: an oversized candidate is admitted beside others.
MustWaitUnlessOversized(n) == used # 0 /\ n > GateCap - used /\ n <= GateCap

\* An oversized candidate is admitted only alone.
MustWait(n) == used # 0 /\ n > GateCap - used

Acquire(p) ==
    /\ ppc[p] = "admit"
    /\ ~cancelled
    /\ ~MustWait(item[p].bytes)
    /\ used' = used + item[p].bytes
    /\ ppc' = [ppc EXCEPT ![p] = "complete"]
    /\ UNCHANGED <<staging, item, parsedCh, blocked>>
    /\ ParserOnly

\* Mutant: a waiting parser does not wake the write loop.
AcquireWaitsSilently(p) ==
    /\ ppc[p] = "admit"
    /\ ~cancelled
    /\ MustWait(item[p].bytes)
    /\ ppc' = [ppc EXCEPT ![p] = "waiting"]
    /\ UNCHANGED <<staging, item, parsedCh, used, blocked>>
    /\ ParserOnly

AcquireWaits(p) ==
    /\ ppc[p] = "admit"
    /\ ~cancelled
    /\ MustWait(item[p].bytes)
    /\ blocked' = TRUE
    /\ ppc' = [ppc EXCEPT ![p] = "waiting"]
    /\ UNCHANGED <<staging, item, parsedCh, used>>
    /\ ParserOnly

\* The context ended: the candidate is refused and owns no bytes.
AcquireRefused(p) ==
    /\ ppc[p] \in {"admit", "waiting"}
    /\ cancelled
    /\ item' = [item EXCEPT ![p].bytes = 0]
    /\ ppc' = [ppc EXCEPT ![p] = "complete"]
    /\ UNCHANGED <<staging, parsedCh, used, blocked>>
    /\ ParserOnly

\* Mutant: the result of a session that owns no bytes is not counted.
CompleteOnlyAdmitted(p) ==
    /\ ppc[p] = "complete"
    /\ \/ item[p].bytes > 0 /\ ItemRead(item[p].work)
       \/ /\ item[p].bytes = 0
          /\ reading' = reading \ {item[p].work}
          /\ UNCHANGED <<workers, ring, slots, ready, drainer, batches, indexDone,
                         cancelled>>
    /\ ppc' = [ppc EXCEPT ![p] = "send"]
    /\ UNCHANGED <<item, parsedCh, used, blocked>> /\ ParserOnly

\* The parser is done with the transcript, before its result is taken.
CompleteWorkItem(p) ==
    /\ ppc[p] = "complete"
    /\ ItemRead(item[p].work)
    /\ ppc' = [ppc EXCEPT ![p] = "send"]
    /\ UNCHANGED <<item, parsedCh, used, blocked>> /\ ParserOnly

SendParsed(p) ==
    /\ ppc[p] = "send"
    /\ Len(parsedCh) < ParsedCap
    /\ parsedCh' = Append(parsedCh, [s |-> slots[item[p].work.slot].s,
                                     bytes |-> item[p].bytes])
    /\ item' = [item EXCEPT ![p] = [work |-> None, bytes |-> 0]]
    /\ ppc' = [ppc EXCEPT ![p] = "take"]
    /\ UNCHANGED <<staging, used, blocked>>
    /\ ParserOnly

Parser(p) ==
    \/ TakeWork(p) \/ ParserExit(p) \/ Parse(p) \/ Acquire(p) \/ AcquireWaits(p)
    \/ AcquireRefused(p) \/ CompleteWorkItem(p) \/ SendParsed(p)

----------------------------------------------------------------------------
(* The write loop and the metrics stage. *)

WriterOnly == UNCHANGED <<staging, item, lane, computed, reported>>

ParsersDone == \A p \in Parsers : ppc[p] = "exit"
PendingBytes == FoldSeq(LAMBDA r, n : r.bytes + n, 0, flush.pending)

\* ExceedsWriteBudget.
Exceeds(n) ==
    \/ Len(flush.pending) >= BatchSessions
    \/ flush.pending # <<>> /\ PendingBytes + n > BatchBytes

\* drainIndexWithTimer.  Input is preferred only when it is there before the
\* wait, so in the wait every choice is possible.
ReceiveParsed ==
    /\ fpc = "wait"
    /\ parsedCh # <<>>
    /\ flush' = [flush EXCEPT !.hand = Head(parsedCh)]
    /\ parsedCh' = Tail(parsedCh)
    /\ fpc' = "admit"
    /\ UNCHANGED <<ppc, used, blocked, indexed, out>> /\ WriterOnly

\* The interval passes, or a parser waits for bytes, with a batch pending.
FlushOnTimer ==
    /\ fpc = "wait"
    /\ flush.pending # <<>>
    /\ fpc' = "flush"
    /\ UNCHANGED <<ppc, parsedCh, used, blocked, flush, indexed, out>> /\ WriterOnly

FlushOnBlocked ==
    /\ fpc = "wait"
    /\ flush.pending # <<>>
    /\ blocked
    /\ blocked' = FALSE
    /\ fpc' = "flush"
    /\ UNCHANGED <<ppc, parsedCh, used, flush, indexed, out>> /\ WriterOnly

InputClosed ==
    /\ fpc = "wait"
    /\ parsedCh = <<>>
    /\ ParsersDone
    /\ fpc' = IF flush.pending = <<>> THEN "exit" ELSE "flush"
    /\ UNCHANGED <<ppc, parsedCh, used, blocked, flush, indexed, out>> /\ WriterOnly

\* admit: a result that does not fit waits for the flush of the batch.
AdmitParsed ==
    /\ fpc = "admit"
    /\ IF Exceeds(flush.hand.bytes)
       THEN fpc' = "flush" /\ UNCHANGED flush
       ELSE LET count == Len(flush.pending) + 1
                bytes == PendingBytes + flush.hand.bytes
            IN  /\ flush' = [flush EXCEPT !.pending = Append(@, flush.hand),
                                          !.hand = None]
                /\ fpc' = IF count >= BatchSessions \/ bytes >= BatchBytes
                          THEN "flush" ELSE "wait"
    /\ UNCHANGED <<ppc, parsedCh, used, blocked, indexed, out>> /\ WriterOnly

\* A result that did not fit is admitted after the flush.
AfterFlush == IF flush.hand # None THEN "admit" ELSE "wait"

\* Mutant: bytes are released without the once.
BytesFreedTwice(n, ok) == 2 * n

\* record: releaseStaged whatever became of the write.
BytesFreed(n, ok) == n

\* One result of the batch is written or refused, and gives its bytes back;
\* release wakes every waiting parser.
WriteParsed ==
    /\ fpc = "flush"
    /\ \E ok \in BOOLEAN :
          LET r == Head(flush.pending)
              emits == IF ok THEN Append(flush.emits, r.s) ELSE flush.emits
          IN  /\ flush' = [flush EXCEPT !.pending = Tail(@), !.emits = emits]
              /\ fpc' = IF Len(flush.pending) > 1 THEN "flush"
                        ELSE IF emits # <<>> THEN "emit" ELSE AfterFlush
              /\ indexed' = IF ok THEN indexed \cup {r.s} ELSE indexed
              /\ used' = used - BytesFreed(r.bytes, ok)
              /\ ppc' = [p \in Parsers |->
                           IF ppc[p] = "waiting" /\ r.bytes > 0 THEN "admit"
                           ELSE ppc[p]]
    /\ UNCHANGED <<parsedCh, blocked, out>> /\ WriterOnly

\* An indexed session goes to the metrics stage; after a cancellation it may
\* be dropped.
Emit ==
    /\ fpc = "emit"
    /\ \/ Len(out) < DownCap /\ out' = Append(out, Head(flush.emits))
       \/ cancelled /\ UNCHANGED out
    /\ flush' = [flush EXCEPT !.emits = Tail(@)]
    /\ fpc' = IF Len(flush.emits) > 1 THEN "emit" ELSE AfterFlush
    /\ UNCHANGED <<ppc, parsedCh, used, blocked, indexed>> /\ WriterOnly

WriteLoop ==
    \/ ReceiveParsed \/ FlushOnBlocked \/ InputClosed
    \/ AdmitParsed \/ WriteParsed \/ Emit

LaneOnly == UNCHANGED <<staging, ppc, item, parsedCh, used, blocked, writing>>

\* runStreamedDownstream takes what is there; a cancelled batch ends it.  A
\* session whose metrics fail is reported, by itself or with its batch.
Compute ==
    /\ lane = "stream"
    /\ out # <<>>
    /\ out' = <<>>
    /\ \/ cancelled /\ lane' = "off" /\ UNCHANGED <<computed, reported>>
       \/ /\ ~cancelled
          /\ \E ok \in SUBSET ToSet(out) :
                /\ computed' = computed \cup ok
                /\ reported' = reported \cup (ToSet(out) \ ok)
          /\ UNCHANGED lane
    /\ LaneOnly

\* hasStoredMetricRefresh: the channel is only emptied, cancelled or not.
DrainIndexed ==
    /\ lane = "drain"
    /\ out # <<>>
    /\ out' = Tail(out)
    /\ UNCHANGED <<lane, computed, reported>> /\ LaneOnly

\* Its channel is closed and empty.
LaneExit ==
    /\ lane \in {"stream", "drain"}
    /\ out = <<>> /\ fpc = "exit"
    /\ lane' = IF lane = "drain" THEN "refresh" ELSE "off"
    /\ UNCHANGED <<out, computed, reported>> /\ LaneOnly

\* The sessions of this run that refreshStoredMetrics has still to come to.  It
\* passes over those outside the window without a word.
Due == indexed \ (computed \cup reported \cup Outside)

\* One session of a page: its metrics become current, or a refusal or a
\* failure is reported for it.
RefreshSession ==
    /\ lane = "refresh" /\ StagingEnded
    /\ ~cancelled
    /\ \E s \in Due :
          \/ computed' = computed \cup {s} /\ UNCHANGED reported
          \/ reported' = reported \cup {s} /\ UNCHANGED computed
    /\ UNCHANGED <<out, lane>> /\ LaneOnly

\* Mutant: a page that cannot be listed ends the refresh like the last page.
RefreshEndsSilently ==
    /\ lane = "refresh" /\ StagingEnded
    /\ lane' = "off"
    /\ UNCHANGED <<out, computed, reported>> /\ LaneOnly

\* No page is left, the context ended, or a page cannot be listed.
RefreshEnds ==
    /\ lane = "refresh" /\ StagingEnded
    /\ \/ (Due = {} \/ cancelled) /\ UNCHANGED reported
       \/ ~cancelled /\ reported' = reported \cup {None}
    /\ lane' = "off"
    /\ UNCHANGED <<out, computed>> /\ LaneOnly

Downstream == Compute \/ DrainIndexed \/ LaneExit \/ RefreshSession \/ RefreshEnds

\* Every goroutine has returned (the controller's WaitGroup), and the stored
\* metrics were refreshed where that is how they are computed.
Ended == StagingEnded /\ fpc = "exit" /\ lane = "off"

Terminated == Ended /\ UNCHANGED vars

Next ==
    \/ \E w \in Workers : StagingStep(Worker(w))
    \/ StagingStep(DrainLoop)
    \/ \E p \in Parsers : Parser(p)
    \/ WriteLoop \/ FlushOnTimer
    \/ Downstream
    \/ StagingStep(Cancel)
    \/ Terminated

\* Every goroutine that can go on does.  The flush timer is not counted on.
Fairness ==
    /\ \A w \in Workers : WF_vars(StagingStep(Worker(w)))
    /\ WF_vars(StagingStep(DrainLoop))
    /\ \A p \in Parsers : WF_vars(Parser(p))
    /\ WF_vars(WriteLoop) /\ WF_vars(Downstream)

Spec == Init /\ [][Next]_vars /\ Fairness

----------------------------------------------------------------------------
(* Properties *)

TypeOK ==
    /\ StagingTypeOK
    /\ ppc \in [Parsers -> ParserPCs] /\ item \in [Parsers -> Items]
    /\ parsedCh \in Seq(Parsed)
    /\ used \in Nat /\ blocked \in BOOLEAN
    /\ fpc \in WriterPCs
    /\ flush \in [pending : Seq(Parsed), hand : Parsed \cup {None},
                  emits : Seq(Sessions)]
    /\ out \in Seq(Sessions)
    /\ lane \in {"stream", "drain", "refresh", "off"}
    /\ indexed \subseteq Sessions /\ computed \subseteq Sessions
    /\ reported \subseteq Sessions \cup {None}

\* Who owns gate bytes.
GateOwners ==
    {p \in Parsers : ppc[p] \in {"complete", "send"} /\ item[p].bytes > 0}
Owned(seq) == {k \in DOMAIN seq : seq[k].bytes > 0}

\* The candidates in memory stay within the cap; one that is larger than the
\* cap is alone.
GateBounded ==
    used > GateCap =>
        Cardinality(GateOwners) + Cardinality(Owned(parsedCh))
          + Cardinality(Owned(flush.pending))
          + (IF flush.hand # None /\ flush.hand.bytes > 0 THEN 1 ELSE 0) = 1

\* In a run that is not cancelled no indexed session is left without metrics in
\* silence: its metrics are current, a diagnostic names it or the page, or it is
\* one that refreshStoredMetrics passes over because it started before the
\* window.
MetricsAccounted ==
    Ended /\ ~cancelled =>
        \/ None \in reported
        \/ indexed \subseteq computed \cup reported \cup Outside

\* "`harvest --since` must not skip stored maintenance without saying so."
SinceIsNotSilent ==
    Ended /\ ~cancelled =>
        \/ None \in reported
        \/ indexed \subseteq computed \cup reported

\* The run ends, cancelled or not, without help of the flush timer: no worker,
\* drain loop, parser or write batch waits in a circle.
RunEnds == <>[]Ended

\* The parsers, the gate and the write loop keep the promise HarvestStaging
\* makes of them: what is handed over is eventually read, and nothing else of
\* the staging changes.
ImplementsStaging == StagingSpec
==============================================================================
