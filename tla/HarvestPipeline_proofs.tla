----------------------- MODULE HarvestPipeline_proofs ------------------------
(***************************************************************************)
(* Safety of the whole pipeline: its steps are steps of the first stages   *)
(* or leave them alone, so what is proved of those holds of it; and the    *)
(* byte gate counts what is held, whatever the orders of admission, write  *)
(* and refusal.                                                            *)
(***************************************************************************)
EXTENDS HarvestPipeline, HarvestStaging_proofs

----------------------------------------------------------------------------
(* The first stages. *)

\* Every pipeline step is a staging step or leaves the staging alone.
LEMMA StagingSteps ==
    ASSUME [Next]_vars
    PROVE  [StagingNext]_staging
<1>1. ASSUME NEW p \in Parsers, Parser(p)
      PROVE  [StagingNext]_staging
  <2>1. CASE CompleteWorkItem(p)
    <3>1. ItemRead(item[p].work)
      BY <2>1 DEF CompleteWorkItem
    <3>2. item[p].work \in reading
      BY <3>1 DEF ItemRead
    <3> QED
      BY <3>1, <3>2 DEF StagingNext
  <2>2. CASE UNCHANGED staging
    BY <2>2
  <2> QED
    BY <1>1, <2>1, <2>2 DEF Parser, TakeWork, ParserExit, Parse, Acquire,
       AcquireWaits, AcquireRefused, SendParsed
<1>2. CASE WriteLoop \/ FlushOnTimer
  BY <1>2 DEF WriteLoop, FlushOnTimer, ReceiveParsed, FlushOnBlocked, InputClosed,
     AdmitParsed, WriteParsed, Emit, WriterOnly
<1>3. CASE Downstream
  BY <1>3 DEF Downstream, Compute, DrainIndexed, LaneExit, RefreshSession, RefreshEnds,
     LaneOnly
<1>4. CASE \E w \in Workers : StagingStep(Worker(w))
  BY <1>4 DEF StagingStep, StagingNext
<1>5. CASE StagingStep(DrainLoop) \/ StagingStep(Cancel)
  BY <1>5 DEF StagingStep, StagingNext
<1>6. CASE Terminated \/ UNCHANGED vars
  BY <1>6 DEF Terminated, vars
<1> QED
  BY <1>1, <1>2, <1>3, <1>4, <1>5, <1>6 DEF Next

\* The pipeline refines the first stages, as far as safety goes: the parsers,
\* the gate and the write loop change nothing of them but what they read.
THEOREM PipelineRefinesStaging == Spec => StagingInit /\ [][StagingNext]_staging
BY StagingSteps, PTL DEF Spec, Init

\* Hence the inductive invariant of the staging holds in the pipeline, where
\* the index side decides when a handed batch is read and acknowledged.
THEOREM PipelineInv == Spec => []Inv
BY InvInit, InvStep, StagingSteps, PTL DEF Spec, Init

\* With the parsers and the write loop behind it, a transcript is intact as long
\* as it may be read, nothing staged is lost, and the ring is returned.
THEOREM PipelineKeepsTranscripts ==
    Spec => [](PayloadIntact /\ NothingLost /\ CapacityReturns)
BY PipelineInv, InvPayload, InvNothingLost, InvCapacity, PTL

----------------------------------------------------------------------------
(***************************************************************************)
(* The parsers.  A busy parser holds a work item: until it completed it,   *)
(* the item is one of those being read; from then on its slot is past,     *)
(* and no slot is handed out twice.                                        *)
(***************************************************************************)
Reads(p) == ppc[p] \in {"parse", "admit", "waiting", "complete"}
Busy(p) == Reads(p) \/ ppc[p] = "send"
SlotOf(p) == item[p].work.slot

Past(i) ==
    \E b \in DOMAIN batches : i \in batches[b].claimed /\ i \notin Outstanding(b)

IndexShape ==
    /\ ppc \in [Parsers -> ParserPCs] /\ item \in [Parsers -> Items]
    /\ parsedCh \in Seq(Parsed) /\ blocked \in BOOLEAN
    /\ \A p \in Parsers : Busy(p) =>
          item[p].work \in IndexWork /\ SlotOf(p) \in DOMAIN slots

Handing ==
    /\ \A p \in Parsers : Reads(p) => item[p].work \in reading
    /\ \A p \in Parsers : ppc[p] = "send" => Past(SlotOf(p))
    /\ \A p, q \in Parsers : Busy(p) /\ Busy(q) /\ p # q => SlotOf(p) # SlotOf(q)

(***************************************************************************)
(* The write loop.                                                         *)
(***************************************************************************)
FlushTypes ==
    [pending : Seq(Parsed), hand : Parsed \cup {None}, emits : Seq(Sessions)]

Writer ==
    /\ fpc \in WriterPCs /\ flush \in FlushTypes
    /\ fpc = "flush" => flush.pending # <<>>
    /\ fpc = "emit" => flush.emits # <<>>
    /\ fpc \in {"wait", "admit", "exit"} => flush.emits = <<>>
    /\ fpc = "admit" => flush.hand # None
    /\ fpc = "wait" => flush.hand = None

Lanes == {"stream", "drain", "refresh", "off"}

\* While sessions are computed as they come, what is indexed is accounted for or
\* on its way; once the stage is over, what is not in the window is all that may
\* be missing.
OnItsWay ==
    lane = "stream" =>
        indexed \subseteq computed \cup reported \cup ToSet(out) \cup ToSet(flush.emits)
OverIsOver ==
    /\ lane \in {"refresh", "off"} => fpc = "exit" /\ out = <<>>
    /\ lane = "off" =>
          None \in reported \/ indexed \subseteq computed \cup reported \cup Outside

Measured ==
    /\ out \in Seq(Sessions) /\ lane \in Lanes
    /\ indexed \subseteq Sessions /\ computed \subseteq Sessions
    /\ reported \subseteq Sessions \cup {None}
    /\ ~cancelled => OnItsWay /\ OverIsOver

(***************************************************************************)
(* The results behind the parsers are of distinct sessions that no parser  *)
(* holds, and the gate counts the bytes of what is held.                   *)
(***************************************************************************)
InWriter == IF flush.hand = None THEN {} ELSE {flush.hand}
Passing == ToSet(parsedCh) \cup ToSet(flush.pending) \cup InWriter

Distinct ==
    /\ Injective(parsedCh) /\ Injective(flush.pending)
    /\ ToSet(parsedCh) \cap ToSet(flush.pending) = {}
    /\ InWriter \cap (ToSet(parsedCh) \cup ToSet(flush.pending)) = {}
    /\ \A q, r \in Passing : q.s = r.s => q = r
    /\ \A r \in Passing : \E i \in DOMAIN slots :
          /\ slots[i].s = r.s /\ Past(i)
          /\ \A p \in Parsers : Busy(p) => SlotOf(p) # i

ResultOf(p) == [s |-> slots[SlotOf(p)].s, bytes |-> item[p].bytes]
Holders == {p \in Parsers : ppc[p] \in {"complete", "send"}}
Held == {ResultOf(p) : p \in Holders} \cup Passing

Coins(r) == {<<r.s, k>> : k \in 1..r.bytes}
Tokens(H) == UNION {Coins(r) : r \in H}

\* r alone owns bytes.
Alone(r, H) == r \in H /\ r.bytes > 0 /\ \A q \in H : q.bytes > 0 => q = r

Gate ==
    /\ IsFiniteSet(Tokens(Held)) /\ used = Cardinality(Tokens(Held))
    /\ used > GateCap => \E r \in Held : Alone(r, Held)

IndexInv ==
    IndexShape /\ Handing /\ Writer /\ Measured /\ Distinct /\ Gate

----------------------------------------------------------------------------
(* Sequences and coins. *)

\* Taking the head of a channel,
LEMMA SetOfTail ==
    ASSUME NEW S, NEW q \in Seq(S), q # <<>>
    PROVE  /\ Tail(q) \in Seq(S) /\ Head(q) \in S
           /\ ToSet(q) = {Head(q)} \cup ToSet(Tail(q))
<1> DEFINE t == Tail(q)
<1>1. /\ t \in Seq(S) /\ Head(q) = q[1] /\ q[1] \in S /\ Len(q) > 0
      /\ DOMAIN t = 1..(Len(q) - 1) /\ DOMAIN q = 1..Len(q) /\ Len(q) \in Nat
      /\ \A k \in 1..(Len(q) - 1) : t[k] = q[k + 1]
  BY HeadTailProperties
<1> HIDE DEF t
<1>2. ToSet(t) \subseteq ToSet(q) /\ q[1] \in ToSet(q)
  <2>1. \A k \in 1..(Len(q) - 1) : k + 1 \in 1..Len(q)
    BY <1>1
  <2> QED
    BY <1>1, <2>1 DEF ToSet
<1>3. ASSUME NEW x \in ToSet(q), x # q[1]
      PROVE  x \in ToSet(t)
  <2>1. PICK k \in 1..Len(q) : x = q[k]
    BY <1>1 DEF ToSet
  <2>2. k - 1 \in 1..(Len(q) - 1) /\ t[k - 1] = q[k]
    BY <1>1, <1>3, <2>1
  <2> QED
    BY <1>1, <2>1, <2>2 DEF ToSet
<1> QED
  BY <1>1, <1>2, <1>3 DEF t

\* sending to it,
LEMMA SetOfAppend ==
    ASSUME NEW S, NEW q \in Seq(S), NEW x \in S
    PROVE  Append(q, x) \in Seq(S) /\ ToSet(Append(q, x)) = ToSet(q) \cup {x}
<1> DEFINE a == Append(q, x)
<1>1. /\ a \in Seq(S) /\ Len(q) \in Nat /\ Len(a) = Len(q) + 1
      /\ a[Len(q) + 1] = x /\ \A k \in 1..Len(q) : a[k] = q[k]
      /\ DOMAIN a = 1..(Len(q) + 1) /\ DOMAIN q = 1..Len(q)
  BY AppendProperties
<1> HIDE DEF a
<1>2. 1..(Len(q) + 1) = 1..Len(q) \cup {Len(q) + 1}
  BY <1>1
<1>3. ToSet(a) = ToSet(q) \cup {x}
  <2>1. ToSet(a) = {a[k] : k \in 1..Len(q) \cup {Len(q) + 1}}
    BY <1>1, <1>2 DEF ToSet
  <2>2. ToSet(q) = {a[k] : k \in 1..Len(q)}
    BY <1>1 DEF ToSet
  <2> QED
    BY <1>1, <2>1, <2>2
<1> QED
  BY <1>1, <1>3 DEF a

\* and an empty one.
LEMMA EmptyHoldsNothing == ToSet(<<>>) = {}
BY DEF ToSet

\* Only the empty sequence has length 0.
LEMMA EmptyIsNoLength ==
    ASSUME NEW S, NEW q \in Seq(S)
    PROVE  Len(q) \in Nat /\ (q = <<>> <=> Len(q) = 0)
BY EmptySeq

\* A second element is what remains behind the first.
LEMMA TailFilled ==
    ASSUME NEW S, NEW q \in Seq(S), q # <<>>
    PROVE  Len(q) > 1 <=> Tail(q) # <<>>
<1> DEFINE t == Tail(q)
<1>1. Len(q) \in Nat /\ Len(t) = Len(q) - 1 /\ Len(q) > 0 /\ t \in Seq(S)
  BY HeadTailProperties
<1> HIDE DEF t
<1>2. t = <<>> <=> Len(t) = 0
  BY <1>1, EmptyIsNoLength
<1>3. Len(q) > 1 <=> t # <<>>
  BY <1>1, <1>2
<1> QED
  BY <1>3 DEF t

\* A writer batch holds at least one result.
LEMMA BatchHolds == BatchSessions \in Nat /\ ~(0 >= BatchSessions)
<1>1. BatchSessions \in Nat \ {0}
  BY IndexAssumption
<1> QED
  BY <1>1

\* A result has one coin per byte.
LEMMA CoinsOf ==
    ASSUME NEW r, r.bytes \in Nat
    PROVE  /\ IsFiniteSet(Coins(r)) /\ Cardinality(Coins(r)) = r.bytes
           /\ Coins(r) = {} <=> r.bytes = 0
<1> DEFINE n == r.bytes
           f == [k \in 1..n |-> <<r.s, k>>]
<1>1. IsFiniteSet(1..n) /\ Cardinality(1..n) = n
  BY FS_Interval
<1>2. f \in Bijection(1..n, Coins(r))
  BY DEF Bijection, Injection, Surjection, IsInjective, Coins
<1>3. ExistsBijection(1..n, Coins(r))
  BY <1>2 DEF ExistsBijection
<1>4. IsFiniteSet(Coins(r)) /\ Cardinality(Coins(r)) = n
  BY <1>1, <1>3, FS_Bijection
<1>5. Coins(r) = {} <=> n = 0
  BY <1>4, FS_EmptySet
<1> QED
  BY <1>4, <1>5

\* A result is admitted: the gate counts its bytes.
LEMMA CoinsIn ==
    ASSUME NEW H, IsFiniteSet(Tokens(H)), NEW r, r.bytes \in Nat,
           \A q \in H : q.s # r.s
    PROVE  /\ IsFiniteSet(Tokens(H \cup {r}))
           /\ Cardinality(Tokens(H \cup {r})) = Cardinality(Tokens(H)) + r.bytes
<1>1. Tokens(H \cup {r}) = Tokens(H) \cup Coins(r)
  BY DEF Tokens
<1>2. Tokens(H) \cap Coins(r) = {}
  <2>1. ASSUME NEW c \in Tokens(H), c \in Coins(r)
        PROVE  FALSE
    <3>1. PICK q \in H : c \in Coins(q)
      BY <2>1 DEF Tokens
    <3>2. c[1] = q.s /\ c[1] = r.s
      BY <2>1, <3>1 DEF Coins
    <3> QED
      BY <3>2
  <2> QED
    BY <2>1
<1>3. IsFiniteSet(Coins(r)) /\ Cardinality(Coins(r)) = r.bytes
  BY CoinsOf
<1>4. /\ IsFiniteSet(Tokens(H) \cup Coins(r))
      /\ Cardinality(Tokens(H) \cup Coins(r)) =
           Cardinality(Tokens(H)) + Cardinality(Coins(r))
             - Cardinality(Tokens(H) \cap Coins(r))
  BY <1>3, FS_Union
<1>5. Cardinality(Tokens(H) \cap Coins(r)) = 0 /\ Cardinality(Tokens(H)) \in Nat
  BY <1>2, FS_EmptySet, FS_CardinalityType
<1>6. Cardinality(Tokens(H) \cup Coins(r)) = Cardinality(Tokens(H)) + r.bytes
  BY <1>3, <1>4, <1>5
<1> QED
  BY <1>1, <1>4, <1>6, Zenon

\* A result gives its bytes back.
LEMMA CoinsOut ==
    ASSUME NEW H, IsFiniteSet(Tokens(H)), NEW r \in H, r.bytes \in Nat,
           \A q \in H : q.s = r.s => q = r
    PROVE  /\ IsFiniteSet(Tokens(H \ {r}))
           /\ Cardinality(Tokens(H \ {r})) = Cardinality(Tokens(H)) - r.bytes
<1> DEFINE G == H \ {r}
<1>1. Tokens(G) \subseteq Tokens(H)
  BY DEF Tokens
<1>2. IsFiniteSet(Tokens(G))
  BY <1>1, FS_Subset
<1>3. G \cup {r} = H /\ \A q \in G : q.s # r.s
  OBVIOUS
<1> HIDE DEF G
<1>4. Cardinality(Tokens(H)) = Cardinality(Tokens(G)) + r.bytes
  BY <1>2, <1>3, CoinsIn
<1>5. Cardinality(Tokens(G)) \in Nat
  BY <1>2, FS_CardinalityType
<1> QED
  BY <1>2, <1>4, <1>5 DEF G

\* Results without bytes take nothing of the gate.
LEMMA NoCoins ==
    ASSUME NEW H, \A q \in H : q.bytes \in Nat, IsFiniteSet(Tokens(H))
    PROVE  Cardinality(Tokens(H)) = 0 <=> \A q \in H : q.bytes = 0
<1>1. Cardinality(Tokens(H)) = 0 <=> Tokens(H) = {}
  BY FS_EmptySet
<1>2. Tokens(H) = {} <=> \A q \in H : Coins(q) = {}
  BY DEF Tokens
<1> QED
  BY <1>1, <1>2, CoinsOf

----------------------------------------------------------------------------
(* Who holds what. *)

\* What the invariant says of parsers, writer and results in passing.
LEMMA PartsOf ==
    ASSUME IndexInv
    PROVE  /\ \A p \in Parsers :
                 /\ ppc[p] \in ParserPCs /\ item[p] \in Items /\ item[p].bytes \in Nat
                 /\ Busy(p) => item[p].work \in IndexWork /\ SlotOf(p) \in DOMAIN slots
           /\ \A p \in Holders : Busy(p)
           /\ flush.pending \in Seq(Parsed) /\ flush.emits \in Seq(Sessions)
           /\ flush.hand \in Parsed \cup {None}
           /\ Passing \subseteq Parsed
<1>1. /\ \A p \in Parsers :
                 /\ ppc[p] \in ParserPCs /\ item[p] \in Items /\ item[p].bytes \in Nat
                 /\ Busy(p) => item[p].work \in IndexWork /\ SlotOf(p) \in DOMAIN slots
      /\ parsedCh \in Seq(Parsed)
  BY DEF IndexInv, IndexShape, Items
<1>2. \A p \in Holders : Busy(p)
  BY DEF Holders, Busy, Reads
<1>3. /\ flush.pending \in Seq(Parsed) /\ flush.emits \in Seq(Sessions)
      /\ flush.hand \in Parsed \cup {None}
  BY DEF IndexInv, Writer, FlushTypes
<1>4. \A q \in Seq(Parsed) : ToSet(q) \subseteq Parsed
  BY DEF ToSet
<1> QED
  BY <1>1, <1>2, <1>3, <1>4 DEF Passing, InWriter

\* A busy parser's session is not the one of another's result.
LEMMA HeldApart ==
    ASSUME Inv, IndexInv
    PROVE  /\ \A r \in Held : r.bytes \in Nat
           /\ \A q, r \in Held : q.s = r.s => q = r
           /\ \A p \in Parsers : Busy(p) /\ p \notin Holders =>
                 \A q \in Held : q.s # slots[SlotOf(p)].s
           /\ \A p \in Parsers : Busy(p) =>
                 \A q \in Passing : q.s # slots[SlotOf(p)].s
<1> USE PartsOf
<1>1. \A i, j \in DOMAIN slots : slots[i].s = slots[j].s => i = j
  BY DEF Inv, OnePlace
<1>2. \A p, q \in Parsers : Busy(p) /\ Busy(q) /\ p # q => SlotOf(p) # SlotOf(q)
  BY DEF IndexInv, Handing
<1>3. ASSUME NEW p \in Parsers, Busy(p), NEW r \in Passing
      PROVE  r.s # slots[SlotOf(p)].s
  <2>1. PICK i \in DOMAIN slots : slots[i].s = r.s /\ SlotOf(p) # i
    BY <1>3 DEF IndexInv, Distinct
  <2> QED
    BY <1>1, <1>3, <2>1
<1>4. ASSUME NEW p \in Parsers, NEW q \in Parsers, Busy(p), Busy(q), p # q
      PROVE  slots[SlotOf(p)].s # slots[SlotOf(q)].s
  BY <1>1, <1>2, <1>4
<1>5. \A p \in Parsers : ResultOf(p).s = slots[SlotOf(p)].s /\ ResultOf(p).bytes \in Nat
  BY DEF ResultOf
<1>6. \A q, r \in Passing : q.s = r.s => q = r
  BY DEF IndexInv, Distinct
<1>7. Holders \subseteq Parsers
  BY DEF Holders
<1>8. \A r \in Held : r.bytes \in Nat
  BY <1>5, <1>7 DEF Held, Parsed
<1>9. ASSUME NEW q \in Held, NEW r \in Held, q.s = r.s
      PROVE  q = r
  <2>1. CASE q \in Passing /\ r \in Passing
    BY <2>1, <1>6, <1>9
  <2>2. ASSUME NEW p \in Holders, q = ResultOf(p), r \in Passing
        PROVE  FALSE
    BY <2>2, <1>3, <1>5, <1>7, <1>9
  <2>3. ASSUME NEW p \in Holders, r = ResultOf(p), q \in Passing
        PROVE  FALSE
    BY <2>3, <1>3, <1>5, <1>7, <1>9
  <2>4. ASSUME NEW p \in Holders, NEW o \in Holders, q = ResultOf(p), r = ResultOf(o)
        PROVE  q = r
    BY <2>4, <1>4, <1>5, <1>7, <1>9
  <2> QED
    BY <2>1, <2>2, <2>3, <2>4 DEF Held
<1>10. ASSUME NEW p \in Parsers, Busy(p), p \notin Holders, NEW q \in Held
       PROVE  q.s # slots[SlotOf(p)].s
  <2>1. CASE q \in Passing
    BY <2>1, <1>3, <1>10
  <2>2. ASSUME NEW o \in Holders, q = ResultOf(o)
        PROVE  q.s # slots[SlotOf(p)].s
    BY <2>2, <1>4, <1>5, <1>7, <1>10
  <2> QED
    BY <2>1, <2>2 DEF Held
<1> QED
  BY <1>3, <1>8, <1>9, <1>10

----------------------------------------------------------------------------
(* What becomes of the gate. *)

\* The gate stays right while neither its count nor what is held changes.
LEMMA GateSame ==
    ASSUME Gate, Held' = Held, used' = used
    PROVE  Gate'
BY DEF Gate, Alone

\* A result that owns bytes is admitted.
LEMMA GateAdmits ==
    ASSUME Inv, IndexInv, NEW r, r.bytes \in Nat, \A q \in Held : q.s # r.s,
           Held' = Held \cup {r}, used' = used + r.bytes,
           r.bytes = 0 \/ ~MustWait(r.bytes)
    PROVE  Gate'
<1> USE PartsOf
<1>1. IsFiniteSet(Tokens(Held)) /\ used = Cardinality(Tokens(Held))
  BY DEF IndexInv, Gate
<1>2. used \in Nat /\ GateCap \in Nat /\ GateCap > 0
  BY <1>1, FS_CardinalityType, IndexAssumption
<1>3. /\ IsFiniteSet(Tokens(Held \cup {r}))
      /\ Cardinality(Tokens(Held \cup {r})) = Cardinality(Tokens(Held)) + r.bytes
  BY <1>1, CoinsIn
<1>4. \A q \in Held : q.bytes \in Nat
  BY HeldApart
<1>5. ASSUME used' > GateCap
      PROVE  \E q \in Held' : Alone(q, Held')
  <2>1. CASE r.bytes = 0
    <3>1. used > GateCap
      BY <1>2, <1>5, <2>1
    <3>2. PICK q \in Held : Alone(q, Held)
      BY <3>1 DEF IndexInv, Gate
    <3>3. Alone(q, Held \cup {r})
      BY <3>2, <2>1 DEF Alone
    <3> QED
      BY <3>2, <3>3
  <2>2. CASE r.bytes # 0
    <3>1. used = 0
      BY <1>2, <1>5, <2>2 DEF MustWait
    <3>2. \A q \in Held : q.bytes = 0
      BY <1>1, <1>4, <3>1, NoCoins
    <3>3. Alone(r, Held \cup {r})
      BY <3>2, <2>2 DEF Alone
    <3> QED
      BY <3>3
  <2> QED
    BY <2>1, <2>2
<1>6. used' = Cardinality(Tokens(Held'))
  BY <1>1, <1>3
<1> QED
  BY <1>3, <1>5, <1>6 DEF Gate, Alone, Tokens, Coins

\* A result gives its bytes back.
LEMMA GateReleases ==
    ASSUME Inv, IndexInv, NEW r \in Held, Held' = Held \ {r}, used' = used - r.bytes
    PROVE  Gate'
<1>1. IsFiniteSet(Tokens(Held)) /\ used = Cardinality(Tokens(Held))
  BY DEF IndexInv, Gate
<1>2. used \in Nat /\ GateCap \in Nat /\ GateCap > 0
  BY <1>1, FS_CardinalityType, IndexAssumption
<1>3. /\ \A q \in Held : q.bytes \in Nat
      /\ \A q \in Held : q.s = r.s => q = r
  BY HeldApart
<1>4. /\ IsFiniteSet(Tokens(Held \ {r}))
      /\ Cardinality(Tokens(Held \ {r})) = Cardinality(Tokens(Held)) - r.bytes
  BY <1>1, <1>3, CoinsOut
<1>5. used' = Cardinality(Tokens(Held \ {r}))
  BY <1>1, <1>4
<1>6. ASSUME used' > GateCap
      PROVE  \E q \in Held \ {r} : Alone(q, Held \ {r})
  <2>1. used > GateCap /\ used' > 0
    BY <1>2, <1>3, <1>6
  <2>2. PICK q \in Held : Alone(q, Held)
    BY <2>1 DEF IndexInv, Gate
  <2>3. CASE q = r
    <3>1. \A o \in Held \ {r} : o.bytes = 0
      BY <1>3, <2>2, <2>3 DEF Alone
    <3>2. Cardinality(Tokens(Held \ {r})) = 0
      BY <1>4, <1>3, <3>1, NoCoins
    <3> QED
      BY <1>5, <2>1, <3>2
  <2>4. CASE q # r
    <3>1. Alone(q, Held \ {r})
      BY <2>2, <2>4 DEF Alone
    <3> QED
      BY <2>4, <3>1
  <2> QED
    BY <2>3, <2>4
<1> QED
  BY <1>4, <1>5, <1>6 DEF Gate, Alone, Tokens, Coins

----------------------------------------------------------------------------
(* Steps of the first stages. *)

\* What was read stays read, and a slot keeps its session.
LEMMA PastStays ==
    ASSUME Inv, [StagingNext]_staging
    PROVE  /\ DOMAIN slots \subseteq DOMAIN slots'
           /\ \A i \in DOMAIN slots : slots'[i].s = slots[i].s
           /\ \A i : Past(i) => Past(i)'
           /\ cancelled => cancelled'
<1>1. /\ DOMAIN slots \subseteq DOMAIN slots'
      /\ \A i \in DOMAIN slots : slots'[i].s = slots[i].s
      /\ DOMAIN batches \subseteq DOMAIN batches'
      /\ \A b \in DOMAIN batches : /\ batches'[b].claimed = batches[b].claimed
                                   /\ Outstanding(b)' \subseteq Outstanding(b)
  BY HandedOnce
<1>2. ASSUME NEW i, Past(i)
      PROVE  Past(i)'
  <2>1. PICK b \in DOMAIN batches : i \in batches[b].claimed /\ i \notin Outstanding(b)
    BY <1>2 DEF Past
  <2>2. b \in DOMAIN batches' /\ i \in batches'[b].claimed /\ i \notin Outstanding(b)'
    BY <1>1, <2>1
  <2> QED
    BY <2>2 DEF Past
<1>3. cancelled => cancelled'
  BY DEF StagingNext, Worker, TakeRoot, WorkerExit, Process, CopyToArena, StageOutside,
     ClaimSlot, Publish, WorkerOnly, DrainLoop, ReceiveAck, Look, Drain, Drained, Mirror,
     SendIndexWork, Wake, DrainExit, DrainOnly, ItemRead, Cancel, staging
<1> QED
  BY <1>1, <1>2, <1>3

\* A staging step takes nothing from under a parser.
LEMMA BehindStaging ==
    ASSUME Inv, IndexInv, [StagingNext]_staging, UNCHANGED index,
           reading \subseteq reading'
    PROVE  IndexInv'
<1> USE PartsOf
<1>1. /\ DOMAIN slots \subseteq DOMAIN slots'
      /\ \A i \in DOMAIN slots : slots'[i].s = slots[i].s
      /\ \A i : Past(i) => Past(i)'
      /\ cancelled => cancelled'
  BY PastStays
<1>2. /\ UNCHANGED <<ppc, item, parsedCh, used, blocked, fpc, flush, indexed>>
      /\ UNCHANGED <<out, lane, computed, reported>>
  BY DEF index, writing, metrics
<1>3. /\ Passing' = Passing /\ Holders' = Holders /\ InWriter' = InWriter
      /\ \A p \in Parsers : /\ Busy(p)' <=> Busy(p)
                            /\ Reads(p)' <=> Reads(p)
                            /\ SlotOf(p)' = SlotOf(p)
  BY <1>2 DEF Passing, Holders, InWriter, Busy, Reads, SlotOf
<1>4. IndexShape' /\ Writer' /\ Measured'
  <2>1. IndexShape'
    BY <1>1, <1>2, <1>3 DEF IndexInv, IndexShape
  <2>2. Writer'
    BY <1>2 DEF IndexInv, Writer
  <2>3. Measured'
    BY <1>1, <1>2 DEF IndexInv, Measured, OnItsWay, OverIsOver
  <2> QED
    BY <2>1, <2>2, <2>3
<1>5. Handing'
  BY <1>1, <1>2, <1>3 DEF IndexInv, Handing
<1>6. Distinct'
  <2>1. ASSUME NEW r \in Passing
        PROVE  \E i \in DOMAIN slots' :
                  /\ slots'[i].s = r.s /\ Past(i)'
                  /\ \A p \in Parsers : Busy(p)' => SlotOf(p)' # i
    <3>1. PICK i \in DOMAIN slots :
             /\ slots[i].s = r.s /\ Past(i)
             /\ \A p \in Parsers : Busy(p) => SlotOf(p) # i
      BY DEF IndexInv, Distinct
    <3> QED
      BY <1>1, <1>3, <3>1
  <2> QED
    BY <1>2, <1>3, <2>1 DEF IndexInv, Distinct
<1>7. Gate'
  <2>1. \A p \in Holders : ResultOf(p)' = ResultOf(p)
    BY <1>1, <1>2, <1>3 DEF ResultOf, Holders
  <2>2. Held' = Held
    BY <1>3, <2>1 DEF Held
  <2> QED
    BY <1>2, <2>2, GateSame DEF IndexInv
<1> QED
  BY <1>4, <1>5, <1>6, <1>7 DEF IndexInv

\* A step of the workers or of the drain loop takes nothing from a parser.
LEMMA ReadingGrows ==
    ASSUME (\E w \in Workers : Worker(w)) \/ DrainLoop \/ Cancel \/ UNCHANGED staging
    PROVE  reading \subseteq reading'
<1>1. ASSUME NEW w \in Workers, Worker(w)
      PROVE  reading' = reading
  BY <1>1 DEF Worker, TakeRoot, WorkerExit, Process, CopyToArena, StageOutside,
     ClaimSlot, Publish, WorkerOnly
<1>2. ASSUME DrainLoop
      PROVE  reading \subseteq reading'
  BY <1>2 DEF DrainLoop, ReceiveAck, Look, Drain, Drained, Mirror, SendIndexWork, Wake,
     DrainExit
<1>3. ASSUME Cancel \/ UNCHANGED staging
      PROVE  reading' = reading
  BY <1>3 DEF Cancel, staging
<1> QED
  BY <1>1, <1>2, <1>3

----------------------------------------------------------------------------
(* Steps of a parser. *)

\* What of the parsers a step of one of them leaves.
LEMMA OneParser ==
    ASSUME IndexInv, NEW p \in Parsers, NEW k \in ParserPCs, NEW y \in Items,
           ppc' = [ppc EXCEPT ![p] = k], item' = [item EXCEPT ![p] = y]
    PROVE  /\ ppc'[p] = k /\ item'[p] = y /\ SlotOf(p)' = y.work.slot
           /\ \A q \in Parsers : q # p =>
                 /\ ppc'[q] = ppc[q] /\ item'[q] = item[q]
                 /\ Busy(q)' <=> Busy(q)
                 /\ Reads(q)' <=> Reads(q)
                 /\ SlotOf(q)' = SlotOf(q)
           /\ Holders' = IF k \in {"complete", "send"} THEN Holders \cup {p}
                         ELSE Holders \ {p}
           /\ ppc' \in [Parsers -> ParserPCs] /\ item' \in [Parsers -> Items]
<1>1. ppc \in [Parsers -> ParserPCs] /\ item \in [Parsers -> Items]
  BY DEF IndexInv, IndexShape
<1>2. /\ ppc'[p] = k /\ item'[p] = y
      /\ \A q \in Parsers : q # p => ppc'[q] = ppc[q] /\ item'[q] = item[q]
      /\ ppc' \in [Parsers -> ParserPCs] /\ item' \in [Parsers -> Items]
  BY <1>1
<1>3. \A q \in Parsers : q # p =>
                 /\ Busy(q)' <=> Busy(q)
                 /\ Reads(q)' <=> Reads(q)
                 /\ SlotOf(q)' = SlotOf(q)
  BY <1>2 DEF Busy, Reads, SlotOf
<1>4. Holders' = IF k \in {"complete", "send"} THEN Holders \cup {p} ELSE Holders \ {p}
  BY <1>2 DEF Holders
<1>5. SlotOf(p)' = y.work.slot
  BY <1>2 DEF SlotOf
<1> QED
  BY <1>2, <1>3, <1>4, <1>5

\* Steps outside the writer keep its part of the invariant.
LEMMA WriterStays ==
    ASSUME IndexInv, UNCHANGED <<writing, metrics>>, cancelled => cancelled'
    PROVE  /\ UNCHANGED <<fpc, flush, indexed, out, lane, computed, reported>>
           /\ Writer' /\ Measured' /\ InWriter' = InWriter
           /\ parsedCh' = parsedCh => Passing' = Passing
<1>1. UNCHANGED <<fpc, flush, indexed, out, lane, computed, reported>>
  BY DEF writing, metrics
<1>2. Writer'
  BY <1>1 DEF IndexInv, Writer
<1>3. Measured'
  BY <1>1 DEF IndexInv, Measured, OnItsWay, OverIsOver
<1> QED
  BY <1>1, <1>2, <1>3 DEF Passing, InWriter

\* A parser goes on with the work it has.
LEMMA ParserGoesOn ==
    ASSUME Inv, IndexInv, NEW p \in Parsers, Reads(p),
           NEW k \in {"admit", "waiting", "complete"}, NEW n \in Nat,
           ppc' = [ppc EXCEPT ![p] = k], item' = [item EXCEPT ![p].bytes = n],
           UNCHANGED <<staging, parsedCh>>, blocked' \in BOOLEAN, ParserOnly,
           ppc[p] # "complete"
    PROVE  /\ IndexShape' /\ Handing' /\ Writer' /\ Measured' /\ Distinct'
           /\ LET r == [s |-> slots[SlotOf(p)].s, bytes |-> n]
              IN  /\ Held' = IF k = "complete" THEN Held \cup {r} ELSE Held
                  /\ \A q \in Held : q.s # r.s
<1> DEFINE y == [item[p] EXCEPT !.bytes = n]
           r == [s |-> slots[SlotOf(p)].s, bytes |-> n]
<1> USE PartsOf
<1>0. UNCHANGED <<slots, reading, batches, drain, cancelled>>
  BY DEF staging, drainer
<1>1. y \in Items /\ y.work = item[p].work /\ y.bytes = n /\ k \in ParserPCs
  BY DEF Items, ParserPCs
<1>2. item' = [item EXCEPT ![p] = y]
  OBVIOUS
<1> HIDE DEF y
<1>3. /\ ppc'[p] = k /\ item'[p] = y /\ SlotOf(p)' = SlotOf(p)
      /\ \A q \in Parsers : q # p =>
            /\ ppc'[q] = ppc[q] /\ item'[q] = item[q]
            /\ Busy(q)' <=> Busy(q)
            /\ Reads(q)' <=> Reads(q)
            /\ SlotOf(q)' = SlotOf(q)
      /\ Holders' = IF k = "complete" THEN Holders \cup {p} ELSE Holders \ {p}
      /\ ppc' \in [Parsers -> ParserPCs] /\ item' \in [Parsers -> Items]
  BY <1>1, <1>2, OneParser, ZenonT(40) DEF SlotOf
<1>4. /\ UNCHANGED <<fpc, flush, indexed, out, lane, computed, reported>>
      /\ Writer' /\ Measured' /\ InWriter' = InWriter /\ Passing' = Passing
  BY <1>0, WriterStays DEF ParserOnly
<1>5. Busy(p) /\ Busy(p)' /\ Reads(p)' /\ p \notin Holders /\ ppc'[p] # "send"
  BY <1>3 DEF Busy, Reads, Holders
<1>6. \A q \in Parsers : (Busy(q)' <=> Busy(q)) /\ (Reads(q)' <=> Reads(q))
                         /\ SlotOf(q)' = SlotOf(q) /\ item'[q].work = item[q].work
  BY <1>1, <1>3, <1>5
<1>7. IndexShape'
  BY <1>0, <1>3, <1>6 DEF IndexInv, IndexShape
<1>8. \A i : Past(i)' <=> Past(i)
  BY <1>0 DEF Past, Outstanding
<1>9. Handing'
  BY <1>0, <1>3, <1>5, <1>6, <1>8 DEF IndexInv, Handing
<1>10. Distinct'
  BY <1>0, <1>4, <1>6, <1>8 DEF IndexInv, Distinct
<1>11. Held' = IF k = "complete" THEN Held \cup {r} ELSE Held
  <2>1. \A q \in Holders : ResultOf(q)' = ResultOf(q) /\ q # p
    BY <1>0, <1>3, <1>5 DEF ResultOf, Holders
  <2>2. ResultOf(p)' = r
    BY <1>0, <1>1, <1>3 DEF ResultOf
  <2>3. Holders \ {p} = Holders
    BY <1>5
  <2> QED
    BY <1>3, <1>4, <2>1, <2>2, <2>3 DEF Held
<1>12. \A q \in Held : q.s # r.s
  BY <1>5, HeldApart
<1> QED
  BY <1>4, <1>7, <1>9, <1>10, <1>11, <1>12

\* Parsing, and asking the gate for room.
LEMMA ParserAdmits ==
    ASSUME Inv, IndexInv, NEW p \in Parsers,
           Parse(p) \/ Acquire(p) \/ AcquireWaits(p) \/ AcquireRefused(p)
    PROVE  IndexInv'
<1>1. /\ item \in [Parsers -> Items] /\ item[p].bytes \in Nat /\ blocked \in BOOLEAN
      /\ ppc[p] \in {"parse", "admit", "waiting"} /\ Reads(p) /\ ppc[p] # "complete"
  BY PartsOf DEF IndexInv, IndexShape, Parse, Acquire, AcquireWaits, AcquireRefused, Reads
<1>2. used \in Nat
  BY FS_CardinalityType DEF IndexInv, Gate
<1>3. ASSUME NEW k \in {"admit", "waiting", "complete"}, NEW n \in Nat,
             ppc' = [ppc EXCEPT ![p] = k], item' = [item EXCEPT ![p].bytes = n],
             UNCHANGED <<staging, parsedCh>>, blocked' \in BOOLEAN, ParserOnly,
             k # "complete" => used' = used,
             k = "complete" => used' = used + n /\ (n = 0 \/ ~MustWait(n))
      PROVE  IndexInv'
  <2> DEFINE r == [s |-> slots[SlotOf(p)].s, bytes |-> n]
  <2>1. /\ IndexShape' /\ Handing' /\ Writer' /\ Measured' /\ Distinct'
        /\ Held' = IF k = "complete" THEN Held \cup {r} ELSE Held
        /\ \A q \in Held : q.s # r.s
    BY <1>1, <1>3, ParserGoesOn
  <2>2. r.bytes = n
    OBVIOUS
  <2> HIDE DEF r
  <2>3. Gate'
    <3>1. CASE k = "complete"
      BY <1>3, <2>1, <2>2, <3>1, GateAdmits
    <3>2. CASE k # "complete"
      BY <1>3, <2>1, <3>2, GateSame DEF IndexInv
    <3> QED
      BY <3>1, <3>2
  <2> QED
    BY <2>1, <2>3 DEF IndexInv
<1>4. CASE Parse(p)
  <2>1. PICK n \in Weights :
           /\ item' = [item EXCEPT ![p].bytes = n]
           /\ ppc' = [ppc EXCEPT ![p] = IF n = 0 THEN "complete" ELSE "admit"]
    BY <1>4 DEF Parse
  <2>2. n \in Nat
    BY IndexAssumption
  <2>3. UNCHANGED <<staging, parsedCh, used, blocked>> /\ ParserOnly
    BY <1>4 DEF Parse
  <2>4. CASE n = 0
    <3>1. used' = used + n
      BY <1>2, <2>3, <2>4
    <3> QED
      BY <1>1, <1>3, <2>1, <2>2, <2>3, <2>4, <3>1
  <2>5. CASE n # 0
    BY <1>1, <1>3, <2>1, <2>2, <2>3, <2>5
  <2> QED
    BY <2>4, <2>5
<1>5. item = [item EXCEPT ![p].bytes = item[p].bytes]
  BY <1>1 DEF Items
<1>6. CASE Acquire(p)
  BY <1>1, <1>3, <1>5, <1>6 DEF Acquire
<1>7. CASE AcquireWaits(p)
  BY <1>1, <1>3, <1>5, <1>7 DEF AcquireWaits
<1>8. CASE AcquireRefused(p)
  <2>1. used' = used + 0
    BY <1>2, <1>8 DEF AcquireRefused
  <2> QED
    BY <1>1, <1>3, <1>8, <2>1 DEF AcquireRefused
<1> QED
  BY <1>4, <1>6, <1>7, <1>8

\* Two work items are of two slots, and what is being read is not past.
LEMMA WorkApart ==
    ASSUME Inv, NEW x \in reading
    PROVE  /\ ~Past(x.slot)
           /\ \A y \in reading : y.slot = x.slot => y = x
<1>1. \A b, c \in DOMAIN batches : b # c => batches[b].claimed \cap batches[c].claimed = {}
  BY DEF Inv, BatchesOK
<1>2. \A y \in reading : /\ y.batch \in DOMAIN batches /\ y \in IndexWork
                         /\ y.slot \in Outstanding(y.batch)
                         /\ y.slot \in batches[y.batch].claimed
  BY ReadOnce
<1>3. ~Past(x.slot)
  BY <1>1, <1>2 DEF Past
<1>4. ASSUME NEW y \in reading, y.slot = x.slot
      PROVE  y = x
  <2>1. y.batch = x.batch
    BY <1>1, <1>2, <1>4
  <2> QED
    BY <1>2, <1>4, <2>1 DEF IndexWork
<1> QED
  BY <1>3, <1>4

\* A parser without work takes the first of the queue, or returns.
LEMMA ParserTakes ==
    ASSUME Inv, IndexInv, NEW p \in Parsers, TakeWork(p) \/ ParserExit(p)
    PROVE  IndexInv'
<1> USE PartsOf
<1>0. /\ UNCHANGED <<slots, reading, batches, drain, cancelled>>
      /\ UNCHANGED <<parsedCh, used, blocked>> /\ ParserOnly /\ ppc[p] = "take"
  BY DEF TakeWork, ParserExit, staging, drainer
<1>1. \E k \in {"parse", "exit"} : \E y \in Items :
         /\ ppc' = [ppc EXCEPT ![p] = k] /\ item' = [item EXCEPT ![p] = y]
         /\ k = "parse" => y.work \in Queued
  <2>1. CASE TakeWork(p)
    <3>1. PICK x \in Queued : item' = [item EXCEPT ![p] = [work |-> x, bytes |-> 0]]
      BY <2>1 DEF TakeWork
    <3>2. x \in IndexWork
      BY <3>1 DEF Queued, Inv, Shape
    <3>3. [work |-> x, bytes |-> 0] \in Items
      BY <3>2 DEF Items
    <3> QED
      BY <2>1, <3>1, <3>3 DEF TakeWork
  <2>2. CASE ParserExit(p)
    <3>1. item = [item EXCEPT ![p] = item[p]] /\ item[p] \in Items
      BY DEF IndexInv, IndexShape
    <3> QED
      BY <2>2, <3>1 DEF ParserExit
  <2> QED
    BY <2>1, <2>2
<1>2. PICK k \in {"parse", "exit"} : \E y \in Items :
         /\ ppc' = [ppc EXCEPT ![p] = k] /\ item' = [item EXCEPT ![p] = y]
         /\ k = "parse" => y.work \in Queued
  BY <1>1
<1>3. PICK y \in Items :
         /\ ppc' = [ppc EXCEPT ![p] = k] /\ item' = [item EXCEPT ![p] = y]
         /\ k = "parse" => y.work \in Queued
  BY <1>2
<1>4. /\ ppc'[p] = k /\ item'[p] = y /\ SlotOf(p)' = y.work.slot
      /\ \A q \in Parsers : q # p =>
            /\ ppc'[q] = ppc[q] /\ item'[q] = item[q]
            /\ Busy(q)' <=> Busy(q)
            /\ Reads(q)' <=> Reads(q)
            /\ SlotOf(q)' = SlotOf(q)
      /\ Holders' = Holders \ {p}
      /\ ppc' \in [Parsers -> ParserPCs] /\ item' \in [Parsers -> Items]
  <2>1. k \in ParserPCs /\ k \notin {"complete", "send"}
    BY DEF ParserPCs
  <2> QED
    BY <1>3, <2>1, OneParser
<1>5. /\ UNCHANGED <<fpc, flush, indexed, out, lane, computed, reported>>
      /\ Writer' /\ Measured' /\ InWriter' = InWriter /\ Passing' = Passing
  BY <1>0, WriterStays DEF ParserOnly
<1>6. /\ p \notin Holders /\ ~Busy(p) /\ (Busy(p)' <=> k = "parse")
      /\ (Reads(p)' <=> k = "parse") /\ ppc'[p] # "send"
  BY <1>0, <1>4 DEF Holders, Busy, Reads
<1>7. ASSUME k = "parse"
      PROVE  /\ y.work \in reading /\ y.work \in IndexWork
             /\ y.work.slot \in DOMAIN slots /\ ~Past(y.work.slot)
             /\ \A q \in Parsers : Busy(q) => SlotOf(q) # y.work.slot
  <2>1. y.work \in reading /\ \A q \in Parsers : y.work # item[q].work
    BY <1>3, <1>7 DEF Queued
  <2>2. /\ y.work \in IndexWork /\ y.work.slot \in DOMAIN slots /\ ~Past(y.work.slot)
        /\ \A x \in reading : x.slot = y.work.slot => x = y.work
    BY <2>1, ReadOnce, WorkApart
  <2>3. ASSUME NEW q \in Parsers, Busy(q)
        PROVE  SlotOf(q) # y.work.slot
    <3>1. CASE Reads(q)
      <4>1. item[q].work \in reading
        BY <3>1 DEF IndexInv, Handing
      <4> QED
        BY <4>1, <2>1, <2>2 DEF SlotOf
    <3>2. CASE ppc[q] = "send"
      BY <3>2, <2>2 DEF IndexInv, Handing
    <3> QED
      BY <2>3, <3>1, <3>2 DEF Busy
  <2> QED
    BY <2>1, <2>2, <2>3
<1>8. \A i : Past(i)' <=> Past(i)
  BY <1>0 DEF Past, Outstanding
<1>9. IndexShape'
  <2>1. \A q \in Parsers : Busy(q)' =>
           item'[q].work \in IndexWork /\ SlotOf(q)' \in DOMAIN slots'
    BY <1>0, <1>4, <1>6, <1>7
  <2> QED
    BY <1>0, <1>4, <2>1 DEF IndexInv, IndexShape
<1>10. Handing'
  <2>1. \A q \in Parsers : Reads(q)' => item'[q].work \in reading'
    BY <1>0, <1>4, <1>6, <1>7 DEF IndexInv, Handing
  <2>2. \A q \in Parsers : ppc'[q] = "send" => Past(SlotOf(q))'
    BY <1>0, <1>4, <1>6, <1>8 DEF IndexInv, Handing
  <2>3. \A q, o \in Parsers : Busy(q)' /\ Busy(o)' /\ q # o => SlotOf(q)' # SlotOf(o)'
    <3>1. ASSUME NEW q \in Parsers, NEW o \in Parsers, Busy(q)', Busy(o)', q # o
          PROVE  SlotOf(q)' # SlotOf(o)'
      <4>1. CASE q # p /\ o # p
        BY <1>4, <3>1, <4>1 DEF IndexInv, Handing
      <4>2. CASE q = p
        BY <1>4, <1>6, <1>7, <3>1, <4>2
      <4>3. CASE o = p
        BY <1>4, <1>6, <1>7, <3>1, <4>3
      <4> QED
        BY <4>1, <4>2, <4>3
    <3> QED
      BY <3>1
  <2> QED
    BY <2>1, <2>2, <2>3 DEF Handing
<1>11. Distinct'
  <2>1. ASSUME NEW r \in Passing
        PROVE  \E i \in DOMAIN slots' :
                  /\ slots'[i].s = r.s /\ Past(i)'
                  /\ \A q \in Parsers : Busy(q)' => SlotOf(q)' # i
    <3>1. PICK i \in DOMAIN slots :
             /\ slots[i].s = r.s /\ Past(i)
             /\ \A q \in Parsers : Busy(q) => SlotOf(q) # i
      BY DEF IndexInv, Distinct
    <3>2. ASSUME NEW q \in Parsers, Busy(q)'
          PROVE  SlotOf(q)' # i
      <4>1. CASE q = p
        BY <1>4, <1>6, <1>7, <3>1, <3>2, <4>1
      <4>2. CASE q # p
        BY <1>4, <3>1, <3>2, <4>2
      <4> QED
        BY <4>1, <4>2
    <3> QED
      BY <1>0, <1>8, <3>1, <3>2
  <2> QED
    BY <1>0, <1>5, <2>1 DEF IndexInv, Distinct
<1>12. Gate'
  <2>1. \A q \in Holders : ResultOf(q)' = ResultOf(q) /\ q # p
    BY <1>0, <1>4, <1>6 DEF ResultOf, Holders
  <2>2. Holders' = Holders
    BY <1>4, <1>6
  <2>3. Held' = Held
    BY <1>5, <2>1, <2>2 DEF Held
  <2> QED
    BY <1>0, <2>3, GateSame DEF IndexInv
<1> QED
  BY <1>5, <1>9, <1>10, <1>11, <1>12 DEF IndexInv

\* The parser is done with the transcript: its slot is past.
LEMMA ParserCompletes ==
    ASSUME Inv, IndexInv, NEW p \in Parsers, CompleteWorkItem(p)
    PROVE  IndexInv'
<1> USE PartsOf
<1>0. /\ ppc[p] = "complete" /\ ItemRead(item[p].work) /\ ParserOnly
      /\ ppc' = [ppc EXCEPT ![p] = "send"] /\ UNCHANGED <<item, parsedCh, used, blocked>>
  BY DEF CompleteWorkItem
<1>1. /\ item[p].work \in reading /\ reading' = reading \ {item[p].work}
      /\ slots' = slots /\ cancelled' = cancelled
  BY <1>0 DEF ItemRead
<1>2. /\ DOMAIN slots \subseteq DOMAIN slots'
      /\ \A i : Past(i) => Past(i)'
  <2>1. [StagingNext]_staging
    BY <1>0, <1>1 DEF StagingNext
  <2> QED
    BY <2>1, PastStays
<1>3. Past(SlotOf(p))'
  <2>1. PICK x \in reading : x = item[p].work
    BY <1>1
  <2>2. /\ x.batch \in DOMAIN batches
        /\ x.slot \in batches[x.batch].claimed
        /\ x.slot \notin Outstanding(x.batch)'
    BY <1>0, <2>1, ReadOnce
  <2>3. /\ DOMAIN batches' = DOMAIN batches
        /\ \A b \in DOMAIN batches : batches'[b].claimed = batches[b].claimed
    BY <1>0, <2>1, ItemReadShape
  <2>4. SlotOf(p)' = x.slot
    BY <1>0, <2>1 DEF SlotOf
  <2>5. Past(x.slot)'
    BY <2>2, <2>3 DEF Past
  <2> QED
    BY <2>4, <2>5 DEF Past, Outstanding
<1>4. item[p] \in Items /\ item' = [item EXCEPT ![p] = item[p]] /\ "send" \in ParserPCs
  BY <1>0 DEF IndexInv, IndexShape, ParserPCs
<1>5. /\ ppc'[p] = "send" /\ SlotOf(p)' = SlotOf(p)
      /\ \A q \in Parsers : q # p =>
            /\ ppc'[q] = ppc[q] /\ item'[q] = item[q]
            /\ Busy(q)' <=> Busy(q)
            /\ Reads(q)' <=> Reads(q)
            /\ SlotOf(q)' = SlotOf(q)
      /\ Holders' = Holders \cup {p}
      /\ ppc' \in [Parsers -> ParserPCs] /\ item' \in [Parsers -> Items]
  BY <1>0, <1>4, OneParser DEF SlotOf
<1>6. /\ UNCHANGED <<fpc, flush, indexed, out, lane, computed, reported>>
      /\ Writer' /\ Measured' /\ InWriter' = InWriter /\ Passing' = Passing
  BY <1>0, <1>1, WriterStays DEF ParserOnly
<1>7. Busy(p) /\ Busy(p)' /\ ~Reads(p)' /\ p \in Holders
  BY <1>0, <1>5 DEF Busy, Reads, Holders
<1>8. \A q \in Parsers : (Busy(q)' <=> Busy(q)) /\ SlotOf(q)' = SlotOf(q)
  BY <1>5, <1>7
<1>9. IndexShape'
  BY <1>0, <1>1, <1>5, <1>8 DEF IndexInv, IndexShape
<1>10. Handing'
  <2>1. ASSUME NEW q \in Parsers, Reads(q)'
        PROVE  item'[q].work \in reading'
    <3>1. q # p /\ Reads(q) /\ item'[q] = item[q] /\ Busy(q)
      BY <1>5, <1>7, <2>1 DEF Busy
    <3>2. item[q].work \in reading /\ SlotOf(q) # SlotOf(p)
      BY <1>7, <3>1 DEF IndexInv, Handing
    <3>3. item[q].work # item[p].work
      BY <3>2 DEF SlotOf
    <3> QED
      BY <1>1, <3>1, <3>2, <3>3
  <2>2. \A q \in Parsers : ppc'[q] = "send" => Past(SlotOf(q))'
    <3>1. ASSUME NEW q \in Parsers, ppc'[q] = "send", q # p
          PROVE  Past(SlotOf(q))'
      <4>1. Past(SlotOf(q)) /\ SlotOf(q)' = SlotOf(q)
        BY <1>5, <3>1 DEF IndexInv, Handing
      <4>2. \A i : i = SlotOf(q) => Past(i)'
        BY <1>2, <4>1
      <4> QED
        BY <4>1, <4>2 DEF Past, Outstanding
    <3> QED
      BY <1>3, <3>1
  <2>3. \A q, o \in Parsers : Busy(q)' /\ Busy(o)' /\ q # o => SlotOf(q)' # SlotOf(o)'
    BY <1>8 DEF IndexInv, Handing
  <2> QED
    BY <2>1, <2>2, <2>3 DEF Handing
<1>11. Distinct'
  <2>1. ASSUME NEW r \in Passing
        PROVE  \E i \in DOMAIN slots' :
                  /\ slots'[i].s = r.s /\ Past(i)'
                  /\ \A q \in Parsers : Busy(q)' => SlotOf(q)' # i
    <3>1. PICK i \in DOMAIN slots :
             /\ slots[i].s = r.s /\ Past(i)
             /\ \A q \in Parsers : Busy(q) => SlotOf(q) # i
      BY DEF IndexInv, Distinct
    <3> QED
      BY <1>1, <1>2, <1>8, <3>1
  <2> QED
    BY <1>0, <1>6, <2>1 DEF IndexInv, Distinct
<1>12. Gate'
  <2>1. \A q \in Holders : ResultOf(q)' = ResultOf(q)
    BY <1>0, <1>1, <1>8 DEF ResultOf, Holders
  <2>2. Holders' = Holders
    BY <1>5, <1>7
  <2>3. Held' = Held
    BY <1>6, <2>1, <2>2 DEF Held
  <2> QED
    BY <1>0, <2>3, GateSame DEF IndexInv
<1> QED
  BY <1>6, <1>9, <1>10, <1>11, <1>12 DEF IndexInv

\* A sequence without repetitions keeps none when a new element comes,
LEMMA InjectiveAppend ==
    ASSUME NEW S, NEW q \in Seq(S), NEW x \in S, Injective(q), x \notin ToSet(q)
    PROVE  Injective(Append(q, x))
<1> DEFINE a == Append(q, x)
<1>1. /\ Len(q) \in Nat /\ a[Len(q) + 1] = x /\ \A k \in 1..Len(q) : a[k] = q[k]
      /\ DOMAIN a = 1..(Len(q) + 1) /\ DOMAIN q = 1..Len(q)
  BY AppendProperties
<1> HIDE DEF a
<1>2. \A k \in 1..Len(q) : q[k] # x
  BY <1>1 DEF ToSet
<1>3. Injective(a)
  BY <1>1, <1>2 DEF Injective
<1> QED
  BY <1>3 DEF a

\* or its head goes.
LEMMA InjectiveTail ==
    ASSUME NEW S, NEW q \in Seq(S), Injective(q), q # <<>>
    PROVE  Injective(Tail(q)) /\ Head(q) \notin ToSet(Tail(q))
<1> DEFINE t == Tail(q)
<1>1. /\ Head(q) = q[1] /\ Len(q) > 0 /\ Len(q) \in Nat
      /\ DOMAIN t = 1..(Len(q) - 1) /\ DOMAIN q = 1..Len(q)
      /\ \A k \in 1..(Len(q) - 1) : t[k] = q[k + 1]
  BY HeadTailProperties
<1> HIDE DEF t
<1>2. \A k \in 1..(Len(q) - 1) : k + 1 \in 1..Len(q) /\ k + 1 # 1
  BY <1>1
<1>3. Injective(t)
  BY <1>1, <1>2 DEF Injective
<1>4. \A k \in DOMAIN t : t[k] # q[1]
  BY <1>1, <1>2, SMTT(20) DEF Injective
<1>5. q[1] \notin ToSet(t)
  BY <1>4 DEF ToSet
<1> QED
  BY <1>1, <1>3, <1>5 DEF t

\* The result passes from the parser to the channel with the bytes it owns.
LEMMA ParserSends ==
    ASSUME Inv, IndexInv, NEW p \in Parsers, SendParsed(p)
    PROVE  IndexInv'
<1> DEFINE y == [work |-> None, bytes |-> 0]
<1> USE PartsOf
<1>0. /\ ppc[p] = "send" /\ parsedCh' = Append(parsedCh, ResultOf(p))
      /\ item' = [item EXCEPT ![p] = y] /\ ppc' = [ppc EXCEPT ![p] = "take"]
      /\ UNCHANGED <<slots, reading, batches, drain, cancelled>>
      /\ UNCHANGED <<used, blocked>> /\ ParserOnly
  BY DEF SendParsed, ResultOf, SlotOf, staging, drainer
<1>1. y \in Items /\ "take" \in ParserPCs
  BY DEF Items, ParserPCs
<1> HIDE DEF y
<1>2. /\ ppc'[p] = "take" /\ item'[p] = y
      /\ \A q \in Parsers : q # p =>
            /\ ppc'[q] = ppc[q] /\ item'[q] = item[q]
            /\ Busy(q)' <=> Busy(q)
            /\ Reads(q)' <=> Reads(q)
            /\ SlotOf(q)' = SlotOf(q)
      /\ Holders' = Holders \ {p}
      /\ ppc' \in [Parsers -> ParserPCs] /\ item' \in [Parsers -> Items]
  BY <1>0, <1>1, OneParser
<1>3. /\ UNCHANGED <<fpc, flush, indexed, out, lane, computed, reported>>
      /\ Writer' /\ Measured' /\ InWriter' = InWriter
  BY <1>0, WriterStays DEF ParserOnly
<1>4. /\ p \in Holders /\ Busy(p) /\ ~Busy(p)' /\ ~Reads(p)' /\ Past(SlotOf(p))
      /\ SlotOf(p) \in DOMAIN slots /\ ResultOf(p).s = slots[SlotOf(p)].s
  BY <1>0, <1>2 DEF Holders, Busy, Reads, IndexInv, Handing, ResultOf
<1>5. ResultOf(p) \in Parsed
  <2>1. slots[SlotOf(p)] \in Slots
    BY <1>4, SlotNumbers DEF Inv
  <2> QED
    BY <2>1 DEF ResultOf, Parsed, Slots
<1>6. parsedCh \in Seq(Parsed) /\ Injective(parsedCh) /\ Injective(flush.pending)
  BY DEF IndexInv, IndexShape, Distinct
<1>7. /\ parsedCh' \in Seq(Parsed) /\ ToSet(parsedCh') = ToSet(parsedCh) \cup {ResultOf(p)}
  BY <1>0, <1>5, <1>6, SetOfAppend
<1>8. Passing' = Passing \cup {ResultOf(p)}
  BY <1>3, <1>7 DEF Passing
<1>9. \A q \in Passing : q.s # ResultOf(p).s
  BY <1>4, HeldApart
<1>10. \A i : Past(i)' <=> Past(i)
  BY <1>0 DEF Past, Outstanding
<1>11. IndexShape'
  BY <1>0, <1>2, <1>4, <1>7 DEF IndexInv, IndexShape
<1>12. Handing'
  BY <1>0, <1>2, <1>4, <1>10 DEF IndexInv, Handing
<1>13. Distinct'
  <2>1. ResultOf(p) \notin Passing
    BY <1>9
  <2>2. Injective(parsedCh')
    BY <1>0, <1>5, <1>6, <2>1, InjectiveAppend DEF Passing
  <2>3. /\ ToSet(parsedCh') \cap ToSet(flush'.pending) = {}
        /\ InWriter' \cap (ToSet(parsedCh') \cup ToSet(flush'.pending)) = {}
    BY <1>3, <1>7, <2>1 DEF IndexInv, Distinct, Passing
  <2>4. \A q, r \in Passing' : q.s = r.s => q = r
    BY <1>8, <1>9 DEF IndexInv, Distinct
  <2>5. ASSUME NEW r \in Passing'
        PROVE  \E i \in DOMAIN slots' :
                  /\ slots'[i].s = r.s /\ Past(i)'
                  /\ \A q \in Parsers : Busy(q)' => SlotOf(q)' # i
    <3>1. \E i \in DOMAIN slots :
             /\ slots[i].s = r.s /\ Past(i)
             /\ \A q \in Parsers : q # p /\ Busy(q) => SlotOf(q) # i
      <4>1. CASE r \in Passing
        BY <4>1 DEF IndexInv, Distinct
      <4>2. CASE r = ResultOf(p)
        BY <1>4, <4>2 DEF IndexInv, Handing
      <4> QED
        BY <1>8, <4>1, <4>2
    <3> QED
      BY <1>0, <1>2, <1>4, <1>10, <3>1
  <2> QED
    BY <1>3, <1>6, <2>2, <2>3, <2>4, <2>5 DEF Distinct
<1>14. Gate'
  <2>1. \A q \in Holders \ {p} : ResultOf(q)' = ResultOf(q)
    BY <1>0, <1>2 DEF ResultOf, Holders
  <2>2. Held' = Held
    BY <1>2, <1>4, <1>8, <2>1 DEF Held
  <2> QED
    BY <1>0, <2>2, GateSame DEF IndexInv
<1> QED
  BY <1>3, <1>11, <1>12, <1>13, <1>14 DEF IndexInv

----------------------------------------------------------------------------
(* Steps of the write loop and of the metrics stage. *)

\* The parsers see nothing of them but a wake.
LEMMA ParsersStay ==
    ASSUME Inv, IndexInv, UNCHANGED <<staging, item>>,
           ppc' \in [Parsers -> ParserPCs],
           \A p \in Parsers :
              \/ ppc'[p] = ppc[p]
              \/ ppc[p] = "waiting" /\ ppc'[p] = "admit",
           blocked' \in BOOLEAN, parsedCh' \in Seq(Parsed), Passing' \subseteq Passing,
           Injective(parsedCh'), Injective(flush'.pending),
           ToSet(parsedCh') \cap ToSet(flush'.pending) = {},
           InWriter' \cap (ToSet(parsedCh') \cup ToSet(flush'.pending)) = {}
    PROVE  /\ IndexShape' /\ Handing' /\ Distinct'
           /\ Held' = {ResultOf(p) : p \in Holders} \cup Passing'
<1>1. UNCHANGED <<slots, reading, batches, drain, cancelled>>
  BY DEF staging, drainer
<1>2. /\ \A p \in Parsers : /\ Busy(p)' <=> Busy(p)
                            /\ Reads(p)' <=> Reads(p)
                            /\ (ppc'[p] = "send") <=> (ppc[p] = "send")
                            /\ SlotOf(p)' = SlotOf(p)
      /\ Holders' = Holders
  BY DEF Busy, Reads, Holders, SlotOf
<1>3. \A i : Past(i)' <=> Past(i)
  BY <1>1 DEF Past, Outstanding
<1>4. IndexShape'
  BY <1>1, <1>2 DEF IndexInv, IndexShape
<1>5. Handing'
  BY <1>1, <1>2, <1>3 DEF IndexInv, Handing
<1>6. Distinct'
  BY <1>1, <1>2, <1>3 DEF IndexInv, Distinct
<1>7. \A p \in Holders : ResultOf(p)' = ResultOf(p)
  BY <1>1 DEF ResultOf, SlotOf
<1> QED
  BY <1>2, <1>4, <1>5, <1>6, <1>7 DEF Held

\* The step leaves the results where they are.
LEMMA ResultsStay ==
    ASSUME Inv, IndexInv, UNCHANGED <<staging, ppc, item, parsedCh, used>>,
           blocked' \in BOOLEAN,
           flush'.pending = flush.pending, flush'.hand = flush.hand
    PROVE  IndexShape' /\ Handing' /\ Distinct' /\ Gate'
<1>1. Passing' = Passing /\ InWriter' = InWriter
  BY DEF Passing, InWriter
<1>2. ppc' \in [Parsers -> ParserPCs] /\ parsedCh' \in Seq(Parsed)
  BY DEF IndexInv, IndexShape
<1>3. /\ Injective(parsedCh') /\ Injective(flush'.pending)
      /\ ToSet(parsedCh') \cap ToSet(flush'.pending) = {}
      /\ InWriter' \cap (ToSet(parsedCh') \cup ToSet(flush'.pending)) = {}
  BY <1>1 DEF IndexInv, Distinct
<1>4. /\ IndexShape' /\ Handing' /\ Distinct'
      /\ Held' = {ResultOf(p) : p \in Holders} \cup Passing'
  BY <1>1, <1>2, <1>3, ParsersStay
<1>5. Gate'
  BY <1>1, <1>4, GateSame DEF Held, IndexInv
<1> QED
  BY <1>4, <1>5

\* The metrics lane.
LEMMA MetricsSteps ==
    ASSUME Inv, IndexInv, Downstream
    PROVE  IndexInv'
<1>1. UNCHANGED <<staging, ppc, item, parsedCh, used, blocked, fpc, flush, indexed>>
  BY DEF Downstream, Compute, DrainIndexed, LaneExit, RefreshSession, RefreshEnds,
     LaneOnly, writing
<1>2. IndexShape' /\ Handing' /\ Distinct' /\ Gate'
  BY <1>1, ResultsStay DEF IndexInv, IndexShape
<1>3. Writer'
  BY <1>1 DEF IndexInv, Writer
<1>4. cancelled' = cancelled
  BY <1>1 DEF staging
<1>5. Measured'
  <2>1. ToSet(out) \subseteq Sessions /\ <<>> \in Seq(Sessions) /\ ToSet(<<>>) = {}
    BY DEF IndexInv, Measured, ToSet
  <2>2. CASE Compute
    BY <1>1, <1>4, <2>1, <2>2
       DEF IndexInv, Measured, OnItsWay, OverIsOver, Lanes, Compute
  <2>3. CASE DrainIndexed
    <3>1. out' \in Seq(Sessions) /\ UNCHANGED <<lane, computed, reported>> /\ lane = "drain"
      BY <2>3 DEF DrainIndexed, IndexInv, Measured
    <3> QED
      BY <1>1, <1>4, <3>1 DEF IndexInv, Measured, OnItsWay, OverIsOver
  <2>4. CASE LaneExit
    <3>1. /\ out = <<>> /\ fpc = "exit" /\ UNCHANGED <<out, computed, reported>>
          /\ \/ lane = "drain" /\ lane' = "refresh"
             \/ lane = "stream" /\ lane' = "off"
      BY <2>4 DEF LaneExit
    <3>2. ToSet(out) = {} /\ ToSet(flush.emits) = {}
      BY <2>1, <3>1 DEF IndexInv, Writer
    <3> QED
      BY <1>1, <1>4, <3>1, <3>2 DEF IndexInv, Measured, OnItsWay, OverIsOver, Lanes
  <2>5. CASE RefreshSession
    <3>1. /\ lane = "refresh" /\ UNCHANGED <<out, lane>>
          /\ computed' \subseteq Sessions /\ reported' \subseteq Sessions \cup {None}
      BY <2>5 DEF RefreshSession, Due, IndexInv, Measured
    <3> QED
      BY <1>1, <1>4, <3>1 DEF IndexInv, Measured, OnItsWay, OverIsOver
  <2>6. CASE RefreshEnds
    <3>1. /\ lane = "refresh" /\ lane' = "off" /\ UNCHANGED <<out, computed>>
          /\ \/ (Due = {} \/ cancelled) /\ reported' = reported
             \/ reported' = reported \cup {None}
      BY <2>6 DEF RefreshEnds
    <3>2. Due = {} => indexed \subseteq computed \cup reported \cup Outside
      BY DEF Due
    <3> QED
      BY <1>1, <1>4, <3>1, <3>2 DEF IndexInv, Measured, OnItsWay, OverIsOver, Lanes
  <2> QED
    BY <2>2, <2>3, <2>4, <2>5, <2>6 DEF Downstream
<1> QED
  BY <1>2, <1>3, <1>5 DEF IndexInv

\* The fields of the writer's batch.
LEMMA FlushFields ==
    ASSUME IndexInv
    PROVE  /\ flush \in FlushTypes /\ flush.pending \in Seq(Parsed)
           /\ flush.emits \in Seq(Sessions) /\ flush.hand \in Parsed \cup {None}
           /\ None \notin Parsed
           /\ \A h \in Parsed \cup {None} : [flush EXCEPT !.hand = h] \in FlushTypes
           /\ \A q \in Seq(Parsed), h \in Parsed \cup {None} :
                 [flush EXCEPT !.pending = q, !.hand = h] \in FlushTypes
           /\ \A q \in Seq(Parsed), e \in Seq(Sessions) :
                 [flush EXCEPT !.pending = q, !.emits = e] \in FlushTypes
           /\ \A e \in Seq(Sessions) : [flush EXCEPT !.emits = e] \in FlushTypes
<1>1. flush \in FlushTypes /\ None \notin Parsed
  BY NoneAssumption DEF IndexInv, Writer
<1> DEFINE P == Seq(Parsed)
           E == Seq(Sessions)
           H == Parsed \cup {None}
<1>2. FlushTypes = [pending : P, hand : H, emits : E]
  BY DEF FlushTypes
<1> HIDE DEF P, E, H
<1>3. /\ flush.pending \in P /\ flush.emits \in E /\ flush.hand \in H
      /\ \A h \in H : [flush EXCEPT !.hand = h] \in FlushTypes
      /\ \A q \in P, h \in H : [flush EXCEPT !.pending = q, !.hand = h] \in FlushTypes
      /\ \A q \in P, e \in E : [flush EXCEPT !.pending = q, !.emits = e] \in FlushTypes
      /\ \A e \in E : [flush EXCEPT !.emits = e] \in FlushTypes
  BY <1>1, <1>2
<1> QED
  BY <1>1, <1>3 DEF P, E, H

\* The write loop takes a result from the channel.
LEMMA WriterReceives ==
    ASSUME Inv, IndexInv, ReceiveParsed
    PROVE  IndexInv'
<1> USE FlushFields
<1> DEFINE h == Head(parsedCh)
<1>0. /\ fpc = "wait" /\ fpc' = "admit" /\ parsedCh # <<>> /\ parsedCh' = Tail(parsedCh)
      /\ flush' = [flush EXCEPT !.hand = h]
      /\ UNCHANGED <<staging, ppc, item, used, blocked, indexed, out, lane, computed, reported>>
  BY DEF ReceiveParsed, WriterOnly
<1>1. /\ parsedCh \in Seq(Parsed) /\ Injective(parsedCh) /\ blocked \in BOOLEAN
      /\ ppc \in [Parsers -> ParserPCs]
  BY DEF IndexInv, IndexShape, Distinct
<1>2. /\ Tail(parsedCh) \in Seq(Parsed) /\ h \in Parsed
      /\ ToSet(parsedCh) = {h} \cup ToSet(Tail(parsedCh))
  BY <1>0, <1>1, SetOfTail
<1>3. Injective(Tail(parsedCh)) /\ h \notin ToSet(Tail(parsedCh))
  BY <1>0, <1>1, InjectiveTail
<1> HIDE DEF h
<1>4. /\ flush'.hand = h /\ flush'.pending = flush.pending /\ flush'.emits = flush.emits
      /\ flush' \in FlushTypes
  <2>1. flush \in [pending : Seq(Parsed), hand : Parsed \cup {None}, emits : Seq(Sessions)]
    BY DEF FlushTypes
  <2> QED
    BY <1>0, <1>2, <2>1
<1>5. h # None /\ flush.hand = None /\ flush.emits = <<>>
  BY <1>0, <1>2 DEF IndexInv, Writer
<1>6. InWriter' = {h} /\ InWriter = {} /\ Passing' = Passing
  <2>1. InWriter' = {h} /\ InWriter = {}
    BY <1>4, <1>5 DEF InWriter
  <2> QED
    BY <1>0, <1>2, <1>4, <2>1 DEF Passing
<1>7. /\ Injective(flush'.pending) /\ ToSet(parsedCh') \cap ToSet(flush'.pending) = {}
      /\ InWriter' \cap (ToSet(parsedCh') \cup ToSet(flush'.pending)) = {}
  BY <1>0, <1>2, <1>3, <1>4, <1>6, ZenonT(40) DEF IndexInv, Distinct
<1>8. /\ IndexShape' /\ Handing' /\ Distinct'
      /\ Held' = {ResultOf(p) : p \in Holders} \cup Passing'
  BY <1>0, <1>1, <1>2, <1>3, <1>6, <1>7, ParsersStay
<1>9. Gate'
  BY <1>0, <1>6, <1>8, GateSame DEF Held, IndexInv
<1>10. Writer'
  BY <1>0, <1>4, <1>5 DEF Writer, WriterPCs
<1>11. Measured'
  BY <1>0, <1>4 DEF IndexInv, Measured, OnItsWay, OverIsOver, staging
<1> QED
  BY <1>8, <1>9, <1>10, <1>11 DEF IndexInv

\* A flush begins, or the loop ends.
LEMMA WriterFlushes ==
    ASSUME Inv, IndexInv, FlushOnTimer \/ FlushOnBlocked \/ InputClosed
    PROVE  IndexInv'
<1>0. /\ fpc = "wait" /\ flush' = flush /\ blocked' \in BOOLEAN
      /\ UNCHANGED <<staging, ppc, item, parsedCh, used, indexed, out, lane, computed, reported>>
      /\ \/ fpc' = "flush" /\ flush.pending # <<>>
         \/ fpc' = "exit"
  BY DEF FlushOnTimer, FlushOnBlocked, InputClosed, WriterOnly, IndexInv, IndexShape
<1>1. IndexShape' /\ Handing' /\ Distinct' /\ Gate'
  BY <1>0, ResultsStay
<1>2. Writer'
  BY <1>0 DEF IndexInv, Writer, WriterPCs
<1>3. Measured'
  BY <1>0 DEF IndexInv, Measured, OnItsWay, OverIsOver, staging
<1> QED
  BY <1>1, <1>2, <1>3 DEF IndexInv

\* The result in the hand joins the batch, or waits for the batch's flush.
LEMMA WriterAdmits ==
    ASSUME Inv, IndexInv, AdmitParsed
    PROVE  IndexInv'
<1>0. /\ fpc = "admit"
      /\ UNCHANGED <<staging, ppc, item, parsedCh, used, blocked, indexed>>
      /\ UNCHANGED <<out, lane, computed, reported>>
  BY DEF AdmitParsed, WriterOnly
<1>1. /\ flush.hand \in Parsed /\ flush.hand # None /\ flush.emits = <<>>
      /\ flush.pending \in Seq(Parsed) /\ flush \in FlushTypes
  BY <1>0, FlushFields DEF IndexInv, Writer
<1>2. CASE Exceeds(flush.hand.bytes)
  <2>1. fpc' = "flush" /\ flush' = flush
    BY <1>2 DEF AdmitParsed
  <2>2. flush.pending # <<>>
    <3>1. Len(flush.pending) >= BatchSessions => flush.pending # <<>>
      <4>1. flush.pending = <<>> => Len(flush.pending) = 0
        BY <1>1, EmptyIsNoLength
      <4> QED
        BY <4>1, BatchHolds
    <3> QED
      BY <1>2, <3>1 DEF Exceeds
  <2>3. IndexShape' /\ Handing' /\ Distinct' /\ Gate'
    BY <1>0, <2>1, ResultsStay DEF IndexInv, IndexShape
  <2>4. Writer'
    BY <2>1, <2>2 DEF IndexInv, Writer, WriterPCs
  <2>5. Measured'
    BY <1>0, <2>1 DEF IndexInv, Measured, OnItsWay, OverIsOver, staging
  <2> QED
    BY <2>3, <2>4, <2>5 DEF IndexInv
<1>3. CASE ~Exceeds(flush.hand.bytes)
  <2> DEFINE a == Append(flush.pending, flush.hand)
  <2>1. flush' = [flush EXCEPT !.pending = a, !.hand = None] /\ fpc' \in {"flush", "wait"}
    BY <1>3 DEF AdmitParsed
  <2>2. a \in Seq(Parsed) /\ ToSet(a) = ToSet(flush.pending) \cup {flush.hand} /\ a # <<>>
    <3>1. a \in Seq(Parsed) /\ ToSet(a) = ToSet(flush.pending) \cup {flush.hand}
      BY <1>1, SetOfAppend
    <3>2. ToSet(<<>>) = {}
      BY EmptyHoldsNothing
    <3> HIDE DEF a
    <3> QED
      BY <3>1, <3>2, Zenon
  <2>3. InWriter = {flush.hand}
    BY <1>1 DEF InWriter
  <2>4. Injective(flush.pending) /\ flush.hand \notin ToSet(flush.pending)
    BY <2>3 DEF IndexInv, Distinct
  <2>5. Injective(a)
    BY <1>1, <2>4, InjectiveAppend
  <2> HIDE DEF a
  <2>6. /\ flush'.hand = None /\ flush'.pending = a /\ flush'.emits = flush.emits
        /\ flush' \in FlushTypes
    <3>1. flush \in [pending : Seq(Parsed), hand : Parsed \cup {None}, emits : Seq(Sessions)]
      BY <1>1 DEF FlushTypes
    <3> QED
      BY <2>1, <2>2, <3>1 DEF FlushTypes
  <2>7. InWriter' = {} /\ Passing' = Passing
    <3>1. InWriter' = {}
      BY <2>6 DEF InWriter
    <3> QED
      BY <1>0, <2>2, <2>3, <2>6, <3>1 DEF Passing
  <2>8. /\ Injective(flush'.pending) /\ ToSet(parsedCh') \cap ToSet(flush'.pending) = {}
        /\ InWriter' \cap (ToSet(parsedCh') \cup ToSet(flush'.pending)) = {}
        /\ Injective(parsedCh')
    BY <1>0, <2>2, <2>3, <2>5, <2>6, <2>7 DEF IndexInv, Distinct
  <2>9. /\ IndexShape' /\ Handing' /\ Distinct'
        /\ Held' = {ResultOf(p) : p \in Holders} \cup Passing'
    <3>1. /\ ppc' \in [Parsers -> ParserPCs] /\ parsedCh' \in Seq(Parsed)
          /\ blocked' \in BOOLEAN
      BY <1>0 DEF IndexInv, IndexShape
    <3> QED
      BY <1>0, <2>7, <2>8, <3>1, ParsersStay
  <2>10. Gate'
    BY <1>0, <2>7, <2>9, GateSame DEF Held, IndexInv
  <2>11. Writer'
    BY <1>1, <2>1, <2>2, <2>6 DEF Writer, WriterPCs
  <2>12. Measured'
    BY <1>0, <2>1, <2>6 DEF IndexInv, Measured, OnItsWay, OverIsOver, staging
  <2> QED
    BY <2>9, <2>10, <2>11, <2>12 DEF IndexInv
<1> QED
  BY <1>2, <1>3

\* A result of the batch is written or refused, and its bytes come back.
LEMMA WriterWrites ==
    ASSUME Inv, IndexInv, WriteParsed
    PROVE  IndexInv'
<1> DEFINE r == Head(flush.pending)
           t == Tail(flush.pending)
           E(ok) == IF ok THEN Append(flush.emits, r.s) ELSE flush.emits
<1>0. /\ fpc = "flush" /\ UNCHANGED <<staging, item, parsedCh, blocked, out, lane, computed, reported>>
      /\ \E ok \in BOOLEAN :
            /\ flush' = [flush EXCEPT !.pending = t, !.emits = E(ok)]
            /\ fpc' = IF Len(flush.pending) > 1 THEN "flush"
                      ELSE IF E(ok) # <<>> THEN "emit" ELSE AfterFlush
            /\ indexed' = IF ok THEN indexed \cup {r.s} ELSE indexed
            /\ used' = used - r.bytes
            /\ ppc' = [p \in Parsers |->
                         IF ppc[p] = "waiting" /\ r.bytes > 0 THEN "admit" ELSE ppc[p]]
  BY DEF WriteParsed, WriterOnly, BytesFreed
<1>1. PICK ok \in BOOLEAN :
         /\ flush' = [flush EXCEPT !.pending = t, !.emits = E(ok)]
         /\ fpc' = IF Len(flush.pending) > 1 THEN "flush"
                   ELSE IF E(ok) # <<>> THEN "emit" ELSE AfterFlush
         /\ indexed' = IF ok THEN indexed \cup {r.s} ELSE indexed
         /\ used' = used - r.bytes
         /\ ppc' = [p \in Parsers |->
                      IF ppc[p] = "waiting" /\ r.bytes > 0 THEN "admit" ELSE ppc[p]]
  BY <1>0
<1>2. /\ flush.pending \in Seq(Parsed) /\ flush.pending # <<>>
      /\ flush.emits \in Seq(Sessions) /\ flush \in FlushTypes
      /\ flush.hand \in Parsed \cup {None}
  BY <1>0, FlushFields DEF IndexInv, Writer
<1>3. /\ t \in Seq(Parsed) /\ r \in Parsed /\ ToSet(flush.pending) = {r} \cup ToSet(t)
  BY <1>2, SetOfTail
<1>4. Injective(t) /\ r \notin ToSet(t)
  BY <1>2, InjectiveTail DEF IndexInv, Distinct
<1>5. Len(flush.pending) > 1 => t # <<>>
  BY <1>2, TailFilled
<1> HIDE DEF r, t
<1>6. /\ E(ok) \in Seq(Sessions)
      /\ ToSet(E(ok)) = ToSet(flush.emits) \cup (IF ok THEN {r.s} ELSE {})
  <2>1. r.s \in Sessions
    BY <1>3 DEF Parsed
  <2> QED
    BY <1>2, <2>1, SetOfAppend
<1> HIDE DEF E
<1>7. /\ flush'.pending = t /\ flush'.emits = E(ok) /\ flush'.hand = flush.hand
      /\ flush' \in FlushTypes
  <2> DEFINE P == Seq(Parsed)
             S == Seq(Sessions)
             H == Parsed \cup {None}
  <2>1. flush \in [pending : P, hand : H, emits : S] /\ t \in P /\ E(ok) \in S
    BY <1>2, <1>3, <1>6 DEF FlushTypes
  <2> HIDE DEF P, S, H
  <2>2. /\ flush'.pending = t /\ flush'.emits = E(ok) /\ flush'.hand = flush.hand
        /\ flush' \in [pending : P, hand : H, emits : S]
    BY <1>1, <2>1
  <2> QED
    BY <2>2 DEF FlushTypes, P, S, H
<1>8. InWriter' = InWriter /\ r \in Passing /\ Passing' = Passing \ {r}
  <2>1. InWriter' = InWriter
    BY <1>7 DEF InWriter
  <2>2. r \notin ToSet(parsedCh) /\ r \notin InWriter
    BY <1>3 DEF IndexInv, Distinct
  <2> QED
    BY <1>0, <1>3, <1>4, <1>7, <2>1, <2>2 DEF Passing
<1>9. /\ ppc' \in [Parsers -> ParserPCs] /\ parsedCh' \in Seq(Parsed) /\ blocked' \in BOOLEAN
      /\ \A p \in Parsers : \/ ppc'[p] = ppc[p]
                            \/ ppc[p] = "waiting" /\ ppc'[p] = "admit"
  <2>1. ppc \in [Parsers -> ParserPCs] /\ parsedCh \in Seq(Parsed) /\ blocked \in BOOLEAN
    BY DEF IndexInv, IndexShape
  <2> QED
    BY <1>0, <1>1, <2>1 DEF ParserPCs
<1>10. /\ Injective(flush'.pending) /\ ToSet(parsedCh') \cap ToSet(flush'.pending) = {}
       /\ InWriter' \cap (ToSet(parsedCh') \cup ToSet(flush'.pending)) = {}
       /\ Injective(parsedCh')
  BY <1>0, <1>3, <1>4, <1>7, <1>8 DEF IndexInv, Distinct
<1>11. /\ IndexShape' /\ Handing' /\ Distinct'
       /\ Held' = {ResultOf(p) : p \in Holders} \cup Passing'
  BY <1>0, <1>8, <1>9, <1>10, ParsersStay
<1>12. Gate'
  <2>1. \A p \in Holders : ResultOf(p) # r
    <3>1. \A p \in Holders : p \in Parsers /\ Busy(p)
      BY PartsOf DEF Holders
    <3>2. \A p \in Holders : r.s # slots[SlotOf(p)].s
      BY <1>8, <3>1, HeldApart
    <3> QED
      BY <3>2 DEF ResultOf
  <2>2. r \in Held /\ Held' = Held \ {r}
    BY <1>8, <1>11, <2>1 DEF Held
  <2> QED
    BY <1>1, <2>2, GateReleases
<1>13. Writer'
  <2>1. fpc' \in WriterPCs
    BY <1>1 DEF AfterFlush, WriterPCs
  <2>2. fpc' = "flush" => t # <<>>
    BY <1>1, <1>5 DEF AfterFlush
  <2>3. (fpc' = "emit" => E(ok) # <<>>) /\ (fpc' \in {"wait", "admit", "exit"} => E(ok) = <<>>)
    BY <1>1 DEF AfterFlush
  <2>4. (fpc' = "admit" => flush.hand # None) /\ (fpc' = "wait" => flush.hand = None)
    BY <1>1 DEF AfterFlush
  <2> QED
    BY <1>7, <2>1, <2>2, <2>3, <2>4 DEF Writer
<1>14. Measured'
  <2>1. r.s \in Sessions
    BY <1>3 DEF Parsed
  <2>2. cancelled' = cancelled
    BY <1>0 DEF staging
  <2>3. /\ out' \in Seq(Sessions) /\ lane' \in Lanes
        /\ indexed' \subseteq Sessions /\ computed' \subseteq Sessions
        /\ reported' \subseteq Sessions \cup {None}
    BY <1>0, <1>1, <2>1 DEF IndexInv, Measured
  <2>4. ~cancelled' => OnItsWay' /\ OverIsOver'
    BY <1>0, <1>1, <1>6, <1>7, <2>2 DEF IndexInv, Measured, OnItsWay, OverIsOver
  <2> QED
    BY <2>3, <2>4 DEF Measured
<1> QED
  BY <1>11, <1>12, <1>13, <1>14 DEF IndexInv

\* Handing a written session to the metrics lane.
LEMMA WriterEmits ==
    ASSUME Inv, IndexInv, Emit
    PROVE  IndexInv'
<1> DEFINE h == Head(flush.emits)
           t == Tail(flush.emits)
<1>0. /\ fpc = "emit" /\ flush' = [flush EXCEPT !.emits = t]
      /\ fpc' = IF Len(flush.emits) > 1 THEN "emit" ELSE AfterFlush
      /\ UNCHANGED <<staging, ppc, item, parsedCh, used, blocked, indexed, lane, computed, reported>>
      /\ out' = Append(out, h) \/ (cancelled /\ out' = out)
  <2>1. UNCHANGED <<staging, ppc, item, parsedCh, used, blocked, indexed, lane, computed, reported>>
    BY DEF Emit, WriterOnly
  <2>2. out' = Append(out, h) \/ (cancelled /\ out' = out)
    BY DEF Emit
  <2> QED
    BY <2>1, <2>2, Zenon DEF Emit
<1>1. /\ flush.emits # <<>> /\ flush.emits \in Seq(Sessions) /\ flush \in FlushTypes
      /\ out \in Seq(Sessions)
  BY <1>0, FlushFields DEF IndexInv, Writer, Measured
<1>2. /\ t \in Seq(Sessions) /\ h \in Sessions /\ ToSet(flush.emits) = {h} \cup ToSet(t)
  BY <1>1, SetOfTail
<1>3. Len(flush.emits) > 1 <=> t # <<>>
  BY <1>1, TailFilled
<1> HIDE DEF h, t
<1>4. /\ flush'.pending = flush.pending /\ flush'.hand = flush.hand /\ flush'.emits = t
      /\ flush' \in FlushTypes
  <2> DEFINE P == Seq(Parsed)
             S == Seq(Sessions)
             H == Parsed \cup {None}
  <2>1. flush \in [pending : P, hand : H, emits : S] /\ t \in S
    BY <1>1, <1>2 DEF FlushTypes
  <2> HIDE DEF P, S, H
  <2>2. /\ flush'.pending = flush.pending /\ flush'.hand = flush.hand /\ flush'.emits = t
        /\ flush' \in [pending : P, hand : H, emits : S]
    BY <1>0, <2>1
  <2> QED
    BY <2>2 DEF FlushTypes, P, S, H
<1>5. IndexShape' /\ Handing' /\ Distinct' /\ Gate'
  BY <1>0, <1>4, ResultsStay DEF IndexInv, IndexShape
<1>6. Writer'
  <2>1. fpc' \in WriterPCs /\ fpc' # "flush" /\ fpc' # "exit"
    BY <1>0 DEF AfterFlush, WriterPCs
  <2>2. (fpc' = "emit" => t # <<>>) /\ (fpc' \in {"wait", "admit", "exit"} => t = <<>>)
    BY <1>0, <1>3 DEF AfterFlush
  <2>3. (fpc' = "admit" => flush.hand # None) /\ (fpc' = "wait" => flush.hand = None)
    BY <1>0 DEF AfterFlush
  <2> QED
    BY <1>4, <2>1, <2>2, <2>3 DEF Writer
<1>7. Measured'
  <2>1. Append(out, h) \in Seq(Sessions) /\ ToSet(Append(out, h)) = ToSet(out) \cup {h}
    BY <1>1, <1>2, SetOfAppend
  <2>2. cancelled' = cancelled
    BY <1>0 DEF staging
  <2>3. /\ out' \in Seq(Sessions) /\ lane' \in Lanes
        /\ indexed' \subseteq Sessions /\ computed' \subseteq Sessions
        /\ reported' \subseteq Sessions \cup {None}
    BY <1>0, <2>1 DEF IndexInv, Measured
  <2>4. ASSUME ~cancelled
        PROVE  OnItsWay' /\ OverIsOver'
    <3>1. out' = Append(out, h)
      BY <1>0, <2>4
    <3>2. ToSet(out') = ToSet(out) \cup {h}
      BY <2>1, <3>1
    <3> QED
      BY <1>0, <1>2, <1>4, <2>4, <3>2 DEF IndexInv, Measured, OnItsWay, OverIsOver
  <2> QED
    BY <2>2, <2>3, <2>4 DEF Measured
<1> QED
  BY <1>5, <1>6, <1>7 DEF IndexInv

----------------------------------------------------------------------------
(* The invariant and what it says. *)

\* The invariant of the index side holds at the start.
LEMMA IndexInvInit ==
    ASSUME Init
    PROVE  IndexInv
<1>1. /\ ppc = [p \in Parsers |-> "take"]
      /\ item = [p \in Parsers |-> [work |-> None, bytes |-> 0]]
      /\ parsedCh = <<>> /\ used = 0 /\ blocked = FALSE /\ fpc = "wait"
      /\ out = <<>> /\ lane \in Wirings /\ indexed = {} /\ computed = {} /\ reported = {}
      /\ flush = [pending |-> <<>>, hand |-> None, emits |-> <<>>]
  BY DEF Init
<1>2. \A S : <<>> \in Seq(S)
  OBVIOUS
<1>3. flush.pending = <<>> /\ flush.hand = None /\ flush.emits = <<>> /\ flush \in FlushTypes
  BY <1>1, <1>2 DEF FlushTypes
<1>4. \A p \in Parsers : ~Busy(p) /\ ~Reads(p) /\ ppc[p] = "take"
  BY <1>1 DEF Busy, Reads
<1>5. IndexShape
  <2>1. [work |-> None, bytes |-> 0] \in Items /\ "take" \in ParserPCs
    BY DEF Items, ParserPCs
  <2>2. ppc \in [Parsers -> ParserPCs] /\ item \in [Parsers -> Items]
    BY <1>1, <2>1
  <2> QED
    BY <1>1, <1>2, <1>4, <2>2 DEF IndexShape
<1>6. Handing
  BY <1>4 DEF Handing
<1>7. Writer
  BY <1>1, <1>3 DEF Writer, WriterPCs
<1>8. Measured
  BY <1>1, <1>2, <1>3, EmptyHoldsNothing, IndexAssumption
     DEF Measured, OnItsWay, OverIsOver, Lanes
<1>9. InWriter = {} /\ Passing = {}
  BY <1>1, <1>3, EmptyHoldsNothing DEF InWriter, Passing
<1>10. Distinct
  <2>1. Injective(<<>>)
    BY DEF Injective
  <2> QED
    BY <1>1, <1>3, <1>9, <2>1, EmptyHoldsNothing DEF Distinct
<1>11. Gate
  <2>1. Held = {}
    BY <1>4, <1>9 DEF Held, Holders
  <2>2. Tokens({}) = {}
    BY DEF Tokens
  <2>3. IsFiniteSet({}) /\ Cardinality({}) = 0
    BY FS_EmptySet
  <2>4. ~(0 > GateCap)
    <3>1. GateCap \in Nat \ {0}
      BY IndexAssumption
    <3> QED
      BY <3>1
  <2> QED
    BY <1>1, <2>1, <2>2, <2>3, <2>4 DEF Gate
<1> QED
  BY <1>5, <1>6, <1>7, <1>8, <1>10, <1>11 DEF IndexInv

\* With that of the staging it is inductive.
LEMMA IndexInvStep ==
    ASSUME Inv, IndexInv, [Next]_vars
    PROVE  IndexInv'
<1>1. ASSUME NEW p \in Parsers, Parser(p)
      PROVE  IndexInv'
  BY <1>1, ParserTakes, ParserAdmits, ParserCompletes, ParserSends DEF Parser
<1>2. CASE WriteLoop \/ FlushOnTimer
  BY <1>2, WriterReceives, WriterFlushes, WriterAdmits, WriterWrites, WriterEmits
     DEF WriteLoop
<1>3. CASE Downstream
  BY <1>3, MetricsSteps
<1>4. ASSUME (\E w \in Workers : Worker(w)) \/ DrainLoop \/ Cancel \/ UNCHANGED staging,
             UNCHANGED index
      PROVE  IndexInv'
  <2>1. [StagingNext]_staging
    BY <1>4 DEF StagingNext
  <2> QED
    BY <1>4, <2>1, ReadingGrows, BehindStaging
<1>5. CASE \/ \E w \in Workers : StagingStep(Worker(w))
           \/ StagingStep(DrainLoop) \/ StagingStep(Cancel)
  BY <1>4, <1>5 DEF StagingStep
<1>6. CASE Terminated \/ UNCHANGED vars
  BY <1>4, <1>6 DEF Terminated, vars
<1> QED
  BY <1>1, <1>2, <1>3, <1>5, <1>6 DEF Next

\* Both invariants hold in every reachable state: parsers only read slots that
\* are handed over, every result is in one place, the gate counts exactly the
\* bytes held, and what is indexed is measured or on its way to be.
THEOREM IndexInvHolds == Spec => [](Inv /\ IndexInv)
<1>1. Init => Inv /\ IndexInv
  BY InvInit, IndexInvInit DEF Init
<1>2. Inv /\ IndexInv /\ [Next]_vars => (Inv /\ IndexInv)'
  BY InvStep, StagingSteps, IndexInvStep
<1> QED
  BY <1>1, <1>2, PTL DEF Spec

\* Every variable of the pipeline stays in its type; in particular the gate
\* never counts less than nothing.
THEOREM PipelineTypes == Spec => []TypeOK
<1>1. Inv /\ IndexInv => TypeOK
  <2> SUFFICES ASSUME Inv, IndexInv
               PROVE  TypeOK
    OBVIOUS
  <2>1. StagingTypeOK
    BY InvTypes
  <2>2. used \in Nat
    BY FS_CardinalityType DEF IndexInv, Gate
  <2> QED
    BY <2>1, <2>2 DEF IndexInv, IndexShape, Writer, FlushTypes, Measured, Lanes, TypeOK
<1> QED
  BY <1>1, IndexInvHolds, PTL

\* At the end of a run that was not cancelled, whichever way metrics are
\* computed: a session that was indexed has current metrics, or a diagnostic names
\* it or the page it was on, or it started before the run's window.
THEOREM MetricsAreAccounted == Spec => []MetricsAccounted
<1>1. IndexInv => MetricsAccounted
  BY DEF IndexInv, Measured, OverIsOver, MetricsAccounted, Ended
<1> QED
  BY <1>1, IndexInvHolds, PTL

\* Of a sequence of distinct results, only r owns bytes.
LEMMA OwnedOnce ==
    ASSUME NEW q \in Seq(Parsed), Injective(q), NEW r, r.bytes > 0,
           \A x \in ToSet(q) : x.bytes > 0 => x = r
    PROVE  Cardinality(Owned(q)) = IF r \in ToSet(q) THEN 1 ELSE 0
<1>1. \A k \in DOMAIN q : q[k] \in ToSet(q)
  BY DEF ToSet
<1>2. CASE r \in ToSet(q)
  <2>1. PICK k \in DOMAIN q : q[k] = r
    BY <1>2 DEF ToSet
  <2>2. Owned(q) = {k}
    BY <1>1, <2>1 DEF Owned, Injective
  <2> QED
    BY <1>2, <2>2, FS_Singleton
<1>3. CASE r \notin ToSet(q)
  <2>1. Owned(q) = {}
    BY <1>1, <1>3 DEF Owned
  <2> QED
    BY <1>3, <2>1, FS_EmptySet
<1> QED
  BY <1>2, <1>3

\* An oversized result that is alone has at most one owner at the gate.
LEMMA OwnersOnce ==
    ASSUME Inv, IndexInv, NEW r \in Held, Alone(r, Held)
    PROVE  Cardinality(GateOwners) =
              IF r \in {ResultOf(p) : p \in Holders} THEN 1 ELSE 0
<1>1. /\ Holders \subseteq Parsers
      /\ GateOwners = {p \in Holders : item[p].bytes > 0}
      /\ \A p \in Holders : Busy(p) /\ ResultOf(p).bytes = item[p].bytes
                            /\ ResultOf(p).s = slots[SlotOf(p)].s
                            /\ SlotOf(p) \in DOMAIN slots
  BY PartsOf DEF Holders, GateOwners, ResultOf
<1>2. \A p \in GateOwners : ResultOf(p) = r
  BY <1>1 DEF Alone, Held
<1>3. CASE r \in {ResultOf(p) : p \in Holders}
  <2>1. PICK p \in Holders : r = ResultOf(p)
    BY <1>3
  <2>2. \A o \in Holders : ResultOf(o) = ResultOf(p) => o = p
    <3>1. \A i, j \in DOMAIN slots : slots[i].s = slots[j].s => i = j
      BY DEF Inv, OnePlace
    <3> QED
      BY <1>1, <3>1 DEF IndexInv, Handing
  <2>3. p \in GateOwners
    BY <1>1, <2>1 DEF Alone
  <2>4. GateOwners = {p}
    BY <1>1, <1>2, <2>1, <2>2, <2>3
  <2> QED
    BY <1>3, <2>4, FS_Singleton
<1>4. CASE r \notin {ResultOf(p) : p \in Holders}
  <2>1. GateOwners = {}
    BY <1>1, <1>2, <1>4
  <2> QED
    BY <1>4, <2>1, FS_EmptySet
<1> QED
  BY <1>3, <1>4

\* The gate is bounded.
LEMMA InvGateBounded ==
    ASSUME Inv, IndexInv
    PROVE  GateBounded
<1> SUFFICES ASSUME used > GateCap
             PROVE  Cardinality(GateOwners) + Cardinality(Owned(parsedCh))
                      + Cardinality(Owned(flush.pending))
                      + (IF flush.hand # None /\ flush.hand.bytes > 0 THEN 1 ELSE 0) = 1
  BY DEF GateBounded
<1> DEFINE R == {ResultOf(p) : p \in Holders}
<1>1. PICK r \in Held : Alone(r, Held)
  BY DEF IndexInv, Gate
<1>2. r.bytes > 0 /\ \A q \in Held : q.bytes > 0 => q = r
  BY <1>1 DEF Alone
<1>3. Cardinality(GateOwners) = IF r \in R THEN 1 ELSE 0
  BY <1>1, OwnersOnce
<1>4. /\ parsedCh \in Seq(Parsed) /\ flush.pending \in Seq(Parsed)
      /\ Injective(parsedCh) /\ Injective(flush.pending)
  BY PartsOf DEF IndexInv, IndexShape, Distinct
<1>5. Cardinality(Owned(parsedCh)) = IF r \in ToSet(parsedCh) THEN 1 ELSE 0
  BY <1>2, <1>4, OwnedOnce DEF Held, Passing
<1>6. Cardinality(Owned(flush.pending)) = IF r \in ToSet(flush.pending) THEN 1 ELSE 0
  BY <1>2, <1>4, OwnedOnce DEF Held, Passing
<1>7. (IF flush.hand # None /\ flush.hand.bytes > 0 THEN 1 ELSE 0)
         = IF r \in InWriter THEN 1 ELSE 0
  <2>1. CASE flush.hand = None
    BY <2>1 DEF InWriter
  <2>2. CASE flush.hand # None
    <3>1. InWriter = {flush.hand} /\ flush.hand \in Held
      BY <2>2 DEF InWriter, Held, Passing
    <3>2. flush.hand.bytes > 0 <=> r = flush.hand
      BY <1>2, <3>1
    <3> QED
      BY <2>2, <3>1, <3>2
  <2> QED
    BY <2>1, <2>2
<1>8. \A p \in Holders : \A q \in Passing : ResultOf(p) # q
  <2>1. \A p \in Holders : p \in Parsers /\ Busy(p)
    BY PartsOf DEF Holders
  <2>2. \A p \in Holders : \A q \in Passing : q.s # slots[SlotOf(p)].s
    BY <2>1, HeldApart
  <2> QED
    BY <2>2 DEF ResultOf
<1>9. /\ r \in R \cup ToSet(parsedCh) \cup ToSet(flush.pending) \cup InWriter
      /\ R \cap (ToSet(parsedCh) \cup ToSet(flush.pending) \cup InWriter) = {}
      /\ ToSet(parsedCh) \cap ToSet(flush.pending) = {}
      /\ InWriter \cap (ToSet(parsedCh) \cup ToSet(flush.pending)) = {}
  BY <1>1, <1>8 DEF Held, Passing, IndexInv, Distinct
<1> DEFINE A == ToSet(parsedCh)
           B == ToSet(flush.pending)
           W == InWriter
<1> HIDE DEF R, A, B, W
<1>10. (IF r \in R THEN 1 ELSE 0) + (IF r \in A THEN 1 ELSE 0)
          + (IF r \in B THEN 1 ELSE 0) + (IF r \in W THEN 1 ELSE 0) = 1
  BY <1>9 DEF A, B, W
<1> QED
  BY <1>3, <1>5, <1>6, <1>7, <1>10 DEF A, B, W

\* However many candidates the parsers, the channel and the write loop hold
\* together, their bytes stay within the cap of the gate, except for one larger
\* than the cap, which is held alone.
THEOREM GateIsBounded == Spec => []GateBounded
BY InvGateBounded, IndexInvHolds, PTL

==============================================================================
