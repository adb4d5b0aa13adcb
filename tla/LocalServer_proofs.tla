------------------------- MODULE LocalServer_proofs -------------------------
(***************************************************************************)
(* Safety of the local server for every number of connections, topics and  *)
(* requests and every capacity of its channels and buffers.                *)
(***************************************************************************)
EXTENDS LocalServer, TLAPS

(***************************************************************************)
(* What each channel carries, what a snapshot goroutine holds and what a   *)
(* tick has built.                                                         *)
(***************************************************************************)
Subscriptions == [conn : Conns, topics : SUBSET Topics]
Updates == [topic : Topics, data : Payloads]
TaskStates == [topic : Topics, data : Nat \cup {Unread}]
SnapStates == [conn : Conns, todo : SUBSET Topics, have : Updates \cup {None}]

Carried(q) ==
    IF q \in {"register", "unregister"} THEN Conns
    ELSE IF q = "broadcast" THEN Updates ELSE Subscriptions

ChannelsOK ==
    /\ ch = [q \in Queues |-> ch[q]]
    /\ \A q \in Queues : ch[q] \in Seq(Carried(q)) /\ Len(ch[q]) <= QueueCap

ConnsOK ==
    /\ conn \in [Conns -> ConnStates]
    /\ \A c \in Conns : Len(conn[c].writeCh) <= WriteCap

BagOf(B, S) == IsABag(B) /\ BagToSet(B) \subseteq S

StoreOK == data \in Nat /\ storeOpen \in BOOLEAN
RequestsOK == handlers \in [begun : Nat, committed : Nat] /\ BagOf(tasks, TaskStates)
ServingOK ==
    /\ main \in {"serving", "draining", "waiting", "returned", "closed", "exited"}
    /\ result \in {"nil", "deadline", "failed"}
    /\ cancelled \in BOOLEAN /\ listening \in BOOLEAN /\ routed \in BOOLEAN
HubOK ==
    /\ hub \in {"select", "tick", "exited"}
    /\ DOMAIN tick \subseteq Ticked
    /\ tick \in [DOMAIN tick -> Payloads \cup {Unread}]
    /\ (hub = "tick") <=> (DOMAIN tick # {})
    /\ clients \subseteq Conns
PageOK ==
    page \in [want : SUBSET Topics, at : Conns \cup {None},
              view : [Topics -> Payloads \cup {Unread}]]

Typed ==
    /\ StoreOK /\ RequestsOK /\ ServingOK /\ HubOK /\ ChannelsOK /\ ConnsOK
    /\ BagOf(snaps, SnapStates) /\ PageOK
    /\ left \in [Kinds -> Nat]

(***************************************************************************)
(* How far a stop has come: the listeners are closed before the handlers   *)
(* are waited for, these before the tasks, and the tasks before the store  *)
(* is closed, unless the shutdown route or the deadline cut it short.      *)
(***************************************************************************)
NoHandlers == handlers.begun = 0 /\ handlers.committed = 0

Orderly ==
    /\ main # "serving" => ~listening
    /\ main = "serving" /\ ~listening => routed
    /\ ~routed /\ result = "nil" =>
          /\ main \in {"waiting", "returned", "closed"} => NoHandlers
          /\ main \in {"returned", "closed"} => tasks = EmptyBag
    /\ main = "exited" => NoHandlers /\ tasks = EmptyBag
    /\ ~storeOpen => main \in {"closed", "exited"}

----------------------------------------------------------------------------
(* Bags, channels and connections. *)

\* Adding to a bag, taking from it, and the bag of a set.
LEMMA BagAdd ==
    ASSUME NEW S, NEW B, NEW C, BagOf(B, S), BagOf(C, S)
    PROVE  BagOf(B (+) C, S)
<1>1. /\ B \in [DOMAIN B -> {n \in Nat : n > 0}] /\ DOMAIN B \subseteq S
      /\ C \in [DOMAIN C -> {n \in Nat : n > 0}] /\ DOMAIN C \subseteq S
  BY DEF BagOf, IsABag, BagToSet
<1>2. /\ DOMAIN (B (+) C) = DOMAIN B \cup DOMAIN C
      /\ B (+) C \in [DOMAIN B \cup DOMAIN C -> {n \in Nat : n > 0}]
  BY <1>1 DEF (+)
<1> QED
  BY <1>1, <1>2 DEF BagOf, IsABag, BagToSet

\* A set is a bag,
LEMMA BagOne ==
    ASSUME NEW S, NEW T, T \subseteq S
    PROVE  BagOf(SetToBag(T), S)
BY DEF BagOf, IsABag, BagToSet, SetToBag

\* a bag stays one when something is taken,
LEMMA BagTake ==
    ASSUME NEW S, NEW B, NEW x, BagOf(B, S)
    PROVE  BagOf(B (-) One(x), S)
<1>1. B \in [DOMAIN B -> {n \in Nat : n > 0}] /\ DOMAIN B \subseteq S
  BY DEF BagOf, IsABag, BagToSet
<1> DEFINE F == [e \in DOMAIN B |-> IF e \in {x} THEN B[e] - One(x)[e] ELSE B[e]]
           D == {d \in DOMAIN F : F[d] > 0}
<1>2. \A e \in DOMAIN B : F[e] \in Int
  BY <1>1 DEF One, SetToBag
<1>3. B (-) One(x) = [e \in D |-> F[e]]
  BY DEF (-), One, SetToBag
<1>4. D \subseteq S /\ \A d \in D : F[d] \in {n \in Nat : n > 0}
  BY <1>1, <1>2
<1> HIDE DEF F, D
<1> QED
  BY <1>3, <1>4 DEF BagOf, IsABag, BagToSet

\* and the empty bag is one,
LEMMA BagNothing ==
    ASSUME NEW S
    PROVE  BagOf(EmptyBag, S)
BY BagOne DEF EmptyBag

\* with nothing in it.
LEMMA NothingInEmptyBag == BagToSet(EmptyBag) = {}
BY DEF EmptyBag, SetToBag, BagToSet

\* What is put on a channel, and what the hub takes from it.
LEMMA PutOK ==
    ASSUME ChannelsOK, NEW q \in Queues, NEW m \in Carried(q), Put(q, m)
    PROVE  ChannelsOK'
<1>1. ch' = [ch EXCEPT ![q] = Append(ch[q], m)] /\ ~(Len(ch[q]) >= QueueCap)
  BY DEF Put, Full
<1>2. Append(ch[q], m) \in Seq(Carried(q)) /\ ch[q] \in Seq(Carried(q))
  BY DEF ChannelsOK
<1>3. Len(Append(ch[q], m)) = Len(ch[q]) + 1 /\ Len(ch[q]) \in Nat
  BY <1>2
<1>4. Len(Append(ch[q], m)) <= QueueCap
  BY <1>1, <1>3, ConstantsAssumption
<1>5. DOMAIN ch = Queues
  BY DEF ChannelsOK
<1>6. ch'[q] = Append(ch[q], m) /\ \A r \in Queues \ {q} : ch'[r] = ch[r]
  BY <1>1, <1>5
<1>7. ch' = [r \in Queues |-> ch'[r]]
  BY <1>1, <1>5
<1> QED
  BY <1>2, <1>4, <1>6, <1>7 DEF ChannelsOK

\* A receive takes what the channel carries.
LEMMA ReceiveOK ==
    ASSUME ChannelsOK, NEW q \in Queues, Receive(q)
    PROVE  ChannelsOK' /\ Head(ch[q]) \in Carried(q)
<1>1. ch' = [ch EXCEPT ![q] = Tail(ch[q])] /\ ch[q] # <<>>
  BY DEF Receive
<1>2. ch[q] \in Seq(Carried(q)) /\ Len(ch[q]) <= QueueCap
  BY DEF ChannelsOK
<1>3. /\ Tail(ch[q]) \in Seq(Carried(q)) /\ Len(Tail(ch[q])) <= QueueCap
      /\ Head(ch[q]) \in Carried(q)
  BY <1>1, <1>2, ConstantsAssumption
<1>4. DOMAIN ch = Queues
  BY DEF ChannelsOK
<1>5. ch'[q] = Tail(ch[q]) /\ \A r \in Queues \ {q} : ch'[r] = ch[r]
  BY <1>1, <1>4
<1>6. ch' = [r \in Queues |-> ch'[r]]
  BY <1>1, <1>4
<1> QED
  BY <1>3, <1>5, <1>6 DEF ChannelsOK

\* Send keeps within the buffer.
LEMMA SendOK ==
    ASSUME NEW k \in ConnStates, Len(k.writeCh) <= WriteCap, NEW m \in Messages
    PROVE  Send(k, m) \in ConnStates /\ Len(Send(k, m).writeCh) <= WriteCap
<1>1. k.writeCh \in Seq(Messages) /\ Len(k.writeCh) \in Nat
  BY DEF ConnStates
<1>2. /\ Append(k.writeCh, m) \in Seq(Messages)
      /\ Len(Append(k.writeCh, m)) = Len(k.writeCh) + 1
  BY <1>1
<1>3. CASE k.done \/ Len(k.writeCh) >= WriteCap
  BY <1>3 DEF Send
<1>4. CASE ~(k.done \/ Len(k.writeCh) >= WriteCap)
  <2> DEFINE s == Append(k.writeCh, m)
             i == [k EXCEPT !.writeCh = s]
  <2>1. Send(k, m) = i /\ Len(s) <= WriteCap
    BY <1>1, <1>2, <1>4, ConstantsAssumption DEF Send
  <2>2. s \in Seq(Messages)
    BY <1>2
  <2> HIDE DEF s
  <2>3. i \in ConnStates /\ i.writeCh = s
    BY <2>2 DEF ConnStates
  <2> QED
    BY <2>1, <2>3
<1> QED
  BY <1>3, <1>4

\* One connection changes.
LEMMA OneConnOK ==
    ASSUME ConnsOK, NEW c \in Conns, NEW k \in ConnStates,
           Len(k.writeCh) <= WriteCap, conn' = [conn EXCEPT ![c] = k]
    PROVE  ConnsOK'
BY DEF ConnsOK

\* A broadcast keeps the types of the connections.
LEMMA ToSubscribersOK ==
    ASSUME ConnsOK, NEW m \in Messages, conn' = ToSubscribers(m)
    PROVE  ConnsOK'
<1>1. \A c \in Conns : /\ conn[c] \in ConnStates
                       /\ Len(conn[c].writeCh) <= WriteCap
  BY DEF ConnsOK
<1>2. \A c \in Conns : conn'[c] \in {conn[c], Send(conn[c], m)}
  BY DEF ToSubscribers
<1>3. \A c \in Conns : conn'[c] \in ConnStates /\ Len(conn'[c].writeCh) <= WriteCap
  BY <1>1, <1>2, SendOK
<1>4. conn' = [c \in Conns |-> conn'[c]]
  BY DEF ToSubscribers
<1> QED
  BY <1>3, <1>4 DEF ConnsOK

\* A read of the store.
LEMMA ReadOK ==
    ASSUME Typed, NEW p \in {data, Failed}, ReadStore(p)
    PROVE  p \in Payloads /\ left' \in [Kinds -> Nat]
BY DEF Typed, StoreOK, ReadStore, Payloads, Spend, Kinds

\* A bounded event leaves its budget a number.
LEMMA SpendOK ==
    ASSUME Typed, NEW k \in Kinds, Spend(k)
    PROVE  left' \in [Kinds -> Nat]
BY DEF Typed, Spend

----------------------------------------------------------------------------
(* The type invariant. *)

\* Handlers, and what they leave to the background tasks.
LEMMA HandlersTyped ==
    ASSUME Typed, HandlerBegins \/ HandlerStep
    PROVE  Typed'
<1>1. StoreOK /\ RequestsOK /\ left \in [Kinds -> Nat]
  BY DEF Typed
<1>2. UNCHANGED <<serving, hubVars, ch, conn, snaps, page>>
  BY DEF HandlerBegins, HandlerStep, HandlerCommits, HandlerFails, HandlerSpawns
<1>3. handlers \in [begun : Nat, committed : Nat] /\ BagOf(tasks, TaskStates)
  BY <1>1 DEF RequestsOK
<1>4. CASE HandlerBegins
  <2>1. left' \in [Kinds -> Nat]
    BY <1>4, SpendOK DEF HandlerBegins, Kinds
  <2>2. handlers' \in [begun : Nat, committed : Nat]
    BY <1>3, <1>4 DEF HandlerBegins
  <2> QED
    BY <1>2, <1>4, <2>1, <2>2 DEF HandlerBegins, Typed, StoreOK, RequestsOK,
       ServingOK, HubOK, ChannelsOK, ConnsOK, PageOK, store, serving, hubVars
<1>5. CASE HandlerStep
  <2>1. UNCHANGED left
    BY <1>5 DEF HandlerStep, HandlerCommits, HandlerFails, HandlerSpawns
  <2>2. StoreOK'
    BY <1>1, <1>5 DEF HandlerStep, HandlerCommits, HandlerFails, HandlerSpawns,
       StoreOK, store
  <2>3. handlers' \in [begun : Nat, committed : Nat]
    <3>1. CASE HandlerCommits
      <4>1. handlers' = [handlers EXCEPT !.begun = handlers.begun - 1,
                                         !.committed = handlers.committed + 1]
            /\ handlers.begun > 0
        BY <3>1 DEF HandlerCommits
      <4>2. handlers.begun - 1 \in Nat /\ handlers.committed + 1 \in Nat
        BY <1>3, <4>1
      <4> QED
        BY <1>3, <4>1, <4>2
    <3>2. CASE HandlerFails
      BY <1>3, <3>2 DEF HandlerFails
    <3>3. CASE HandlerSpawns
      <4>1. handlers' = [handlers EXCEPT !.committed = handlers.committed - 1]
            /\ handlers.committed > 0
        BY <3>3 DEF HandlerSpawns
      <4> QED
        BY <1>3, <4>1
    <3> QED
      BY <1>5, <3>1, <3>2, <3>3 DEF HandlerStep
  <2>4. BagOf(tasks', TaskStates)
    <3>1. CASE HandlerSpawns
      <4>1. PICK b \in Announcements : tasks' = tasks (+) Spawned(b)
        BY <3>1 DEF HandlerSpawns
      <4>2. /\ b \in [DOMAIN b -> {n \in Nat : n > 0}] /\ BagToSet(b) = DOMAIN b
            /\ DOMAIN b \subseteq Topics
        BY <4>1, ConstantsAssumption DEF IsABag, BagToSet
      <4> DEFINE M == [topic : DOMAIN b, data : {Unread}]
      <4>3. M \subseteq TaskStates /\ \A m \in M : m.topic \in DOMAIN b
        BY <4>2 DEF TaskStates
      <4>4. Spawned(b) = [m \in M |-> b[m.topic]]
        BY <4>2 DEF Spawned
      <4> HIDE DEF M
      <4>5. Spawned(b) \in [M -> {n \in Nat : n > 0}] /\ DOMAIN Spawned(b) = M
        BY <4>2, <4>3, <4>4
      <4>6. BagOf(Spawned(b), TaskStates)
        BY <4>3, <4>5 DEF BagOf, IsABag, BagToSet
      <4> QED
        BY <1>3, <4>1, <4>6, BagAdd
    <3>2. CASE HandlerCommits \/ HandlerFails
      BY <1>3, <3>2 DEF HandlerCommits, HandlerFails
    <3> QED
      BY <1>5, <3>1, <3>2 DEF HandlerStep
  <2> QED
    BY <1>2, <2>1, <2>2, <2>3, <2>4 DEF Typed, RequestsOK,
       ServingOK, HubOK, ChannelsOK, ConnsOK, PageOK, serving, hubVars
<1> QED
  BY <1>4, <1>5

\* Background tasks keep the types.
LEMMA TasksTyped ==
    ASSUME Typed, TaskStep
    PROVE  Typed'
<1>1. PICK t \in BagToSet(tasks) : TaskReads(t) \/ TaskBroadcasts(t)
  BY DEF TaskStep
<1>2. t \in TaskStates /\ BagOf(tasks, TaskStates)
  BY <1>1 DEF Typed, RequestsOK, BagOf
<1>3. UNCHANGED <<store, handlers, serving, hubVars, conn, snaps, page>>
  BY <1>1 DEF TaskReads, TaskBroadcasts
<1>4. BagOf(tasks (-) One(t), TaskStates)
  BY <1>2, BagTake
<1>5. CASE TaskReads(t)
  <2>1. PICK p \in {data, Failed} :
           /\ ReadStore(p)
           /\ tasks' = (tasks (-) One(t)) (+)
                         (IF p = Failed THEN EmptyBag
                          ELSE One([t EXCEPT !.data = p]))
    BY <1>5 DEF TaskReads
  <2>2. left' \in [Kinds -> Nat] /\ p \in Payloads
    BY <2>1, ReadOK
  <2>3. p # Failed => [t EXCEPT !.data = p] \in TaskStates
    BY <1>2, <2>2 DEF TaskStates, Payloads
  <2>4. BagOf(IF p = Failed THEN EmptyBag ELSE One([t EXCEPT !.data = p]),
              TaskStates)
    <3>1. CASE p = Failed
      BY <3>1, BagNothing
    <3>2. CASE p # Failed
      <4>1. {[t EXCEPT !.data = p]} \subseteq TaskStates
        BY <2>3, <3>2
      <4> QED
        BY <3>2, <4>1, BagOne DEF One
    <3> QED
      BY <3>1, <3>2
  <2>5. BagOf(tasks', TaskStates)
    BY <1>4, <2>1, <2>4, BagAdd
  <2> QED
    BY <1>3, <1>5, <2>2, <2>5 DEF TaskReads, Typed, StoreOK, RequestsOK,
       ServingOK, HubOK, ChannelsOK, ConnsOK, PageOK, store, serving, hubVars
<1>6. CASE TaskBroadcasts(t)
  <2>1. t \in Carried("broadcast")
    BY <1>2, <1>6 DEF TaskBroadcasts, TaskStates, Updates, Carried, Payloads
  <2>2. ChannelsOK'
    BY <1>6, <2>1, PutOK DEF TaskBroadcasts, Queues, Typed
  <2>3. BagOf(tasks', TaskStates) /\ UNCHANGED left
    BY <1>4, <1>6 DEF TaskBroadcasts
  <2> QED
    BY <1>3, <2>2, <2>3 DEF Typed, StoreOK, RequestsOK,
       ServingOK, HubOK, ConnsOK, PageOK, store, serving, hubVars
<1> QED
  BY <1>1, <1>5, <1>6

\* Changes of the connections and their subscriptions, one at a time.
LEMMA ConnFields ==
    ASSUME ConnsOK, NEW c \in Conns
    PROVE  /\ conn[c] \in ConnStates /\ Len(conn[c].writeCh) <= WriteCap
           /\ \A d \in BOOLEAN :
                 LET k == [conn[c] EXCEPT !.done = d]
                 IN  k \in ConnStates /\ k.writeCh = conn[c].writeCh
           /\ \A ts \in SUBSET Topics :
                 LET k == [conn[c] EXCEPT !.channels = ts]
                 IN  k \in ConnStates /\ k.writeCh = conn[c].writeCh
           /\ \A s \in Seq(Frames) :
                 LET k == [conn[c] EXCEPT !.socket = s]
                 IN  k \in ConnStates /\ k.writeCh = conn[c].writeCh
BY DEF ConnsOK, ConnStates

\* The cases of the hub's select.
LEMMA HubTyped ==
    ASSUME Typed,
           \/ HubRegister \/ HubUnregister \/ HubSubscribe \/ HubUnsubscribe
           \/ HubBroadcast
    PROVE  Typed'
<1>1. HubOK /\ ChannelsOK /\ ConnsOK /\ BagOf(snaps, SnapStates)
  BY DEF Typed
<1>2. ASSUME NEW q \in Queues, Receive(q), ConnsOK', BagOf(snaps', SnapStates),
             clients' \subseteq Conns
      PROVE  Typed'
  <2>1. ChannelsOK'
    BY <1>1, <1>2, ReceiveOK
  <2>2. UNCHANGED <<store, requests, serving, hub, tick, page, left>>
    BY <1>2 DEF Receive
  <2> QED
    BY <1>2, <2>1, <2>2 DEF Typed, StoreOK, RequestsOK, ServingOK, HubOK, PageOK,
       store, requests, serving
<1>3. ConnsOK /\ UNCHANGED conn => ConnsOK'
  BY DEF ConnsOK
<1>4. {"register", "unregister", "subscribe", "unsubscribe", "broadcast"}
         \subseteq Queues
  BY DEF Queues
<1>5. CASE HubRegister
  <2>1. Receive("register") /\ UNCHANGED <<conn, snaps>>
        /\ clients' = clients \cup {Head(ch["register"])}
    BY <1>5 DEF HubRegister
  <2>2. Head(ch["register"]) \in Conns
    BY <1>1, <1>4, <2>1, ReceiveOK DEF Carried
  <2> QED
    BY <1>1, <1>2, <1>3, <1>4, <2>1, <2>2 DEF HubOK
<1>6. CASE HubUnregister
  <2> DEFINE c == Head(ch["unregister"])
             d == conn[c].done \/ c \in clients
  <2>1. Receive("unregister") /\ UNCHANGED snaps /\ clients' = clients \ {c}
        /\ conn' = [conn EXCEPT ![c].done = d]
    BY <1>6 DEF HubUnregister
  <2>2. c \in Conns
    BY <1>1, <1>4, <2>1, ReceiveOK DEF Carried
  <2> HIDE DEF c
  <2>3. d \in BOOLEAN
    BY <1>1, <2>2, ConnFields DEF ConnStates
  <2> HIDE DEF d
  <2>4. conn' = [conn EXCEPT ![c] = [conn[c] EXCEPT !.done = d]]
    BY <1>1, <2>1, <2>2 DEF ConnsOK
  <2>5. ConnsOK'
    BY <1>1, <2>2, <2>3, <2>4, ConnFields, OneConnOK
  <2> QED
    BY <1>1, <1>2, <1>4, <2>1, <2>5 DEF HubOK
<1>7. CASE HubSubscribe
  <2> DEFINE m == Head(ch["subscribe"])
             ts == conn[m.conn].channels \cup m.topics
             s == [conn |-> m.conn, todo |-> m.topics, have |-> None]
  <2>1. Receive("subscribe") /\ UNCHANGED clients
        /\ conn' = [conn EXCEPT ![m.conn].channels = ts]
        /\ snaps' = snaps (+) One(s)
    BY <1>7 DEF HubSubscribe
  <2>2. m \in Subscriptions
    BY <1>1, <1>4, <2>1, ReceiveOK DEF Carried
  <2> HIDE DEF m
  <2>3. m.conn \in Conns /\ m.topics \subseteq Topics
    BY <2>2 DEF Subscriptions
  <2>4. ts \subseteq Topics
    BY <1>1, <2>3, ConnFields DEF ConnStates
  <2>5. conn' = [conn EXCEPT ![m.conn] = [conn[m.conn] EXCEPT !.channels = ts]]
    BY <1>1, <2>1, <2>3 DEF ConnsOK
  <2>6. {s} \subseteq SnapStates
    BY <2>3 DEF SnapStates
  <2> HIDE DEF ts, s
  <2>7. ConnsOK'
    BY <1>1, <2>3, <2>4, <2>5, ConnFields, OneConnOK, ZenonT(40)
  <2>8. BagOf(snaps', SnapStates)
    BY <1>1, <2>1, <2>6, BagOne, BagAdd DEF One
  <2> QED
    BY <1>1, <1>2, <1>4, <2>1, <2>7, <2>8 DEF HubOK
<1>8. CASE HubUnsubscribe
  <2> DEFINE m == Head(ch["unsubscribe"])
             ts == conn[m.conn].channels \ m.topics
  <2>1. Receive("unsubscribe") /\ UNCHANGED <<clients, snaps>>
        /\ conn' = [conn EXCEPT ![m.conn].channels = ts]
    BY <1>8 DEF HubUnsubscribe
  <2>2. m \in Subscriptions
    BY <1>1, <1>4, <2>1, ReceiveOK DEF Carried
  <2> HIDE DEF m
  <2>3. m.conn \in Conns
    BY <2>2 DEF Subscriptions
  <2>4. ts \subseteq Topics
    BY <1>1, <2>3, ConnFields DEF ConnStates
  <2>5. conn' = [conn EXCEPT ![m.conn] = [conn[m.conn] EXCEPT !.channels = ts]]
    BY <1>1, <2>1, <2>3 DEF ConnsOK
  <2> HIDE DEF ts
  <2>6. ConnsOK'
    BY <1>1, <2>3, <2>4, <2>5, ConnFields, OneConnOK, ZenonT(40)
  <2> QED
    BY <1>1, <1>2, <1>4, <2>1, <2>6 DEF HubOK
<1>9. CASE HubBroadcast
  <2> DEFINE m == Head(ch["broadcast"])
  <2>1. Receive("broadcast") /\ UNCHANGED <<clients, snaps>>
        /\ conn' = ToSubscribers(m)
    BY <1>9 DEF HubBroadcast
  <2>2. m \in Updates
    BY <1>1, <1>4, <2>1, ReceiveOK DEF Carried
  <2> HIDE DEF m
  <2>3. m \in Messages
    BY <2>2 DEF Updates, Messages
  <2>4. ConnsOK'
    BY <1>1, <2>1, <2>3, ToSubscribersOK
  <2> QED
    BY <1>1, <1>2, <1>4, <2>1, <2>4 DEF HubOK
<1> QED
  BY <1>5, <1>6, <1>7, <1>8, <1>9

\* A tick builds its payloads and sends them; the hub may end.
LEMMA TickTyped ==
    ASSUME Typed, HubTick \/ TickStep \/ HubExit
    PROVE  Typed'
<1>1. HubOK /\ ChannelsOK /\ ConnsOK /\ StoreOK
  BY DEF Typed
<1>2. UNCHANGED <<store, requests, serving, snaps, page>>
  BY DEF HubTick, TickStep, TickReads, TickSends, HubExit
<1>3. ASSUME HubOK', ChannelsOK', ConnsOK', left' \in [Kinds -> Nat]
      PROVE  Typed'
  BY <1>2, <1>3 DEF Typed, StoreOK, RequestsOK, ServingOK, PageOK,
     store, requests, serving
<1>4. UNCHANGED ch => ChannelsOK'
  BY <1>1 DEF ChannelsOK
<1>5. UNCHANGED conn => ConnsOK'
  BY <1>1 DEF ConnsOK
<1>6. UNCHANGED left => left' \in [Kinds -> Nat]
  BY DEF Typed
<1>7. CASE HubTick
  <2>1. /\ hub' = "tick" /\ tick' = [t \in Wanted |-> Unread] /\ Wanted # {}
        /\ UNCHANGED <<clients, ch, conn, left>>
    BY <1>7 DEF HubTick
  <2>2. Wanted \subseteq Ticked
    BY DEF Wanted
  <2>3. HubOK'
    <3> HIDE DEF Wanted
    <3> QED
      BY <1>1, <2>1, <2>2 DEF HubOK
  <2> QED
    BY <1>3, <1>4, <1>5, <1>6, <2>1, <2>3
<1>8. ASSUME NEW t \in DOMAIN tick, TickReads(t)
      PROVE  Typed'
  <2>1. PICK p \in {data, Failed} : ReadStore(p) /\ tick' = [tick EXCEPT ![t] = p]
    BY <1>8 DEF TickReads
  <2>2. p \in Payloads /\ left' \in [Kinds -> Nat]
    BY <2>1, ReadOK
  <2>3. UNCHANGED <<hub, clients, ch, conn>>
    BY <1>8 DEF TickReads
  <2>4. HubOK'
    BY <1>1, <2>1, <2>2, <2>3 DEF HubOK
  <2> QED
    BY <1>3, <1>4, <1>5, <2>2, <2>3, <2>4
<1>9. ASSUME NEW t \in DOMAIN tick, TickSends(t)
      PROVE  Typed'
  <2> DEFINE rest == DOMAIN tick \ {t}
             m == [topic |-> t, data |-> tick[t]]
  <2>1. /\ tick' = [u \in rest |-> tick[u]] /\ hub = "tick"
        /\ hub' = IF rest = {} THEN "select" ELSE "tick"
        /\ conn' = ToSubscribers(m)
        /\ UNCHANGED <<clients, ch, left>> /\ tick[t] # Unread
    BY <1>9 DEF TickSends
  <2>2. m \in Messages
    BY <1>1, <1>9, <2>1, ConstantsAssumption DEF HubOK, Messages
  <2> HIDE DEF m
  <2>3. ConnsOK'
    BY <1>1, <2>1, <2>2, ToSubscribersOK
  <2>4. DOMAIN tick' = rest /\ rest \subseteq DOMAIN tick
    BY <2>1
  <2>5. tick' \in [rest -> Payloads \cup {Unread}]
    BY <1>1, <2>1 DEF HubOK
  <2> HIDE DEF rest
  <2>6. HubOK'
    BY <1>1, <2>1, <2>4, <2>5 DEF HubOK
  <2> QED
    BY <1>3, <1>4, <1>6, <2>1, <2>3, <2>6
<1>10. CASE HubExit
  <2>1. /\ hub = "select" /\ hub' = "exited" /\ clients' = {}
        /\ conn' = [c \in Conns |-> [conn[c] EXCEPT !.done = @ \/ c \in clients]]
        /\ ch' = [ch EXCEPT !["unregister"] = <<>>] /\ UNCHANGED <<tick, left>>
    BY <1>10 DEF HubExit
  <2>2. HubOK'
    BY <1>1, <2>1 DEF HubOK
  <2>3. ConnsOK'
    <3>1. \A c \in Conns : /\ conn'[c] \in ConnStates
                           /\ conn'[c].writeCh = conn[c].writeCh
      <4> SUFFICES ASSUME NEW c \in Conns
                   PROVE  /\ conn'[c] \in ConnStates
                          /\ conn'[c].writeCh = conn[c].writeCh
        OBVIOUS
      <4> DEFINE d == conn[c].done \/ c \in clients
      <4>1. conn'[c] = [conn[c] EXCEPT !.done = d]
        BY <2>1
      <4>2. d \in BOOLEAN
        BY <1>1, ConnFields DEF ConnStates
      <4> HIDE DEF d
      <4> QED
        BY <1>1, <4>1, <4>2, ConnFields
    <3>2. conn' \in [Conns -> ConnStates]
      BY <2>1, <3>1
    <3> QED
      BY <1>1, <3>1, <3>2 DEF ConnsOK
  <2>4. ChannelsOK'
    <3>1. DOMAIN ch = Queues
      BY <1>1 DEF ChannelsOK
    <3>2. \A q \in Queues : ch'[q] = IF q = "unregister" THEN <<>> ELSE ch[q]
      BY <2>1, <3>1
    <3>3. ch' = [q \in Queues |-> ch'[q]]
      BY <2>1, <3>1
    <3>4. <<>> \in Seq(Conns) /\ Len(<<>>) <= QueueCap
      BY ConstantsAssumption
    <3>5. \A q \in Queues : ch'[q] \in Seq(Carried(q)) /\ Len(ch'[q]) <= QueueCap
      BY <1>1, <3>2, <3>4 DEF ChannelsOK, Carried
    <3> QED
      BY <3>3, <3>5 DEF ChannelsOK
  <2> QED
    BY <1>3, <1>6, <2>1, <2>2, <2>3, <2>4
<1> QED
  BY <1>7, <1>8, <1>9, <1>10 DEF TickStep

\* Snapshot requests keep the types.
LEMMA SnapshotsTyped ==
    ASSUME Typed, SnapshotStep
    PROVE  Typed'
<1>1. PICK s \in BagToSet(snaps) : SnapshotReads(s) \/ SnapshotSends(s)
  BY DEF SnapshotStep
<1>2. s \in SnapStates /\ BagOf(snaps, SnapStates) /\ ConnsOK
  BY <1>1 DEF Typed, BagOf
<1>3. BagOf(snaps (-) One(s), SnapStates)
  BY <1>2, BagTake
<1>4. UNCHANGED <<store, requests, serving, hubVars, ch, page>>
  BY <1>1 DEF SnapshotReads, SnapshotSends
<1>5. ASSUME BagOf(snaps', SnapStates), ConnsOK', left' \in [Kinds -> Nat]
      PROVE  Typed'
  BY <1>4, <1>5 DEF Typed, StoreOK, RequestsOK, ServingOK, HubOK, ChannelsOK,
     PageOK, store, requests, serving, hubVars
<1>6. CASE SnapshotReads(s)
  <2>1. PICK t \in s.todo, p \in {data, Failed} :
           /\ ReadStore(p)
           /\ snaps' = (snaps (-) One(s)) (+)
                 One([s EXCEPT !.todo = s.todo \ {t},
                               !.have = [topic |-> t, data |-> p]])
    BY <1>6 DEF SnapshotReads
  <2> DEFINE h == [topic |-> t, data |-> p]
             rest == s.todo \ {t}
             u == [s EXCEPT !.todo = rest, !.have = h]
  <2>2. p \in Payloads /\ left' \in [Kinds -> Nat]
    BY <2>1, ReadOK
  <2>3. rest \subseteq Topics /\ t \in Topics
    BY <1>2, <2>1 DEF SnapStates
  <2>4. h \in Updates
    BY <2>2, <2>3 DEF Updates
  <2> HIDE DEF h, rest
  <2>5. {u} \subseteq SnapStates
    BY <1>2, <2>3, <2>4 DEF SnapStates
  <2>6. snaps' = (snaps (-) One(s)) (+) One(u)
    BY <2>1 DEF h, rest
  <2> HIDE DEF u
  <2>7. BagOf(snaps', SnapStates)
    BY <1>3, <2>5, <2>6, BagOne, BagAdd DEF One
  <2>8. ConnsOK'
    BY <1>2, <1>6 DEF SnapshotReads, ConnsOK
  <2> QED
    BY <1>5, <2>2, <2>7, <2>8
<1>7. CASE SnapshotSends(s)
  <2> DEFINE u == [s EXCEPT !.have = None]
             k == Send(conn[s.conn], s.have)
  <2>1. /\ conn' = [conn EXCEPT ![s.conn] = k]
        /\ snaps' = (snaps (-) One(s)) (+)
                    (IF s.todo = {} THEN EmptyBag ELSE One(u))
        /\ s.have # None /\ UNCHANGED left
    BY <1>2, <1>7 DEF SnapshotSends, SnapStates, ConnsOK
  <2>2. s.conn \in Conns /\ s.have \in Messages
    BY <1>2, <2>1 DEF SnapStates, Updates, Messages
  <2>3. conn[s.conn] \in ConnStates /\ Len(conn[s.conn].writeCh) <= WriteCap
    BY <1>2, <2>2 DEF ConnsOK
  <2>4. k \in ConnStates /\ Len(k.writeCh) <= WriteCap
    BY <2>2, <2>3, SendOK
  <2>5. {u} \subseteq SnapStates
    BY <1>2 DEF SnapStates
  <2> HIDE DEF k, u
  <2>6. ConnsOK'
    BY <1>2, <2>1, <2>2, <2>4, OneConnOK
  <2>7. BagOf(IF s.todo = {} THEN EmptyBag ELSE One(u), SnapStates)
    BY <2>5, BagOne, BagNothing DEF One
  <2>8. BagOf(snaps', SnapStates)
    BY <1>3, <2>1, <2>7, BagAdd
  <2> QED
    BY <1>5, <2>1, <2>6, <2>8 DEF Typed
<1> QED
  BY <1>1, <1>6, <1>7

\* The pumps of a connection.
LEMMA PumpsTyped ==
    ASSUME Typed, NEW c \in Conns,
           ReaderForwards(c) \/ ReaderEnds(c) \/ PumpWrites(c) \/ PumpEnds(c)
    PROVE  Typed'
<1>1. ConnsOK /\ ChannelsOK /\ PageOK
  BY DEF Typed
<1>2. UNCHANGED <<store, requests, serving, hubVars, snaps, left>>
  BY DEF ReaderForwards, ReaderEnds, PumpWrites, PumpEnds
<1>3. ASSUME ConnsOK', ChannelsOK', PageOK'
      PROVE  Typed'
  BY <1>2, <1>3 DEF Typed, StoreOK, RequestsOK, ServingOK, HubOK,
     store, requests, serving, hubVars
<1>4. UNCHANGED ch => ChannelsOK'
  BY <1>1 DEF ChannelsOK
<1>5. UNCHANGED page => PageOK'
  BY <1>1 DEF PageOK
<1>6. /\ conn[c] \in ConnStates /\ Len(conn[c].writeCh) <= WriteCap
      /\ DOMAIN conn = Conns
  BY <1>1 DEF ConnsOK
<1>7. conn[c].socket \in Seq(Frames) /\ conn[c].writeCh \in Seq(Messages)
  BY <1>6 DEF ConnStates
<1>8. CASE ReaderForwards(c)
  <2> DEFINE f == Head(conn[c].socket)
             s == Tail(conn[c].socket)
             m == [conn |-> c, topics |-> f.topics]
  <2>1. /\ f.type # "close" /\ Put(f.type, m) /\ conn[c].socket # <<>>
        /\ conn' = [conn EXCEPT ![c].socket = s] /\ UNCHANGED page
    BY <1>8 DEF ReaderForwards
  <2>2. f \in Frames /\ s \in Seq(Frames)
    BY <1>7, <2>1
  <2>3. f.type \in {"subscribe", "unsubscribe"} /\ f.topics \subseteq Topics
    BY <2>1, <2>2 DEF Frames
  <2>4. f.type \in Queues /\ m \in Carried(f.type)
    BY <2>3 DEF Queues, Carried, Subscriptions
  <2> HIDE DEF f, s, m
  <2>5. ChannelsOK'
    BY <1>1, <2>1, <2>4, PutOK
  <2>6. conn' = [conn EXCEPT ![c] = [conn[c] EXCEPT !.socket = s]]
    BY <1>6, <2>1
  <2>7. ConnsOK'
    BY <1>1, <2>2, <2>6, ConnFields, OneConnOK
  <2> QED
    BY <1>3, <1>5, <2>1, <2>5, <2>7
<1>9. CASE ReaderEnds(c)
  <2> DEFINE k == [conn[c] EXCEPT !.reader = "ended", !.socket = <<>>]
  <2>1. /\ Put("unregister", c) \/ UNCHANGED ch
        /\ conn' = [conn EXCEPT ![c].reader = "ended", ![c].socket = <<>>]
        /\ UNCHANGED page
    BY <1>9 DEF ReaderEnds
  <2>2. conn' = [conn EXCEPT ![c] = k]
    BY <1>6, <2>1
  <2>3. k \in ConnStates /\ k.writeCh = conn[c].writeCh
    <3> DEFINE e == <<>>
               l == [conn[c] EXCEPT !.reader = "ended", !.socket = e]
    <3>1. e \in Seq(Frames)
      OBVIOUS
    <3> HIDE DEF e
    <3>2. l \in ConnStates /\ l.writeCh = conn[c].writeCh
      BY <1>6, <3>1 DEF ConnStates
    <3> QED
      BY <3>2 DEF e
  <2> HIDE DEF k
  <2>4. ConnsOK'
    BY <1>1, <1>6, <2>2, <2>3, OneConnOK
  <2>5. c \in Carried("unregister") /\ "unregister" \in Queues
    BY DEF Carried, Queues
  <2>6. ChannelsOK'
    BY <1>1, <1>4, <2>1, <2>5, PutOK
  <2> QED
    BY <1>3, <1>5, <2>1, <2>4, <2>6
<1>10. CASE PumpWrites(c)
  <2> DEFINE m == Head(conn[c].writeCh)
             s == Tail(conn[c].writeCh)
             w == IF page.at = c THEN conn[c].writer ELSE "ended"
             k == [conn[c] EXCEPT !.writeCh = s, !.writer = w]
             v == Shown(m)
  <2>1. /\ conn' = [conn EXCEPT ![c].writeCh = s, ![c].writer = w]
        /\ conn[c].writeCh # <<>> /\ UNCHANGED ch
        /\ page' = IF page.at # c THEN page ELSE [page EXCEPT !.view = v]
    BY <1>10 DEF PumpWrites
  <2>2. m \in Messages /\ s \in Seq(Messages) /\ Len(s) <= WriteCap
    BY <1>6, <1>7, <2>1, ConstantsAssumption
  <2>3. w \in {"none", "running", "ended"}
    BY <1>6 DEF ConnStates
  <2>4. v \in [Topics -> Payloads \cup {Unread}]
    <3>1. page.view \in [Topics -> Payloads \cup {Unread}]
      BY <1>1 DEF PageOK
    <3>2. m.topic \in Topics \cup {None} /\ m.data \in Payloads
      BY <2>2 DEF Messages
    <3> HIDE DEF m
    <3> QED
      BY <3>1, <3>2 DEF Shown
  <2> HIDE DEF m, s, w, v
  <2>5. conn' = [conn EXCEPT ![c] = k]
    BY <1>6, <2>1
  <2>6. k \in ConnStates /\ k.writeCh = s
    BY <1>6, <2>2, <2>3 DEF ConnStates
  <2> HIDE DEF k
  <2>7. ConnsOK'
    BY <1>1, <2>2, <2>5, <2>6, OneConnOK
  <2>8. PageOK'
    BY <1>1, <2>1, <2>4 DEF PageOK
  <2> QED
    BY <1>3, <1>4, <2>1, <2>7, <2>8
<1>11. CASE PumpEnds(c)
  <2> DEFINE k == [conn[c] EXCEPT !.writer = "ended"]
  <2>1. conn' = [conn EXCEPT ![c] = k] /\ UNCHANGED <<ch, page>>
    BY <1>6, <1>11 DEF PumpEnds
  <2>2. k \in ConnStates /\ k.writeCh = conn[c].writeCh
    BY <1>6 DEF ConnStates
  <2> HIDE DEF k
  <2>3. ConnsOK'
    BY <1>1, <1>6, <2>1, <2>2, OneConnOK
  <2> QED
    BY <1>3, <1>4, <1>5, <2>1, <2>3
<1> QED
  BY <1>8, <1>9, <1>10, <1>11

\* What the page sends reaches the socket of its connection.
LEMMA PageSendsOK ==
    ASSUME ConnsOK, NEW f \in Frames, PageSends(f)
    PROVE  ConnsOK'
<1>1. \A c \in Conns : /\ conn[c] \in ConnStates /\ conn[c].socket \in Seq(Frames)
                       /\ Len(conn[c].writeCh) <= WriteCap
  BY DEF ConnsOK, ConnStates
<1>2. \A c \in Conns : Append(conn[c].socket, f) \in Seq(Frames)
  BY <1>1
<1>3. \A c \in Conns :
         \/ conn'[c] = conn[c]
         \/ conn'[c] = [conn[c] EXCEPT !.socket = Append(conn[c].socket, f)]
  BY DEF PageSends
<1>4. \A c \in Conns : conn'[c] \in ConnStates /\ conn'[c].writeCh = conn[c].writeCh
  BY <1>1, <1>2, <1>3, ConnFields, ZenonT(40)
<1>5. conn' = [c \in Conns |-> conn'[c]]
  BY DEF PageSends
<1> QED
  BY <1>1, <1>4, <1>5 DEF ConnsOK

\* The page.
LEMMA PageTyped ==
    ASSUME Typed,
           \/ \E c \in Conns : PageConnects(c)
           \/ \E t \in Topics : PageShows(t) \/ PageHides(t) \/ PageRefreshes(t)
           \/ PageDrops
    PROVE  Typed'
<1>1. ConnsOK /\ ChannelsOK /\ PageOK
  BY DEF Typed
<1>2. UNCHANGED <<store, requests, serving, hubVars, snaps>>
  BY DEF PageConnects, PageShows, PageHides, PageRefreshes, PageDrops
<1>3. left' \in [Kinds -> Nat]
  BY SpendOK DEF PageConnects, PageShows, PageHides, PageRefreshes, PageDrops, Kinds
<1>4. ASSUME ConnsOK', ChannelsOK', PageOK'
      PROVE  Typed'
  BY <1>2, <1>3, <1>4 DEF Typed, StoreOK, RequestsOK, ServingOK, HubOK,
     store, requests, serving, hubVars
<1>5. UNCHANGED ch => ChannelsOK'
  BY <1>1 DEF ChannelsOK
<1>6. DOMAIN conn = Conns
  BY <1>1 DEF ConnsOK
<1>7. ASSUME NEW c \in Conns, PageConnects(c) PROVE Typed'
  <2> DEFINE n == Send(NewConn, Hello)
             k == [n EXCEPT !.reader = "reading", !.writer = "running",
                            !.socket = OnOpen]
  <2>1. Put("register", c) /\ conn' = [conn EXCEPT ![c] = k]
        /\ page' = [page EXCEPT !.at = c]
    BY <1>7 DEF PageConnects
  <2>2. NewConn \in ConnStates /\ Len(NewConn.writeCh) <= WriteCap
    BY ConstantsAssumption DEF NewConn, ConnStates
  <2>3. Hello \in Messages
    BY DEF Hello, Messages, Payloads
  <2>4. n \in ConnStates /\ Len(n.writeCh) <= WriteCap
    BY <2>2, <2>3, SendOK
  <2>5. OnOpen \in Seq(Frames)
    <3>1. page.want \subseteq Topics
      BY <1>1 DEF PageOK
    <3>2. Frame("subscribe", page.want) \in Frames
      BY <3>1 DEF Frame, Frames
    <3> QED
      BY <3>2 DEF OnOpen
  <2> HIDE DEF n
  <2>6. k \in ConnStates /\ k.writeCh = n.writeCh
    BY <2>4, <2>5 DEF ConnStates
  <2> HIDE DEF k
  <2>7. ConnsOK'
    BY <1>1, <2>1, <2>4, <2>6, OneConnOK
  <2>8. c \in Carried("register") /\ "register" \in Queues
    BY DEF Carried, Queues
  <2>9. ChannelsOK'
    BY <1>1, <2>1, <2>8, PutOK
  <2>10. PageOK'
    BY <1>1, <2>1 DEF PageOK
  <2> QED
    BY <1>4, <2>7, <2>9, <2>10
<1>8. ASSUME NEW t \in Topics, PageShows(t) \/ PageHides(t) \/ PageRefreshes(t)
      PROVE  Typed'
  <2>1. \E f \in Frames : PageSends(f)
    BY <1>8 DEF PageShows, PageHides, PageRefreshes, Frame, Frames
  <2>2. ConnsOK'
    BY <1>1, <2>1, PageSendsOK
  <2>3. PageOK'
    BY <1>1, <1>8 DEF PageShows, PageHides, PageRefreshes, PageOK
  <2>4. UNCHANGED ch
    BY <1>8 DEF PageShows, PageHides, PageRefreshes
  <2> QED
    BY <1>4, <1>5, <2>2, <2>3, <2>4
<1>9. CASE PageDrops
  <2> DEFINE c == page.at
  <2>1. PICK kept \in {conn[c].socket, <<>>} :
           conn' = [conn EXCEPT ![c].socket = Append(kept, Frame("close", {}))]
    BY <1>9 DEF PageDrops
  <2>2. c \in Conns
    BY <1>1, <1>9 DEF PageDrops, PageOK
  <2>3. conn[c].socket \in Seq(Frames)
    BY <1>1, <2>2 DEF ConnsOK, ConnStates
  <2>4. Frame("close", {}) \in Frames
    BY DEF Frame, Frames
  <2>5. Append(kept, Frame("close", {})) \in Seq(Frames)
    <3>1. ASSUME NEW f \in Frames, NEW s \in Seq(Frames)
          PROVE  Append(s, f) \in Seq(Frames)
      OBVIOUS
    <3>2. <<>> \in Seq(Frames)
      OBVIOUS
    <3>3. kept = conn[c].socket \/ kept = <<>>
      BY <2>1
    <3> QED
      BY <2>3, <2>4, <3>1, <3>2, <3>3
  <2> HIDE DEF c
  <2>6. conn' = [conn EXCEPT ![c] =
                   [conn[c] EXCEPT !.socket = Append(kept, Frame("close", {}))]]
    BY <1>6, <2>1, <2>2
  <2>7. ConnsOK'
    BY <1>1, <2>2, <2>5, <2>6, ConnFields, OneConnOK
  <2>8. PageOK' /\ UNCHANGED ch
    BY <1>1, <1>9 DEF PageDrops, PageOK
  <2> QED
    BY <1>4, <1>5, <2>7, <2>8
<1> QED
  BY <1>7, <1>8, <1>9

\* Stopping, and the store changed by another process.
LEMMA MainTyped ==
    ASSUME Typed,
           \/ MainStep \/ HarvestElsewhere \/ Signal \/ ShutdownRoute
           \/ ListenerFails \/ GraceExpires
    PROVE  Typed'
<1>1. /\ StoreOK /\ RequestsOK /\ ServingOK /\ HubOK /\ ChannelsOK /\ ConnsOK
      /\ BagOf(snaps, SnapStates) /\ PageOK /\ left \in [Kinds -> Nat]
  BY DEF Typed
<1>2. CASE ProcessExits
  <2>1. /\ main' = "exited" /\ cancelled' = TRUE /\ hub' = "exited"
        /\ handlers' = [begun |-> 0, committed |-> 0] /\ tasks' = EmptyBag
        /\ tick' = <<>> /\ clients' = {} /\ snaps' = EmptyBag
        /\ page' = [page EXCEPT !.at = None]
        /\ UNCHANGED <<store, result, listening, routed, ch, left>>
    BY <1>2 DEF ProcessExits
  <2>2. conn' = [c \in Conns |-> [conn[c] EXCEPT !.reader = "ended",
                                                !.writer = "ended"]]
    BY <1>2 DEF ProcessExits
  <2>3. StoreOK' /\ ServingOK'
    BY <1>1, <2>1 DEF StoreOK, ServingOK, store
  <2>4. RequestsOK' /\ BagOf(snaps', SnapStates)
    BY <2>1, BagNothing DEF RequestsOK
  <2>5. HubOK'
    <3>1. DOMAIN tick' = {} /\ tick' \in [DOMAIN tick' -> Payloads \cup {Unread}]
      BY <2>1
    <3> QED
      BY <2>1, <3>1 DEF HubOK
  <2>6. ChannelsOK' /\ PageOK'
    BY <1>1, <2>1 DEF ChannelsOK, PageOK
  <2>7. \A c \in Conns : conn'[c] \in ConnStates /\ conn'[c].writeCh = conn[c].writeCh
    BY <1>1, <2>2 DEF ConnsOK, ConnStates
  <2>8. conn' \in [Conns -> ConnStates]
    BY <2>2, <2>7
  <2>9. ConnsOK'
    BY <1>1, <2>7, <2>8 DEF ConnsOK
  <2> QED
    BY <1>1, <2>1, <2>3, <2>4, <2>5, <2>6, <2>9 DEF Typed
<1>3. CASE \/ ServeCancelled \/ ServeClosed \/ Drained \/ TasksAwaited
           \/ StoreCloses \/ HarvestElsewhere \/ Signal \/ ShutdownRoute
           \/ ListenerFails \/ GraceExpires
  <2>1. UNCHANGED Rest
    BY <1>3 DEF ServeCancelled, ServeClosed, Drained, TasksAwaited, StoreCloses,
       HarvestElsewhere, Signal, ShutdownRoute, ListenerFails, GraceExpires, Rest
  <2>2. left' \in [Kinds -> Nat]
    <3>1. UNCHANGED left \/ \E k \in Kinds : Spend(k)
      BY <1>3 DEF ServeCancelled, ServeClosed, Drained, TasksAwaited,
         StoreCloses, HarvestElsewhere, Signal, ShutdownRoute, ListenerFails,
         GraceExpires, Kinds
    <3> QED
      BY <1>1, <3>1, SpendOK
  <2>3. StoreOK'
    <3>1. /\ data' = data \/ data' = data + 1
          /\ storeOpen' = storeOpen \/ storeOpen' = FALSE
      BY <1>3 DEF ServeCancelled, ServeClosed, Drained, TasksAwaited,
         StoreCloses, HarvestElsewhere, Signal, ShutdownRoute, ListenerFails,
         GraceExpires, store
    <3>2. data' \in Nat
      BY <1>1, <3>1 DEF StoreOK
    <3>3. storeOpen' \in BOOLEAN
      BY <1>1, <3>1, Zenon DEF StoreOK
    <3> QED
      BY <3>2, <3>3 DEF StoreOK
  <2>4. ServingOK'
    <3>1. CASE HarvestElsewhere \/ Signal \/ ShutdownRoute
      BY <1>1, <3>1 DEF HarvestElsewhere, Signal, ShutdownRoute, ServingOK, serving
    <3>2. CASE ListenerFails \/ GraceExpires \/ ServeCancelled
      BY <1>1, <3>2 DEF ListenerFails, GraceExpires, ServeCancelled, ServingOK
    <3>3. CASE ServeClosed \/ Drained \/ TasksAwaited \/ StoreCloses
      BY <1>1, <3>3 DEF ServeClosed, Drained, TasksAwaited, StoreCloses, ServingOK
    <3> QED
      BY <1>3, <3>1, <3>2, <3>3
  <2> QED
    BY <1>1, <2>1, <2>2, <2>3, <2>4 DEF Typed, Rest, RequestsOK, HubOK, ChannelsOK,
       ConnsOK, PageOK, requests, hubVars
<1> QED
  BY <1>2, <1>3 DEF MainStep

\* The strengthened type invariant holds at the start,
LEMMA TypedInit ==
    ASSUME Init
    PROVE  Typed
<1>1. StoreOK /\ ServingOK
  BY DEF Init, StoreOK, ServingOK
<1>2. RequestsOK /\ BagOf(snaps, SnapStates)
  BY BagNothing DEF Init, RequestsOK
<1>3. HubOK
  <2>1. tick = <<>> /\ hub = "select" /\ clients = {}
    BY DEF Init
  <2>2. DOMAIN tick = {} /\ tick \in [DOMAIN tick -> Payloads \cup {Unread}]
    BY <2>1
  <2> QED
    BY <2>1, <2>2 DEF HubOK
<1>4. ChannelsOK
  <2>1. ch = [q \in Queues |-> <<>>]
    BY DEF Init
  <2>2. \A q \in Queues : <<>> \in Seq(Carried(q)) /\ Len(<<>>) <= QueueCap
    BY ConstantsAssumption
  <2> QED
    BY <2>1, <2>2 DEF ChannelsOK
<1>5. NewConn \in ConnStates /\ NewConn.writeCh = <<>>
  BY DEF NewConn, ConnStates
<1>6. ConnsOK
  <2>1. conn = [c \in Conns |-> NewConn] /\ Len(<<>>) <= WriteCap
    BY ConstantsAssumption DEF Init
  <2> QED
    BY <1>5, <2>1 DEF ConnsOK
<1>7. PageOK
  <2>1. page \in [want : Openings, at : {None}, view : {[t \in Topics |-> Unread]}]
    BY DEF Init
  <2>2. [t \in Topics |-> Unread] \in [Topics -> Payloads \cup {Unread}]
    OBVIOUS
  <2> QED
    BY <2>1, <2>2, ConstantsAssumption DEF PageOK
<1>8. left \in [Kinds -> Nat]
  BY ConstantsAssumption DEF Init
<1> QED
  BY <1>1, <1>2, <1>3, <1>4, <1>6, <1>7, <1>8 DEF Typed

\* is kept by every step,
LEMMA TypedStep ==
    ASSUME Typed, [Next]_vars
    PROVE  Typed'
<1>1. CASE UNCHANGED vars
  BY <1>1 DEF vars, Typed, StoreOK, RequestsOK, ServingOK, HubOK, ChannelsOK,
     ConnsOK, PageOK, store, requests, serving, hubVars
<1>2. CASE Next
  BY <1>2, HandlersTyped, TasksTyped, HubTyped, TickTyped, SnapshotsTyped,
     PumpsTyped, PageTyped, MainTyped DEF Next, Environment
<1> QED
  BY <1>1, <1>2

\* and implies the one the run checks.
LEMMA TypedImpliesTypeOK ==
    ASSUME Typed
    PROVE  TypeOK
BY DEF Typed, StoreOK, RequestsOK, ServingOK, HubOK, ChannelsOK, ConnsOK, PageOK,
   BagOf, TaskStates, TypeOK

(***************************************************************************)
(* The type invariant.  Its bounds say that no channel of the hub and no   *)
(* write buffer ever holds more than its capacity (Conn.Send drops what    *)
(* does not fit, the senders of the channels block), for every capacity    *)
(* and every number of connections.                                        *)
(***************************************************************************)
THEOREM TypeCorrect == Spec => []TypeOK
<1>1. Spec => []Typed
  BY TypedInit, TypedStep, PTL DEF Spec
<1> QED
  BY <1>1, TypedImpliesTypeOK, PTL

----------------------------------------------------------------------------
(* The store outlives the background tasks. *)

\* The order of the shutdown holds at the start,
LEMMA OrderlyInit ==
    ASSUME Init
    PROVE  Orderly
BY DEF Init, Orderly

\* A handler begins only while the listeners are open; a task only comes from a
\* handler.
LEMMA RequestsOrderly ==
    ASSUME Typed, Orderly, HandlerBegins \/ HandlerStep \/ TaskStep
    PROVE  Orderly'
<1>1. UNCHANGED <<main, result, routed, listening, storeOpen>>
  BY DEF HandlerBegins, HandlerStep, HandlerCommits, HandlerFails, HandlerSpawns,
     TaskStep, TaskReads, TaskBroadcasts, serving, store
<1>2. handlers \in [begun : Nat, committed : Nat]
  BY DEF Typed, RequestsOK
<1>3. CASE HandlerBegins
  BY <1>1, <1>3 DEF HandlerBegins, Orderly
<1>4. CASE HandlerStep
  <2>1. ~NoHandlers
    BY <1>4 DEF HandlerStep, HandlerCommits, HandlerFails, HandlerSpawns, NoHandlers
  <2> QED
    BY <1>1, <2>1 DEF Orderly
<1>5. CASE TaskStep
  <2>1. tasks # EmptyBag
    BY <1>5, NothingInEmptyBag DEF TaskStep
  <2>2. UNCHANGED handlers
    BY <1>5 DEF TaskStep, TaskReads, TaskBroadcasts
  <2> QED
    BY <1>1, <2>1, <2>2 DEF Orderly, NoHandlers
<1> QED
  BY <1>3, <1>4, <1>5

\* Serve and runWebForeground on their way down.
LEMMA MainOrderly ==
    ASSUME Typed, Orderly,
           \/ MainStep \/ HarvestElsewhere \/ Signal \/ ShutdownRoute
           \/ ListenerFails \/ GraceExpires
    PROVE  Orderly'
<1>1. handlers \in [begun : Nat, committed : Nat]
  BY DEF Typed, RequestsOK
<1>2. CASE HarvestElsewhere \/ Signal \/ ShutdownRoute
  BY <1>2 DEF HarvestElsewhere, Signal, ShutdownRoute, Orderly, NoHandlers, Rest,
     requests, serving, store
<1>3. CASE ServeCancelled \/ ListenerFails \/ GraceExpires
  BY <1>3 DEF ServeCancelled, ListenerFails, GraceExpires, Orderly, NoHandlers,
     Rest, requests, store
<1>4. CASE Drained
  <2>1. NoHandlers
    BY <1>1, <1>4 DEF Drained, NoHandlers
  <2> QED
    BY <1>4, <2>1 DEF Drained, Orderly, NoHandlers, Rest, requests, store
<1>5. CASE ServeClosed \/ TasksAwaited \/ StoreCloses
  BY <1>5 DEF ServeClosed, TasksAwaited, StoreCloses, Orderly, NoHandlers, Rest,
     requests, store
<1>6. CASE ProcessExits
  BY <1>6 DEF ProcessExits, Orderly, NoHandlers, store
<1> QED
  BY <1>2, <1>3, <1>4, <1>5, <1>6 DEF MainStep

\* is kept by every step,
LEMMA OrderlyStep ==
    ASSUME Typed, Orderly, [Next]_vars
    PROVE  Orderly'
<1>1. ASSUME UNCHANGED <<store, requests, serving>>
      PROVE  Orderly'
  BY <1>1 DEF store, requests, serving, Orderly, NoHandlers
<1>2. CASE UNCHANGED vars
  BY <1>1, <1>2 DEF vars
<1>3. CASE SnapshotStep \/ TickStep \/ HubTick \/ HubExit
  BY <1>1, <1>3 DEF SnapshotStep, SnapshotReads, SnapshotSends, TickStep,
     TickReads, TickSends, HubTick, HubExit
<1>4. CASE \/ HubRegister \/ HubUnregister \/ HubSubscribe \/ HubUnsubscribe
           \/ HubBroadcast
  BY <1>1, <1>4 DEF HubRegister, HubUnregister, HubSubscribe, HubUnsubscribe,
     HubBroadcast, Receive
<1>5. CASE \E c \in Conns : \/ ReaderForwards(c) \/ ReaderEnds(c)
                            \/ PumpWrites(c) \/ PumpEnds(c) \/ PageConnects(c)
  BY <1>1, <1>5 DEF ReaderForwards, ReaderEnds, PumpWrites, PumpEnds, PageConnects
<1>6. CASE PageDrops \/ \E t \in Topics : \/ PageShows(t) \/ PageHides(t)
                                          \/ PageRefreshes(t)
  BY <1>1, <1>6 DEF PageDrops, PageShows, PageHides, PageRefreshes
<1> QED
  BY <1>2, <1>3, <1>4, <1>5, <1>6, RequestsOrderly, MainOrderly
     DEF Next, Environment

\* and implies that the store outlives its tasks.
LEMMA OrderlyImpliesOutlives ==
    ASSUME Typed, Orderly
    PROVE  StoreOutlivesTasks
BY DEF Typed, Orderly, NoHandlers, StoreOutlivesTasks

(***************************************************************************)
(* A server that was stopped by its context and reports a clean stop has   *)
(* let every handler and every background task finish before its store is  *)
(* closed (Server.Shutdown and the WaitGroup behind spawnBackground).      *)
(***************************************************************************)
THEOREM StopIsOrderly == Spec => []StoreOutlivesTasks
<1>1. Spec => [](Typed /\ Orderly)
  BY TypedInit, TypedStep, OrderlyInit, OrderlyStep, PTL DEF Spec
<1> QED
  BY <1>1, OrderlyImpliesOutlives, PTL
=============================================================================
