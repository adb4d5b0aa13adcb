----------------------------- MODULE LocalServer -----------------------------
(***************************************************************************)
(* `peasant web`: the local HTTP server, its WebSocket hub and one page.   *)
(*                                                                         *)
(* Request handlers change the store and leave a tracked background task   *)
(* that broadcasts the new data.  One hub goroutine owns the connections   *)
(* and is fed through five bounded channels, whose order between each      *)
(* other Go's select does not keep.  A connection has a read pump, a write *)
(* pump with a bounded buffer that drops what does not fit, and snapshot   *)
(* goroutines.  The command closes the store when Serve has returned.      *)
(* A payload is the version of the store it was built from.                *)
(***************************************************************************)
EXTENDS Integers, Sequences, Bags, FiniteSets

CONSTANTS
    Conns,          \* connections the page may open, one after the other
    Topics,         \* channel topics
    Ticked,         \* topics rebuilt on every tick; the others are event-driven
    Announcements,  \* what a mutation handler announces: bags of topics, with one
                    \* copy of a topic for every session it is about
    Openings,       \* the sets of topics a page may open on
    None,
    QueueCap,       \* capacity of each channel of the hub
    WriteCap,       \* capacity of a connection's write channel
    Budgets         \* the bounds, by kind, on what the environment may do in a
                    \* behaviour

Kinds == {"write", "harvest", "connect", "switch", "drop", "fault", "signal",
          "route", "slow"}

ASSUME ConstantsAssumption ==
    /\ Ticked \subseteq Topics
    /\ \A b \in Announcements : IsABag(b) /\ BagToSet(b) \subseteq Topics \ Ticked
    /\ Openings \subseteq SUBSET Topics
    /\ None \notin Conns \cup Topics
    /\ {QueueCap, WriteCap} \subseteq Nat \ {0}
    /\ Budgets \subseteq [Kinds -> Nat]

Failed == -1    \* a read that returned an error
Unread == -2    \* not read yet
Payloads == Nat \cup {Failed}
Messages == [topic : Topics \cup {None}, data : Payloads]
Hello == [topic |-> None, data |-> 0]
Queues == {"register", "unregister", "subscribe", "unsubscribe", "broadcast"}
\* A message of the page: "subscribe" or "unsubscribe" with topics, or the end
\* of the stream.
Frames == [type : {"subscribe", "unsubscribe", "close"}, topics : SUBSET Topics]

VARIABLES
    data,       \* version of the store's content
    storeOpen,  \* the analytics store is open
    handlers,   \* mutation handlers in flight, by what they have done
    tasks,      \* bag of tracked background tasks: topic and what they read
    main,       \* where runWebForeground and Serve are
    result,     \* what Serve returned: "nil", "deadline" or "failed"
    cancelled,  \* the serve context is done
    listening,  \* the listeners are open
    routed,     \* the shutdown route has started its own Shutdown
    hub,        \* the hub goroutine
    tick,       \* the payloads the running tick has built, by topic
    ch,         \* the hub's channels
    clients,    \* the hub's connections
    conn,       \* per connection: pumps, done, subscriptions, queues
    snaps,      \* bag of snapshot goroutines
    page,       \* the page: topics it shows, its connection, what it shows
    left        \* what is left of the environment's budget

store == <<data, storeOpen>>
requests == <<handlers, tasks>>
serving == <<main, result, cancelled, listening, routed>>
hubVars == <<hub, tick, clients>>
vars == <<store, requests, serving, hubVars, ch, conn, snaps, page, left>>

NewConn == [reader |-> "none", writer |-> "none", done |-> FALSE,
            channels |-> {}, writeCh |-> <<>>, socket |-> <<>>]

Init ==
    /\ data = 0 /\ storeOpen = TRUE
    /\ handlers = [begun |-> 0, committed |-> 0] /\ tasks = EmptyBag
    /\ main = "serving" /\ result = "nil" /\ cancelled = FALSE
    /\ listening = TRUE /\ routed = FALSE
    /\ hub = "select" /\ tick = <<>> /\ clients = {}
    /\ ch = [q \in Queues |-> <<>>]
    /\ conn = [c \in Conns |-> NewConn]
    /\ snaps = EmptyBag
    /\ page \in [want : Openings, at : {None}, view : {[t \in Topics |-> Unread]}]
    /\ left \in Budgets

----------------------------------------------------------------------------
(* Building blocks. *)

Spend(kind) == left[kind] > 0 /\ left' = [left EXCEPT ![kind] = @ - 1]

\* A read of the store returns its version; it fails when the store is closed,
\* may be interrupted by the cancelled context, and may fail by itself.
ReadStore(p) ==
    \/ storeOpen /\ p = data /\ UNCHANGED left
    \/ (cancelled \/ ~storeOpen) /\ p = Failed /\ UNCHANGED left
    \/ p = Failed /\ Spend("fault")

\* Mutant: one message too many is buffered.
SendOverfills(k, m) ==
    IF k.done \/ Len(k.writeCh) > WriteCap THEN k
    ELSE [k EXCEPT !.writeCh = Append(@, m)]

\* Conn.Send: dropped on a connection torn down or with a full buffer.  The
\* notice about a dropped message carries no data and is left out.
Send(k, m) ==
    IF k.done \/ Len(k.writeCh) >= WriteCap THEN k
    ELSE [k EXCEPT !.writeCh = Append(@, m)]

\* A send of m to every registered connection that is subscribed to its topic.
ToSubscribers(m) ==
    [c \in Conns |-> IF c \in clients /\ m.topic \in conn[c].channels
                     THEN Send(conn[c], m) ELSE conn[c]]

Full(q) == Len(ch[q]) >= QueueCap
Put(q, m) == ~Full(q) /\ ch' = [ch EXCEPT ![q] = Append(@, m)]

One(x) == SetToBag({x})

----------------------------------------------------------------------------
(* Request handlers and their background tasks. *)

HandlerBegins ==
    /\ listening
    /\ Spend("write")
    /\ handlers' = [handlers EXCEPT !.begun = @ + 1]
    /\ UNCHANGED <<store, tasks, serving, hubVars, ch, conn, snaps, page>>

\* CreateAnnotation or BatchCreateAnnotations commits.
HandlerCommits ==
    /\ handlers.begun > 0
    /\ storeOpen
    /\ data' = data + 1
    /\ handlers' = [handlers EXCEPT !.begun = @ - 1, !.committed = @ + 1]
    /\ UNCHANGED <<storeOpen, tasks, serving, hubVars, ch, conn, snaps, page, left>>

\* A refused request or a failed write answers with an error.
HandlerFails ==
    /\ handlers.begun > 0
    /\ handlers' = [handlers EXCEPT !.begun = @ - 1]
    /\ UNCHANGED <<store, tasks, serving, hubVars, ch, conn, snaps, page, left>>

\* spawnBackground: one tracked task per announcement.
Spawned(b) == [t \in [topic : BagToSet(b), data : {Unread}] |-> b[t.topic]]

\* The handler answers, spawns the tasks that announce what changed (a batch:
\* one per distinct session, and one for quality), returns.
HandlerSpawns ==
    /\ handlers.committed > 0
    /\ \E b \in Announcements : tasks' = tasks (+) Spawned(b)
    /\ handlers' = [handlers EXCEPT !.committed = @ - 1]
    /\ UNCHANGED <<store, serving, hubVars, ch, conn, snaps, page, left>>

\* The task reads what it announces under the serve context; on an error it
\* ends without a broadcast.
TaskReads(t) ==
    /\ t.data = Unread
    /\ \E p \in {data, Failed} :
         /\ ReadStore(p)
         /\ tasks' = (tasks (-) One(t)) (+)
                       (IF p = Failed THEN EmptyBag
                        ELSE One([t EXCEPT !.data = p]))
    /\ UNCHANGED <<store, handlers, serving, hubVars, ch, conn, snaps, page>>

\* Mutant: the broadcast waits for the hub itself, as on a channel without a
\* buffer.
TaskBroadcastsDirectly(t) ==
    /\ t.data # Unread
    /\ hub = "select"
    /\ Put("broadcast", t)
    /\ tasks' = tasks (-) One(t)
    /\ UNCHANGED <<store, handlers, serving, hubVars, conn, snaps, page, left>>

\* Hub.Broadcast blocks while the channel is full, whether or not the hub
\* still runs.
TaskBroadcasts(t) ==
    /\ t.data # Unread
    /\ Put("broadcast", t)
    /\ tasks' = tasks (-) One(t)
    /\ UNCHANGED <<store, handlers, serving, hubVars, conn, snaps, page, left>>

\* Another process, a harvest, changes the store and announces nothing.
HarvestElsewhere ==
    /\ Spend("harvest")
    /\ storeOpen
    /\ data' = data + 1
    /\ UNCHANGED <<storeOpen, requests, serving, hubVars, ch, conn, snaps, page>>

----------------------------------------------------------------------------
(* The hub: one case of its select per action. *)

\* The hub receives the head of the channel q.
Receive(q) ==
    /\ hub = "select"
    /\ ch[q] # <<>>
    /\ ch' = [ch EXCEPT ![q] = Tail(@)]
    /\ UNCHANGED <<store, requests, serving, hub, tick, page, left>>

\* Mutant: the connection is taken from the channel and not kept.
HubRegisterForgets ==
    /\ Receive("register")
    /\ UNCHANGED <<clients, conn, snaps>>

HubRegister ==
    /\ Receive("register")
    /\ clients' = clients \cup {Head(ch["register"])}
    /\ UNCHANGED <<conn, snaps>>

HubUnregister ==
    /\ Receive("unregister")
    /\ LET c == Head(ch["unregister"])
       IN  /\ clients' = clients \ {c}
           /\ conn' = [conn EXCEPT ![c].done = @ \/ c \in clients]
    /\ UNCHANGED snaps

\* Subscribes at once; the data is built by a goroutine of its own.
HubSubscribe ==
    /\ Receive("subscribe")
    /\ LET m == Head(ch["subscribe"])
       IN  /\ conn' = [conn EXCEPT ![m.conn].channels = @ \cup m.topics]
           /\ snaps' = snaps (+) One([conn |-> m.conn, todo |-> m.topics,
                                      have |-> None])
    /\ UNCHANGED clients

HubUnsubscribe ==
    /\ Receive("unsubscribe")
    /\ LET m == Head(ch["unsubscribe"])
       IN  conn' = [conn EXCEPT ![m.conn].channels = @ \ m.topics]
    /\ UNCHANGED <<clients, snaps>>

HubBroadcast ==
    /\ Receive("broadcast")
    /\ conn' = ToSubscribers(Head(ch["broadcast"]))
    /\ UNCHANGED <<clients, snaps>>

\* broadcastAll: only what somebody is subscribed to is built, topic by topic,
\* and then sent; an error is sent in the place of the data.
Wanted == {t \in Ticked : \E c \in clients : t \in conn[c].channels}

HubTick ==
    /\ hub = "select"
    /\ Wanted # {}
    /\ hub' = "tick"
    /\ tick' = [t \in Wanted |-> Unread]
    /\ UNCHANGED <<store, requests, serving, clients, ch, conn, snaps, page, left>>

TickReads(t) ==
    /\ hub = "tick"
    /\ tick[t] = Unread
    /\ \E p \in {data, Failed} : ReadStore(p) /\ tick' = [tick EXCEPT ![t] = p]
    /\ UNCHANGED <<store, requests, serving, hub, clients, ch, conn, snaps, page>>

TickSends(t) ==
    /\ hub = "tick"
    /\ \A u \in DOMAIN tick : tick[u] # Unread
    /\ conn' = ToSubscribers([topic |-> t, data |-> tick[t]])
    /\ LET rest == DOMAIN tick \ {t}
       IN  /\ tick' = [u \in rest |-> tick[u]]
           /\ hub' = IF rest = {} THEN "select" ELSE "tick"
    /\ UNCHANGED <<store, requests, serving, clients, ch, snaps, page, left>>

\* ctx.Done(): every connection is torn down and pending unregisters drained.
HubExit ==
    /\ hub = "select"
    /\ cancelled
    /\ hub' = "exited"
    /\ conn' = [c \in Conns |-> [conn[c] EXCEPT !.done = @ \/ c \in clients]]
    /\ clients' = {}
    /\ ch' = [ch EXCEPT !["unregister"] = <<>>]
    /\ UNCHANGED <<store, requests, serving, tick, snaps, page, left>>

----------------------------------------------------------------------------
(* A connection's goroutines. *)

\* sendSnapshots takes the next topic of its subscription and reads it ...
SnapshotReads(s) ==
    /\ s.have = None
    /\ \E t \in s.todo, p \in {data, Failed} :
         /\ ReadStore(p)
         /\ snaps' = (snaps (-) One(s)) (+)
               One([s EXCEPT !.todo = @ \ {t}, !.have = [topic |-> t, data |-> p]])
    /\ UNCHANGED <<store, requests, serving, hubVars, ch, conn, page>>

\* ... and sends what it read, whatever was broadcast since.
SnapshotSends(s) ==
    /\ s.have # None
    /\ conn' = [conn EXCEPT ![s.conn] = Send(@, s.have)]
    /\ snaps' = (snaps (-) One(s)) (+)
          (IF s.todo = {} THEN EmptyBag ELSE One([s EXCEPT !.have = None]))
    /\ UNCHANGED <<store, requests, serving, hubVars, ch, page, left>>

\* ReadPump hands a frame to the hub; it blocks while that channel is full.
ReaderForwards(c) ==
    /\ conn[c].reader = "reading"
    /\ conn[c].socket # <<>>
    /\ LET f == Head(conn[c].socket)
       IN  f.type # "close" /\ Put(f.type, [conn |-> c, topics |-> f.topics])
    /\ conn' = [conn EXCEPT ![c].socket = Tail(@)]
    /\ UNCHANGED <<store, requests, serving, hubVars, snaps, page, left>>

\* ReadPump returns; its unregister is skipped when the channel is full.
ReaderEnds(c) ==
    /\ conn[c].reader = "reading"
    /\ conn[c].socket # <<>> /\ Head(conn[c].socket).type = "close"
    /\ \/ Put("unregister", c)
       \/ Full("unregister") /\ UNCHANGED ch
    /\ conn' = [conn EXCEPT ![c].reader = "ended", ![c].socket = <<>>]
    /\ UNCHANGED <<store, requests, serving, hubVars, snaps, page, left>>

\* The page shows the data of any topic it receives, and clears a failed one.
Shown(m) ==
    IF m.topic = None THEN page.view ELSE [page.view EXCEPT ![m.topic] = m.data]

\* WritePump writes the next message; a page that left makes the write fail.
PumpWrites(c) ==
    /\ conn[c].writer = "running"
    /\ conn[c].writeCh # <<>>
    /\ page' = IF page.at # c THEN page
               ELSE [page EXCEPT !.view = Shown(Head(conn[c].writeCh))]
    /\ conn' = [conn EXCEPT ![c].writeCh = Tail(@),
                            ![c].writer = IF page.at = c THEN @ ELSE "ended"]
    /\ UNCHANGED <<store, requests, serving, hubVars, ch, snaps, left>>

\* WritePump returns when the connection is done or its request has ended.
PumpEnds(c) ==
    /\ conn[c].writer = "running"
    /\ conn[c].done \/ conn[c].reader = "ended"
    /\ conn' = [conn EXCEPT ![c].writer = "ended"]
    /\ UNCHANGED <<store, requests, serving, hubVars, ch, snaps, page, left>>

----------------------------------------------------------------------------
(* The page. *)

Frame(type, ts) == [type |-> type, topics |-> ts]

\* The page subscribes to everything it shows as soon as the socket is open.
OnOpen ==
    IF page.want = {} THEN <<>> ELSE <<Frame("subscribe", page.want)>>

\* HandleUpgrade registers the connection and starts its pumps.
PageConnects(c) ==
    /\ listening
    /\ page.at = None
    /\ conn[c].reader = "none"
    /\ Spend("connect")
    /\ Put("register", c)
    /\ conn' = [conn EXCEPT ![c] =
                  [Send(NewConn, Hello) EXCEPT
                     !.reader = "reading", !.writer = "running",
                     !.socket = OnOpen]]
    /\ page' = [page EXCEPT !.at = c]
    /\ UNCHANGED <<store, requests, serving, hubVars, snaps>>

\* What the page sends is lost without a connection.
PageSends(f) ==
    conn' = [c \in Conns |-> IF c = page.at
                             THEN [conn[c] EXCEPT !.socket = Append(@, f)]
                             ELSE conn[c]]

\* A component that shows t is mounted, or the last one goes away.
PageShows(t) ==
    /\ Spend("switch")
    /\ t \notin page.want
    /\ page' = [page EXCEPT !.want = @ \cup {t}]
    /\ PageSends(Frame("subscribe", {t}))
    /\ UNCHANGED <<store, requests, serving, hubVars, ch, snaps>>

PageHides(t) ==
    /\ Spend("switch")
    /\ t \in page.want
    /\ page' = [page EXCEPT !.want = @ \ {t}]
    /\ PageSends(Frame("unsubscribe", {t}))
    /\ UNCHANGED <<store, requests, serving, hubVars, ch, snaps>>

\* wsRefresh subscribes again to a topic the page already shows.
PageRefreshes(t) ==
    /\ Spend("switch")
    /\ t \in page.want
    /\ PageSends(Frame("subscribe", {t}))
    /\ UNCHANGED <<store, requests, serving, hubVars, ch, snaps, page>>

\* The connection breaks, with or without the frames under way; the page will
\* connect again.
PageDrops ==
    /\ page.at # None
    /\ Spend("drop")
    /\ \E kept \in {conn[page.at].socket, <<>>} :
         conn' = [conn EXCEPT ![page.at].socket =
                                Append(kept, Frame("close", {}))]
    /\ page' = [page EXCEPT !.at = None]
    /\ UNCHANGED <<store, requests, serving, hubVars, ch, snaps>>

----------------------------------------------------------------------------
(* Stopping. *)

Rest == <<requests, hubVars, ch, conn, snaps, page>>

\* SIGINT or SIGTERM cancels the serve context.
Signal ==
    /\ main # "exited"
    /\ Spend("signal")
    /\ cancelled' = TRUE
    /\ UNCHANGED <<store, main, result, listening, routed, Rest>>

\* POST of the shutdown route: a goroutine of its own shuts the HTTP server
\* down, which closes the listeners at once; what it waits for afterwards
\* changes nothing.
ShutdownRoute ==
    /\ listening
    /\ Spend("route")
    /\ routed' = TRUE
    /\ listening' = FALSE
    /\ UNCHANGED <<store, main, result, cancelled, Rest>>

\* Serve sees the cancelled context and shuts down, waiting for the handlers.
ServeCancelled ==
    /\ main = "serving"
    /\ cancelled
    /\ main' = "draining"
    /\ listening' = FALSE
    /\ UNCHANGED <<store, result, cancelled, routed, Rest, left>>

\* Serve sees closed listeners and returns at once.
ServeClosed ==
    /\ main = "serving"
    /\ ~listening
    /\ main' = "returned"
    /\ UNCHANGED <<store, result, cancelled, listening, routed, Rest, left>>

\* One listener fails by itself; Serve stops the others.
ListenerFails ==
    /\ main = "serving"
    /\ listening
    /\ Spend("fault")
    /\ main' = "draining"
    /\ listening' = FALSE
    /\ result' = "failed"
    /\ UNCHANGED <<store, cancelled, routed, Rest>>

\* Shutdown: every handler has returned ...
Drained ==
    /\ main = "draining"
    /\ handlers.begun + handlers.committed = 0
    /\ main' = "waiting"
    /\ UNCHANGED <<store, result, cancelled, listening, routed, Rest, left>>

\* ... or the grace period is over.
GraceExpires ==
    /\ main = "draining"
    /\ handlers.begun + handlers.committed > 0
    /\ Spend("slow")
    /\ main' = "waiting"
    /\ result' = IF result = "nil" THEN "deadline" ELSE result
    /\ UNCHANGED <<store, cancelled, listening, routed, Rest>>

\* Mutant: the background tasks are not waited for.
TasksNotAwaited ==
    /\ main = "waiting"
    /\ main' = "returned"
    /\ UNCHANGED <<store, result, cancelled, listening, routed, Rest, left>>

\* Shutdown then waits for the tracked background tasks.
TasksAwaited ==
    /\ main = "waiting"
    /\ tasks = EmptyBag
    /\ main' = "returned"
    /\ UNCHANGED <<store, result, cancelled, listening, routed, Rest, left>>

\* runWebForeground returns: its deferred calls close the store ...
StoreCloses ==
    /\ main = "returned"
    /\ main' = "closed"
    /\ storeOpen' = FALSE
    /\ UNCHANGED <<data, result, cancelled, listening, routed, Rest, left>>

\* ... and cancel the context; then the process ends, with all its goroutines.
ProcessExits ==
    /\ main = "closed"
    /\ main' = "exited"
    /\ cancelled' = TRUE
    /\ handlers' = [begun |-> 0, committed |-> 0] /\ tasks' = EmptyBag
    /\ hub' = "exited" /\ tick' = <<>> /\ clients' = {}
    /\ conn' = [c \in Conns |-> [conn[c] EXCEPT !.reader = "ended",
                                               !.writer = "ended"]]
    /\ snaps' = EmptyBag
    /\ page' = [page EXCEPT !.at = None]
    /\ UNCHANGED <<store, result, listening, routed, ch, left>>

----------------------------------------------------------------------------
HandlerStep == HandlerCommits \/ HandlerFails \/ HandlerSpawns
TaskStep == \E t \in BagToSet(tasks) : TaskReads(t) \/ TaskBroadcasts(t)
SnapshotStep == \E s \in BagToSet(snaps) : SnapshotReads(s) \/ SnapshotSends(s)
TickStep == \E t \in DOMAIN tick : TickReads(t) \/ TickSends(t)
MainStep ==
    \/ ServeCancelled \/ ServeClosed \/ Drained \/ TasksAwaited
    \/ StoreCloses \/ ProcessExits
Environment ==
    \/ HandlerBegins \/ HarvestElsewhere \/ Signal \/ ShutdownRoute
    \/ ListenerFails \/ GraceExpires \/ PageDrops
    \/ \E t \in Topics : PageShows(t) \/ PageHides(t) \/ PageRefreshes(t)

Next ==
    \/ HandlerStep \/ TaskStep \/ SnapshotStep \/ TickStep \/ MainStep
    \/ HubRegister \/ HubUnregister \/ HubSubscribe \/ HubUnsubscribe
    \/ HubBroadcast \/ HubTick \/ HubExit
    \/ \E c \in Conns : \/ ReaderForwards(c) \/ ReaderEnds(c)
                        \/ PumpWrites(c) \/ PumpEnds(c) \/ PageConnects(c)
    \/ Environment

\* Goroutines are scheduled, and Go's select chooses among its ready cases at
\* random: a case that is ready again and again is taken (strong fairness).
\* The page, the network, the requests and the signals owe nothing.
Fairness ==
    /\ WF_vars(HandlerStep)
    /\ WF_vars(TaskStep)
    /\ WF_vars(SnapshotStep)
    /\ WF_vars(TickStep)
    /\ WF_vars(MainStep)
    /\ SF_vars(HubRegister)
    /\ SF_vars(HubSubscribe)
    /\ SF_vars(HubUnsubscribe)
    /\ SF_vars(HubBroadcast)
    /\ SF_vars(HubExit)
    /\ WF_vars(HubTick)
    /\ \A c \in Conns : /\ WF_vars(ReaderForwards(c))
                        /\ WF_vars(PumpWrites(c))

Spec == Init /\ [][Next]_vars /\ Fairness

----------------------------------------------------------------------------
(* Properties. *)

ConnStates ==
    [reader : {"none", "reading", "ended"}, writer : {"none", "running", "ended"},
     done : BOOLEAN, channels : SUBSET Topics, writeCh : Seq(Messages),
     socket : Seq(Frames)]

TypeOK ==
    /\ data \in Nat /\ storeOpen \in BOOLEAN
    /\ handlers \in [begun : Nat, committed : Nat]
    /\ IsABag(tasks)
    /\ BagToSet(tasks) \subseteq [topic : Topics, data : Nat \cup {Unread}]
    /\ main \in {"serving", "draining", "waiting", "returned", "closed", "exited"}
    /\ result \in {"nil", "deadline", "failed"}
    /\ {cancelled, listening, routed} \subseteq BOOLEAN
    /\ hub \in {"select", "tick", "exited"}
    /\ DOMAIN tick \subseteq Ticked
    /\ (hub = "tick") <=> (DOMAIN tick # {})
    /\ \A q \in Queues : Len(ch[q]) <= QueueCap
    /\ clients \subseteq Conns
    /\ conn \in [Conns -> ConnStates]
    /\ \A c \in Conns : Len(conn[c].writeCh) <= WriteCap
    /\ IsABag(snaps)
    /\ page \in [want : SUBSET Topics, at : Conns \cup {None},
                 view : [Topics -> Payloads \cup {Unread}]]
    /\ left \in [Kinds -> Nat]

\* A server that was stopped by its context and reports a clean stop has let
\* every mutation handler and every task it spawned finish before the store
\* was closed: none of them reads a closed store.  (The shutdown route is
\* another matter: there Serve returns when the listeners close, and waits for
\* nobody.)
StoreOutlivesTasks ==
    ~storeOpen /\ ~routed /\ result = "nil" =>
        /\ tasks = EmptyBag
        /\ handlers.begun + handlers.committed = 0

\* "Shutdown drains it so no task can touch the store after the owner closes
\* it", whichever way the server is stopped.
NoTaskAfterClose == ~storeOpen => tasks = EmptyBag

\* "Cancellation interrupts the task's store reads so shutdown stays prompt": a
\* stop that was asked for comes to its end.
ShutdownEnds == cancelled ~> main = "exited"

\* The hub is gone with its channel full, and a task still has to broadcast.
HubGoneFull ==
    /\ hub = "exited" /\ Full("broadcast")
    /\ \E t \in BagToSet(tasks) : t.data # Unread

\* A stop that was asked for comes to its end, whatever handlers, tasks and hub
\* are doing, unless more broadcasts are under way than the channel of a hub
\* that is gone holds: nothing else keeps the process alive.
OnlyFullHubBlocks == cancelled ~> main = "exited" \/ HubGoneFull

\* A frame about t is under way on c.
InFlight(c, type, t) ==
    \/ \E i \in DOMAIN conn[c].socket :
         conn[c].socket[i].type = type /\ t \in conn[c].socket[i].topics
    \/ \E i \in DOMAIN ch[type] :
         ch[type][i].conn = c /\ t \in ch[type][i].topics

Leaving(t) == page.at = None \/ InFlight(page.at, "unsubscribe", t)

\* t is subscribed on the page's connection or is going to be.
Served(t) ==
    /\ ~Leaving(t)
    /\ t \in conn[page.at].channels \/ InFlight(page.at, "subscribe", t)

\* The server "pushes snapshots immediately on subscribe and every
\* ServerBroadcastTick thereafter": once every frame of the page was received,
\* it is subscribed to what it shows.
ShownIsSubscribed ==
    page.at \in clients =>
        \A t \in page.want :
            \/ InFlight(page.at, "subscribe", t) \/ InFlight(page.at, "unsubscribe", t)
            \/ t \in conn[page.at].channels

\* A page that is subscribed to a ticked topic comes to show what the store
\* holds, over dropped messages, failed reads and snapshots that arrive after
\* newer data, unless it leaves or the server stops.
PageConverges ==
    \A t \in Ticked :
        Served(t) ~> \/ page.view[t] = data
                     \/ Leaving(t)
                     \/ main # "serving" \/ cancelled
==============================================================================
