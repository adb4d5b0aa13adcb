--------------------------- MODULE ActivationBatch ---------------------------
(***************************************************************************)
(* ActivateGenerationBatch (internal/store): candidates of SEVERAL         *)
(* sessions are installed in one transaction, with a savepoint for each.   *)
(* GenerationStore follows one session in detail; here a session is only   *)
(* its active generation and the revision of its index state, and the      *)
(* matter is what several sessions bring: a process that holds many        *)
(* session locks at once, sweeps that hold single ones, candidates routed  *)
(* to the single-session path in the middle of a batch, and results that   *)
(* must stay with the candidate they are about.                            *)
(*                                                                         *)
(* Candidates are complete and their identifiers fresh, as the harvest     *)
(* makes them.                                                             *)
(***************************************************************************)
EXTENDS Integers, FiniteSets, Sequences

CONSTANTS
    Batchers,   \* processes that activate a batch
    Sweepers,   \* processes that sweep or reclaim sessions, one at a time
    Sessions,   \* session identifiers, by their order
    Contents,   \* what a candidate may contain
    Bad,        \* a candidate that validation refuses
    MaxLen,     \* bound on the candidates of a batch
    Budgets,    \* bounds on what happens in a behaviour
    None

ASSUME SessionsAssumption == Sessions \subseteq Nat
\* Candidates of all the batches; lock spans of sweeps; failures,
\* cancellations and crashes; and active generations that come to need repair.
Bounds == [candidates : Nat, sweeps : Nat, faults : Nat, rots : Nat]
ASSUME BoundsAssumption == MaxLen \in Nat /\ Budgets \subseteq Bounds
ASSUME ProcessAssumption ==
    /\ Batchers \cap Sweepers = {}
    /\ None \notin Batchers \cup Sweepers

Ids == [by : Batchers \cup {None}, at : 0..MaxLen]
\* A row of session_generations, with the index revision its parse captured.
Generations == [id : Ids, content : Contents, expected : Nat]
Candidates == [session : Sessions, id : Ids, content : Contents \cup {Bad},
               expected : Nat]
\* ActivationResult: a disposition, and whether an error came with it.
Results == [did : {"nothing", "commit", "repair", "skip"}, err : BOOLEAN]

ASSUME NoneAssumption == None \notin Generations /\ Bad \notin Contents

VARIABLES
    active,    \* the active generation of each session, or None
    stored,    \* the generations installed in each session
    revision,  \* the index state of each session, by number
    broken,    \* the sessions whose active generation needs repair
    lock,      \* the holder of each session lock
    pc, job,   \* per batcher: next step and what it holds in memory
    left       \* what is left of the bounds

store == <<active, stored, revision, broken>>
vars == <<store, lock, pc, job, left>>

\* The candidates, the position examined next, the positions that go into the
\* common transaction, and for a diverted candidate its path.
Jobs == [req : Seq(Candidates), at : Nat, batch : SUBSET Nat,
         route : {"repair", "skip", "write"},
         compared : Generations \cup {None}, results : Seq(Results)]
PCs == {"idle", "examine", "route", "single", "stage", "lock", "release",
        "done"}

Holders == Batchers \cup Sweepers \cup {None}
Held(p) == {s \in Sessions : lock[s] = p}

\* The sessions whose locks the batch of b takes.
Spanned(b) == {job[b].req[i].session : i \in job[b].batch}

NoJob == [req |-> <<>>, at |-> 1, batch |-> {}, route |-> "write",
          compared |-> None, results |-> <<>>]
NotCommitted == [did |-> "nothing", err |-> FALSE]
Refused == [did |-> "nothing", err |-> TRUE]

Init ==
    /\ \E first \in [Sessions -> Contents \cup {None}] :
          active = [s \in Sessions |->
              IF first[s] = None THEN None
              ELSE [id |-> [by |-> None, at |-> 0], content |-> first[s],
                    expected |-> 0]]
    /\ stored = [s \in Sessions |-> {active[s]} \ {None}]
    /\ revision = [s \in Sessions |-> 1]
    /\ broken = {}
    /\ lock = [s \in Sessions |-> None]
    /\ pc = [b \in Batchers |-> "idle"]
    /\ job = [b \in Batchers |-> NoJob]
    /\ left \in Budgets

Spend(kind) == left[kind] > 0 /\ left' = [left EXCEPT ![kind] = @ - 1]

\* b goes on at `next` with j in memory.
Proceed(b, j, next) ==
    /\ job' = [job EXCEPT ![b] = j]
    /\ pc' = [pc EXCEPT ![b] = next]

----------------------------------------------------------------------------
(* The candidates, one after the other. *)

\* n candidates for the sessions ss with the contents cs, each parsed under the
\* index state its session has now.
Request(b, n, ss, cs) ==
    [NoJob EXCEPT
        !.req = [i \in 1..n |->
                   [session |-> ss[i], id |-> [by |-> b, at |-> i],
                    content |-> cs[i], expected |-> revision[ss[i]]]],
        !.results = [i \in 1..n |-> NotCommitted]]

\* The harvest parsed one candidate for each entry, under the index state it
\* captured.
Start(b) ==
    /\ pc[b] = "idle"
    /\ \E n \in 1..MaxLen, ss \in [1..MaxLen -> Sessions],
          cs \in [1..MaxLen -> Contents \cup {Bad}] :
          /\ n <= left.candidates
          /\ left' = [left EXCEPT !.candidates = @ - n]
          /\ Proceed(b, Request(b, n, ss, cs), "examine")
    /\ UNCHANGED <<store, lock>>

Candidate(b) == job[b].req[job[b].at]
Examining(b) == pc[b] = "examine" /\ job[b].at \in DOMAIN job[b].req

\* Mutant: the entries are not validated before they are stored.
RejectedOnlyRepeats(b) ==
    \E i \in 1..(job[b].at - 1) : job[b].req[i].session = Candidate(b).session

\* The batch names the session of an earlier candidate again, or the
\* candidate does not validate.
Rejected(b) ==
    \/ Candidate(b).content = Bad
    \/ \E i \in 1..(job[b].at - 1) : job[b].req[i].session = Candidate(b).session

\* The active generation needs repair, or is what the candidate holds.
SameAsActive(c) == /\ active[c.session] # None
                   /\ active[c.session].content = c.content
TakesSinglePath(b) ==
    Candidate(b).session \in broken \/ SameAsActive(Candidate(b))

Reject(b) ==
    /\ Examining(b)
    /\ Rejected(b)
    /\ Proceed(b, [job[b] EXCEPT !.results[job[b].at] = Refused, !.at = @ + 1],
               "examine")
    /\ UNCHANGED <<store, lock, left>>

Admit(b) ==
    /\ Examining(b)
    /\ ~Rejected(b)
    /\ ~TakesSinglePath(b)
    /\ Proceed(b, [job[b] EXCEPT !.batch = @ \cup {job[b].at}, !.at = @ + 1],
               "examine")
    /\ UNCHANGED <<store, lock, left>>

Divert(b) ==
    /\ Examining(b)
    /\ ~Rejected(b)
    /\ TakesSinglePath(b)
    /\ Proceed(b, job[b], "route")
    /\ UNCHANGED <<store, lock, left>>

Examined(b) ==
    /\ pc[b] = "examine"
    /\ job[b].at \notin DOMAIN job[b].req
    /\ Proceed(b, job[b], IF job[b].batch = {} THEN "done" ELSE "stage")
    /\ UNCHANGED <<store, lock, left>>

----------------------------------------------------------------------------
(* ActivateGeneration of one candidate: choose without the lock, act under *)
(* it.                                                                     *)

Route(b) ==
    /\ pc[b] = "route"
    /\ LET s == Candidate(b).session
       IN  Proceed(b, [job[b] EXCEPT
               !.compared = active[s],
               !.route = IF s \in broken THEN "repair"
                         ELSE IF SameAsActive(Candidate(b)) THEN "skip"
                              ELSE "write"], "single")
    /\ UNCHANGED <<store, lock, left>>

\* What one savepoint of the transaction accepts: the index state is the one
\* the candidate was parsed under, and the active generation has not come to
\* need repair since the candidate was examined (harmonizedBatchPrecommit; the
\* single commit goes through the same writer).
Accepts(c) ==
    /\ c.expected = revision[c.session]
    /\ c.session \notin broken
Generation(c) == [id |-> c.id, content |-> c.content, expected |-> c.expected]

Settle(b, r) ==
    Proceed(b, [job[b] EXCEPT !.results[job[b].at] = r, !.at = @ + 1,
                              !.route = "write", !.compared = None],
            "examine")

\* The lock is taken, one transaction runs, and the lock is released; another
\* process sees the session only before or after it.
RepairSingle(b) ==
    /\ pc[b] = "single"
    /\ job[b].route = "repair"
    /\ LET s == Candidate(b).session
       IN  /\ lock[s] = None
           /\ broken' = broken \ {s}
           /\ revision' = [revision EXCEPT ![s] = @ + 1]
    /\ Settle(b, [did |-> "repair", err |-> FALSE])
    /\ UNCHANGED <<active, stored, lock, left>>

\* The skip re-checks the pointer; when it moved the candidate is written.
SkipSingle(b) ==
    /\ pc[b] = "single"
    /\ job[b].route = "skip"
    /\ LET s == Candidate(b).session
       IN  /\ lock[s] = None
           /\ IF active[s] = job[b].compared
              THEN /\ revision' = [revision EXCEPT ![s] = @ + 1]
                   /\ Settle(b, [did |-> "skip", err |-> FALSE])
              ELSE /\ Proceed(b, [job[b] EXCEPT !.route = "write"], "single")
                   /\ UNCHANGED revision
    /\ UNCHANGED <<active, stored, broken, lock, left>>

WriteSingle(b) ==
    /\ pc[b] = "single"
    /\ job[b].route = "write"
    /\ LET c == Candidate(b)
       IN  /\ lock[c.session] = None
           /\ IF Accepts(c)
              THEN /\ active' = [active EXCEPT ![c.session] = Generation(c)]
                   /\ stored' = [stored EXCEPT ![c.session] = @ \cup {Generation(c)}]
                   /\ revision' = [revision EXCEPT ![c.session] = @ + 1]
                   /\ Settle(b, [did |-> "commit", err |-> FALSE])
              ELSE /\ Settle(b, Refused)
                   /\ UNCHANGED <<active, stored, revision>>
    /\ UNCHANGED <<broken, lock, left>>

SingleFails(b) ==
    /\ pc[b] \in {"route", "single"}
    /\ Spend("faults")
    /\ Settle(b, Refused)
    /\ UNCHANGED <<store, lock>>

----------------------------------------------------------------------------
(* The batch: stage together, lock in ascending order, commit once.        *)

\* fail: the error goes to every candidate of the batch, and the locks are
\* released.
FailBatch(b) ==
    Proceed(b, [job[b] EXCEPT !.results = [i \in DOMAIN @ |->
                   IF i \in job[b].batch THEN Refused ELSE @[i]]], "release")

Stage(b) ==
    /\ pc[b] = "stage"
    /\ Proceed(b, job[b], "lock")
    /\ UNCHANGED <<store, lock, left>>

\* Mutant: the lock of the first session stands for all of them.
UnlockedButFirst(b) == IF Held(b) = {} THEN Spanned(b) ELSE {}

Unlocked(b) == Spanned(b) \ Held(b)

\* Mutant: the locks are taken in the order of the request.
LockNextInRequestOrder(b) ==
    /\ pc[b] = "lock"
    /\ \E i \in job[b].batch :
          LET s == job[b].req[i].session
          IN  /\ s \in Unlocked(b)
              /\ \A k \in job[b].batch :
                    job[b].req[k].session \in Unlocked(b) => i <= k
              /\ lock[s] = None
              /\ lock' = [lock EXCEPT ![s] = b]
    /\ UNCHANGED <<store, pc, job, left>>

\* LockExclusive of the smallest session not locked yet.
LockNext(b) ==
    /\ pc[b] = "lock"
    /\ \E s \in Unlocked(b) :
          /\ \A t \in Unlocked(b) : s <= t
          /\ lock[s] = None
          /\ lock' = [lock EXCEPT ![s] = b]
    /\ UNCHANGED <<store, pc, job, left>>

\* Staging fails, or the context ends while a lock is awaited or before the
\* transaction.
BatchFails(b) ==
    /\ pc[b] \in {"stage", "lock"}
    /\ Spend("faults")
    /\ FailBatch(b)
    /\ UNCHANGED <<store, lock>>

\* Mutant: the savepoints no longer compare the index state.
AcceptedUnchecked(b) == {job[b].req[i] : i \in job[b].batch}

\* IndexSessionEntryBatch: the candidates whose savepoint succeeds.  The
\* compare-and-swap refuses a stale one, the precommit one whose session needs
\* repair by now, and the others are not touched.
Accepted(b) == {c \in {job[b].req[i] : i \in job[b].batch} : Accepts(c)}

\* Mutant: the results are in the order of the locks, not of the request.
CommittedResultsByLock(b, done) ==
    [i \in DOMAIN job[b].results |->
        IF i \notin job[b].batch THEN job[b].results[i]
        ELSE LET rank(k) == Cardinality({n \in job[b].batch : n < k})
                 by(k) == Cardinality({t \in Spanned(b) :
                                          t < job[b].req[k].session})
             IN  IF \E k \in job[b].batch : by(k) = rank(i) /\ job[b].req[k] \in done
                 THEN [did |-> "commit", err |-> FALSE] ELSE Refused]

\* The results, each at the position of its candidate.
CommittedResults(b, done) ==
    [i \in DOMAIN job[b].results |->
        IF i \notin job[b].batch THEN job[b].results[i]
        ELSE IF job[b].req[i] \in done THEN [did |-> "commit", err |-> FALSE]
        ELSE Refused]

\* One transaction installs what was accepted.
Install(done) ==
    LET of(s) == {c \in done : c.session = s}
        installed(s) == {Generation(c) : c \in of(s)}
    IN  /\ active' = [s \in Sessions |->
                        IF of(s) = {} THEN active[s]
                        ELSE CHOOSE g \in installed(s) : TRUE]
        /\ stored' = [s \in Sessions |-> stored[s] \cup installed(s)]
        /\ revision' = [s \in Sessions |->
                          IF of(s) = {} THEN revision[s] ELSE revision[s] + 1]
        /\ UNCHANGED broken

\* All locks are held; any savepoint may also fail for itself (a foreign key,
\* a newer format), which rolls back only that session.
Commit(b) ==
    /\ pc[b] = "lock"
    /\ Unlocked(b) = {}
    /\ Install(Accepted(b))
    /\ Proceed(b, [job[b] EXCEPT !.results = CommittedResults(b, Accepted(b))],
               "release")
    /\ UNCHANGED <<lock, left>>

CommitPartly(b) ==
    /\ pc[b] = "lock"
    /\ Unlocked(b) = {}
    /\ Spend("faults")
    /\ \E c \in Accepted(b) :
          /\ Install(Accepted(b) \ {c})
          /\ Proceed(b, [job[b] EXCEPT !.results =
                            CommittedResults(b, Accepted(b) \ {c})], "release")
    /\ UNCHANGED lock

\* A fatal savepoint error or a failed COMMIT rolls every session back, and
\* the error replaces each success.
CommitAborts(b) ==
    /\ pc[b] = "lock"
    /\ Unlocked(b) = {}
    /\ Spend("faults")
    /\ FailBatch(b)
    /\ UNCHANGED <<store, lock>>

\* releaseAll: the last lock first.
Release(b) ==
    /\ pc[b] = "release"
    /\ \E s \in Held(b) :
          /\ \A t \in Held(b) : t <= s
          /\ lock' = [lock EXCEPT ![s] = None]
    /\ UNCHANGED <<store, pc, job, left>>

\* The batch returns.  The converted-mirror pass runs without locks; when it
\* fails for a session its result carries the error beside the commit.
Finish(b) ==
    /\ pc[b] = "release"
    /\ Held(b) = {}
    /\ Proceed(b, job[b], "done")
    /\ UNCHANGED <<store, lock, left>>

MirrorPassFails(b) ==
    /\ pc[b] = "release"
    /\ Held(b) = {}
    /\ Spend("faults")
    /\ \E i \in job[b].batch :
          /\ job[b].results[i].did = "commit"
          /\ Proceed(b, [job[b] EXCEPT !.results[i].err = TRUE], "release")
    /\ UNCHANGED <<store, lock>>

----------------------------------------------------------------------------
(* The other processes. *)

\* The process dies: the kernel releases its locks.
Crash(b) ==
    /\ pc[b] \notin {"idle", "done"}
    /\ Spend("faults")
    /\ lock' = [s \in Sessions |-> IF lock[s] = b THEN None ELSE lock[s]]
    /\ Proceed(b, NoJob, "done")
    /\ UNCHANGED store

\* A sweep or a span of a reclaim: one session lock at a time.
SweepLock(w) ==
    /\ Held(w) = {}
    /\ Spend("sweeps")
    /\ \E s \in Sessions : lock[s] = None /\ lock' = [lock EXCEPT ![s] = w]
    /\ UNCHANGED <<store, pc, job>>

SweepUnlock(w) ==
    /\ \E s \in Held(w) : lock' = [lock EXCEPT ![s] = None]
    /\ UNCHANGED <<store, pc, job, left>>

\* Stored bytes of an active generation change.
Rot ==
    /\ Spend("rots")
    /\ \E s \in Sessions \ broken : active[s] # None /\ broken' = broken \cup {s}
    /\ UNCHANGED <<active, stored, revision, lock, pc, job>>

\* What b does by itself.
Step(b) ==
    \/ Reject(b) \/ Admit(b) \/ Divert(b) \/ Examined(b)
    \/ Route(b) \/ RepairSingle(b) \/ SkipSingle(b) \/ WriteSingle(b)
    \/ Stage(b) \/ LockNext(b) \/ Commit(b) \/ Release(b) \/ Finish(b)

Faults(b) ==
    \/ SingleFails(b) \/ BatchFails(b) \/ CommitPartly(b) \/ CommitAborts(b)
    \/ MirrorPassFails(b) \/ Crash(b)

Next ==
    \/ \E b \in Batchers : Start(b) \/ Step(b) \/ Faults(b)
    \/ \E w \in Sweepers : SweepLock(w) \/ SweepUnlock(w)
    \/ Rot

Spec == Init /\ [][Next]_vars

----------------------------------------------------------------------------
(* Properties *)

TypeOK ==
    /\ active \in [Sessions -> Generations \cup {None}]
    /\ stored \in [Sessions -> SUBSET Generations]
    /\ revision \in [Sessions -> Nat]
    /\ broken \subseteq Sessions
    /\ lock \in [Sessions -> Holders]
    /\ pc \in [Batchers -> PCs]
    /\ job \in [Batchers -> Jobs]
    /\ left \in Bounds

\* b asks for the lock of s.
Awaits(b, s) ==
    \/ /\ pc[b] = "lock"
       /\ s \in Unlocked(b)
       /\ \A t \in Unlocked(b) : s <= t
    \/ /\ pc[b] = "single"
       /\ s = Candidate(b).session

\* No circle of batches waits on itself: whoever holds a lock that another
\* batch waits for can itself only be waiting for a larger session (the
\* ascending acquisition of ActivateGenerationBatch), over any number of
\* batches.
WaitsAscend ==
    \A b, c \in Batchers, s, t \in Sessions :
        Awaits(b, s) /\ lock[s] = c /\ Awaits(c, t) => s < t

\* A result is true of the store: a candidate reported committed was
\* installed, and one reported as not committed was not, whichever savepoints
\* failed and in whatever order the locks were taken.
ResultsTellTheStore ==
    \A b \in Batchers : pc[b] = "done" =>
        \A i \in DOMAIN job[b].results :
            LET c == job[b].req[i]
            IN  (job[b].results[i].did = "commit")
                  <=> Generation(c) \in stored[c.session]

\* No lost update: two generations of a session were never both built on one
\* index state, although the candidates of two processes were parsed from it
\* (the compare-and-swap in every savepoint).
InstallsAreSerial ==
    \A s \in Sessions : \A g, h \in stored[s] :
        g.expected = h.expected => g = h

\* What a sweep read of a session under its lock stays true until it lets the
\* lock go: no activation moves the authority of that session meanwhile.
SweepSeesStableAuthority ==
    [][\A w \in Sweepers, s \in Sessions :
         lock[s] = w => active'[s] = active[s] /\ stored'[s] = stored[s]]_vars
==============================================================================
