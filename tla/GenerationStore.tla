--------------------------- MODULE GenerationStore ---------------------------
(***************************************************************************)
(* The managed-generation store of ONE session (internal/store), as the    *)
(* harvest pipeline (internal/ingest) and `peasant reclaim` drive it.      *)
(*                                                                         *)
(* A generation is a catalog row plus rows that reference digest-addressed *)
(* objects (entry bodies and content blobs).  Objects are staged WITHOUT a *)
(* lock; commits, skips, repairs, sweeps and reclaims hold the exclusive   *)
(* per-session lock.  Every SQL transaction is one action.  A commit, a    *)
(* skip and a repair are a single transaction inside their lock span, so   *)
(* each is one action guarded by the lock being free; a sweep or a reclaim *)
(* is many transactions in one or two lock spans, so it holds `lock` over  *)
(* many actions.  Every predicate of the code is qualified by session_id,  *)
(* so one session is the whole state.                                      *)
(***************************************************************************)
EXTENDS Integers, FiniteSets

CONSTANTS
    Writers,     \* harvest processes
    Reclaimers,  \* `peasant reclaim` processes
    GenIds,      \* pool of generation identifiers (bound)
    Contents,    \* distinct captured inputs; the input hash IS the content
    Bodies,      \* entry body digests
    Blobs,       \* content blob digests
    ObjectsOf,   \* the bodies and blobs a content's generation maps
    SourceRef,   \* the source_entry_ref a blob's descriptor is keyed by
    Outcomes,    \* the parser outcomes a content can have
    Leftover,    \* generation directories a file-backed predecessor left
    SweepRows,   \* write.sweep_rows, the batch limit of every delete
    RunLocked,   \* the pipelines were built with WithRunLock
    AllowForce,  \* an operator may run harvest --force / --reindex
    AllowCrash,  \* a process may die, a sweep transaction may fail
    AllowRot,    \* stored bytes may stop matching their digest
    None

Procs == Writers \cup Reclaimers
Objects == Bodies \cup Blobs

\* ContentCapture of a candidate: certified full content, the assessed
\* source_records_omitted preview, any other preview, an incomplete generation.
OutcomeKinds == {"full", "omitted", "preview", "incomplete"}

ASSUME ConstantsAssumption ==
    /\ Writers \cap Reclaimers = {}
    /\ Bodies \cap Blobs = {}
    /\ ObjectsOf \in [Contents -> SUBSET Objects]
    /\ DOMAIN SourceRef = Blobs
    /\ Outcomes \in [Contents -> SUBSET OutcomeKinds]
    /\ Leftover \subseteq GenIds
    /\ SweepRows \in Nat \ {0}
    /\ {RunLocked, AllowForce, AllowCrash, AllowRot} \subseteq BOOLEAN
    /\ None \notin (Procs \cup GenIds \cup Contents \cup {"full", "preview"})

VARIABLES
    catalog,   \* session_generations: identifier -> binding, None without row
    refs,      \* identifier -> objects its mapping and descriptor rows name
    objs,      \* session_entry_bodies and session_content rows
    damaged,   \* stored objects whose bytes fail self-verification
    active,    \* sessions.active_generation_id
    attempt,   \* sessions.latest_attempt_generation_id
    flag,      \* sessions.content_sweep_pending
    idx,       \* the fields sameIndexState compares
    dirs,      \* generation directories on disk
    rebuild,   \* session_search_state.needs_rebuild
    lock,      \* holder of the exclusive session lock over several steps
    runLock,   \* holder of harvest.lock
    pc, cand, todo, prepared, keep, listed, mode   \* per process

store == <<catalog, refs, objs, damaged, active, attempt, flag, idx, dirs,
           rebuild>>
locals == <<cand, todo, prepared, keep, listed, mode>>
vars == <<store, lock, runLock, pc, locals>>

Bindings == [content : Contents, complete : BOOLEAN]
IndexStates == [artifact : Contents \cup {None}, proof : Contents \cup {None},
                entries : Contents \cup {None},
                capture : {None, "full", "preview"}]
Candidates == [id : GenIds, content : Contents, outcome : OutcomeKinds,
               explicit : BOOLEAN, expected : IndexStates]

\* None stands for NULL: it is neither a row nor a candidate, nor what a read
\* returns.
ASSUME NoneAssumption ==
    /\ None \notin Bindings /\ None \notin Candidates
    /\ None \notin [content : Contents, complete : BOOLEAN, objects : SUBSET Objects]

SweepPCs == {"bounded", "rowBodies", "rowBlobs", "rowCatalog", "dirs",
             "listBodies", "dropBodies", "listBlobs", "dropBlobs",
             "rebuild", "clear"}
WriterPCs == {"harvest", "mirror", "select", "prestage", "stage", "verify",
              "activate", "skip", "repair", "commit"}
PCs == {"idle", "lock", "unlink", "relock"} \cup SweepPCs \cup WriterPCs

----------------------------------------------------------------------------
(* What the code reads. *)

\* candidate_digest of a prepared candidate.
Binding(c) == [content |-> c.content, complete |-> c.outcome # "incomplete"]

\* The two identifiers a sweep or a reclaim must keep.
KeepSet == {active, attempt} \ {None}

Complete(g) == catalog[g] # None /\ catalog[g].complete

\* Mapping and descriptor rows of the generations outside K.
SupersededRefs(K, kind) ==
    {r \in (GenIds \ K) \X kind : r[2] \in refs[r[1]]}

SupersededRows(K) == {g \in GenIds \ K : catalog[g] # None}

Referenced == UNION {refs[g] : g \in GenIds}

\* Stored objects of a table that no generation row references.
Unreferenced(kind) == (objs \cap kind) \ Referenced

\* The batches LIMIT SweepRows may return from S.
Batches(S) ==
    {b \in SUBSET S : IF Cardinality(S) <= SweepRows THEN b = S
                      ELSE Cardinality(b) = SweepRows}

\* refreshEqualsActive: the active row has the candidate's digest, and its
\* mapping and descriptor rows name the candidate's objects.
EqualsActive(c) ==
    /\ active # None
    /\ catalog[active] = Binding(c)
    /\ refs[active] = ObjectsOf[c.content]

\* repairNeedsHarmonized: a cleared input proof AND a failing active object.
NeedsRepair ==
    /\ active # None
    /\ idx.artifact # None
    /\ idx.proof = None
    /\ \E o \in refs[active] : o \notin objs \/ o \in damaged

\* Mutant: the capture beside the authority is not looked at.
EligibleAnyAuthority(c) == c.outcome = "omitted" /\ ~c.explicit

\* latestAttemptEligibleOnConn: an omission preview beside a full authority.
Eligible(c) ==
    /\ c.outcome = "omitted"
    /\ ~c.explicit
    /\ idx.capture = "full"

\* The latest attempt consumed the current pair under this build.
Settled ==
    /\ attempt # None
    /\ catalog[attempt] # None
    /\ catalog[attempt].content = idx.artifact

\* Mutant: the input hash is not compared.
NeedsWorkByCapture == ~Settled /\ idx.capture # "full"

\* capturedInputNeedsWork without --force.
NeedsWork == ~Settled /\ (idx.proof # idx.artifact \/ idx.capture # "full")

\* An identifier no row, directory or process remembers.
Fresh(g) ==
    /\ catalog[g] = None
    /\ g \notin dirs
    /\ \A p \in Procs : /\ cand[p] # None => cand[p].id # g
                        /\ g \notin keep[p] \cup listed[p]

----------------------------------------------------------------------------
(* How a process moves. *)

Goto(p, l) == pc' = [pc EXCEPT ![p] = l]

\* The harvest (or the reclaim) of this session ends and drops what it held.
Finish(p) ==
    /\ pc' = [pc EXCEPT ![p] = "idle"]
    /\ cand' = [cand EXCEPT ![p] = None]
    /\ todo' = [todo EXCEPT ![p] = {}]
    /\ prepared' = [prepared EXCEPT ![p] = "no"]
    /\ keep' = [keep EXCEPT ![p] = {}]
    /\ listed' = [listed EXCEPT ![p] = {}]
    /\ mode' = [mode EXCEPT ![p] = "none"]
    /\ runLock' = IF runLock = p THEN None ELSE runLock

\* A sweep returns: the harvest-start sweep goes on with the harvest, the
\* after-commit sweep and the reclaim end.
SweepReturns(p) ==
    \/ /\ mode[p] = "start"
       /\ Goto(p, "harvest")
       /\ keep' = [keep EXCEPT ![p] = {}]
       /\ listed' = [listed EXCEPT ![p] = {}]
       /\ mode' = [mode EXCEPT ![p] = "none"]
       /\ UNCHANGED <<cand, todo, prepared, runLock>>
    \/ mode[p] # "start" /\ Finish(p)

\* The activation committed: the pipeline sweeps the session.
SweepAfterCommit(w) ==
    /\ Goto(w, "lock")
    /\ mode' = [mode EXCEPT ![w] = "after"]
    /\ cand' = [cand EXCEPT ![w] = None]
    /\ todo' = [todo EXCEPT ![w] = {}]
    /\ prepared' = [prepared EXCEPT ![w] = "no"]
    /\ keep' = [keep EXCEPT ![w] = {}]
    /\ UNCHANGED <<listed, runLock>>

----------------------------------------------------------------------------
(* Harvest: from the run lock to a captured candidate. *)

\* Mutant: no harvest-start recovery pass.
HarvestBeginWithoutSweep(w) ==
    /\ pc[w] = "idle"
    /\ RunLocked => runLock = None
    /\ runLock' = IF RunLocked THEN w ELSE runLock
    /\ rebuild' = FALSE
    /\ Goto(w, "harvest")
    /\ UNCHANGED <<catalog, refs, objs, damaged, active, attempt, flag, idx,
                   dirs, lock, locals>>

\* The run lock, the search-index health gate, the flagged-session sweep.
HarvestBegin(w) ==
    /\ pc[w] = "idle"
    /\ RunLocked => runLock = None
    /\ runLock' = IF RunLocked THEN w ELSE runLock
    /\ rebuild' = FALSE
    /\ IF flag
       THEN Goto(w, "lock") /\ mode' = [mode EXCEPT ![w] = "start"]
       ELSE Goto(w, "harvest") /\ UNCHANGED mode
    /\ UNCHANGED <<catalog, refs, objs, damaged, active, attempt, flag, idx,
                   dirs, lock, cand, todo, prepared, keep, listed>>

\* The source changed: the settled row's proof goes before any file does.
PrepareArtifactInstall(w) ==
    /\ pc[w] = "harvest"
    /\ idx' = [idx EXCEPT !.proof = None]
    /\ Goto(w, "mirror")
    /\ UNCHANGED <<catalog, refs, objs, damaged, active, attempt, flag, dirs,
                   rebuild, lock, runLock, locals>>

SourceUnchanged(w) ==
    /\ pc[w] = "harvest"
    /\ idx.artifact # None
    /\ Goto(w, "select")
    /\ UNCHANGED <<store, lock, runLock, locals>>

\* The saved pair's hash is recorded; a changed pair clears the proof.
MirrorArtifacts(w) ==
    /\ pc[w] = "mirror"
    /\ \E c \in Contents :
          idx' = [idx EXCEPT !.artifact = c,
                             !.proof = IF c = idx.artifact THEN @ ELSE None]
    /\ Goto(w, "select")
    /\ UNCHANGED <<catalog, refs, objs, damaged, active, attempt, flag, dirs,
                   rebuild, lock, runLock, locals>>

\* The work selector captures the SQL state and parses the current pair.
Select(w) ==
    /\ pc[w] = "select"
    /\ \E force \in {FALSE, AllowForce}, g \in GenIds,
          out \in Outcomes[idx.artifact] :
          /\ force \/ NeedsWork
          /\ Fresh(g)
          /\ cand' = [cand EXCEPT ![w] =
                        [id |-> g, content |-> idx.artifact, outcome |-> out,
                         explicit |-> force, expected |-> idx]]
    /\ Goto(w, "prestage")
    /\ UNCHANGED <<store, lock, runLock, todo, prepared, keep, listed, mode>>

SelectNothing(w) ==
    /\ pc[w] = "select"
    /\ ~NeedsWork
    /\ Finish(w)
    /\ UNCHANGED <<store, lock>>

----------------------------------------------------------------------------
(* Lock-free staging. *)

\* Enter the staging loop for w's candidate; an object-less candidate has no
\* transaction to run.
BeginStaging(w, how) ==
    /\ todo' = [todo EXCEPT ![w] = ObjectsOf[cand[w].content]]
    /\ prepared' = [prepared EXCEPT ![w] = how]
    /\ Goto(w, IF ObjectsOf[cand[w].content] = {} THEN "verify" ELSE "stage")

\* StageGenerationBatch: a skip or repair candidate stages nothing.
Prestage(w) ==
    /\ pc[w] = "prestage"
    /\ IF NeedsRepair \/ EqualsActive(cand[w])
       THEN Goto(w, "activate") /\ UNCHANGED <<todo, prepared>>
       ELSE BeginStaging(w, "staging")
    /\ UNCHANGED <<store, lock, runLock, cand, keep, listed, mode>>

\* One staging transaction: the flag first, then inserts that do nothing on
\* a conflict (a damaged stored object stays damaged).
StageBatchTxn(w) ==
    /\ pc[w] = "stage"
    /\ \E batch \in SUBSET todo[w] :
          /\ batch # {}
          /\ objs' = objs \cup batch
          /\ todo' = [todo EXCEPT ![w] = @ \ batch]
          /\ Goto(w, IF batch = todo[w] THEN "verify" ELSE "stage")
    /\ flag' = TRUE
    /\ UNCHANGED <<catalog, refs, damaged, active, attempt, idx, dirs,
                   rebuild, lock, runLock, cand, prepared, keep, listed, mode>>

\* verifyStagedObjects: a swept object fails the staging.  A failed
\* pre-staging only loses the handle; a failed inline staging refuses.
VerifyStagedObjects(w) ==
    /\ pc[w] = "verify"
    /\ LET present == ObjectsOf[cand[w].content] \subseteq objs IN
       \/ /\ present
          /\ prepared' = [prepared EXCEPT ![w] = "yes"]
          /\ Goto(w, IF prepared[w] = "staging" THEN "activate" ELSE "commit")
          /\ UNCHANGED <<cand, todo, keep, listed, mode, runLock>>
       \/ /\ ~present
          /\ prepared[w] = "staging"
          /\ prepared' = [prepared EXCEPT ![w] = "no"]
          /\ Goto(w, "activate")
          /\ UNCHANGED <<cand, todo, keep, listed, mode, runLock>>
       \/ ~present /\ prepared[w] = "inline" /\ Finish(w)
    /\ UNCHANGED <<store, lock>>

----------------------------------------------------------------------------
(* Activation. *)

\* writePath: commit over a claimed handle, else stage inline first.
WritePath(w) ==
    \/ /\ prepared[w] = "yes"
       /\ Goto(w, "commit")
       /\ UNCHANGED <<todo, prepared>>
    \/ prepared[w] # "yes" /\ BeginStaging(w, "inline")

\* withCurrentIndexInput compares the candidate with the metadata file, which
\* another harvest rewrites before it mirrors the pair.
InputMoved(w) ==
    \/ idx.artifact # cand[w].content
    \/ \E v \in Writers \ {w} : pc[v] = "mirror"

\* The current-input guard, then the lock-free routing of ActivateGeneration.
\* A run that wrote the pair itself compares the bytes it holds in memory, so
\* a pair that moved is not always noticed here.
Activate(w) ==
    /\ pc[w] = "activate"
    /\ LET c == cand[w] IN
       \/ InputMoved(w) /\ Finish(w)
       \/ /\ ~Eligible(c) /\ NeedsRepair
          /\ Goto(w, "repair")
          /\ UNCHANGED <<runLock, locals>>
       \/ /\ ~Eligible(c) /\ ~NeedsRepair /\ EqualsActive(c)
          /\ keep' = [keep EXCEPT ![w] = {active}]
          /\ Goto(w, "skip")
          /\ UNCHANGED <<runLock, cand, todo, prepared, listed, mode>>
       \/ /\ Eligible(c) \/ ~(NeedsRepair \/ EqualsActive(c))
          /\ WritePath(w)
          /\ UNCHANGED <<runLock, cand, keep, listed, mode>>
    /\ UNCHANGED <<store, lock>>

\* updateIndexStateWithSessionEntriesHash; an incomplete generation carries
\* no producer stamp and leaves the proof alone.
Stamped(c) ==
    [idx EXCEPT !.proof = IF c.outcome = "incomplete" THEN @ ELSE c.content,
                !.entries = IF c.outcome = "incomplete" THEN @ ELSE c.content]

\* Mutant: the active pointer is not re-read under the lock.
SkipUnchecked(w) ==
    /\ pc[w] = "skip"
    /\ lock = None
    /\ idx' = Stamped(cand[w])
    /\ attempt' = None
    /\ Finish(w)
    /\ UNCHANGED <<catalog, refs, objs, damaged, active, flag, dirs, rebuild,
                   lock>>

\* stampSkippedHarmonized: the active pointer is re-read under the lock; the
\* bookkeeping finalizes the active authority, so the attempt pointer clears.
Skip(w) ==
    /\ pc[w] = "skip"
    /\ lock = None
    /\ \/ /\ active \in keep[w]
          /\ idx' = Stamped(cand[w])
          /\ attempt' = None
          /\ Finish(w)
       \/ /\ active \notin keep[w]
          /\ WritePath(w)
          /\ keep' = [keep EXCEPT ![w] = {}]
          /\ UNCHANGED <<idx, attempt, runLock, cand, listed, mode>>
    /\ UNCHANGED <<catalog, refs, objs, damaged, active, flag, dirs, rebuild,
                   lock>>

\* Mutant: the rewrite replaces every mapping row, the bodies' too.
RepairedRefsOnlyBlobs(R, blobs) == blobs

\* Descriptors of the active generation after the candidate's blobs are
\* re-inserted under their source refs.
RepairedRefs(R, blobs) ==
    {o \in R : o \in Bodies \/ \A b \in blobs : SourceRef[o] # SourceRef[b]}
        \cup blobs

\* repairHarmonizedObjects: the CANDIDATE's objects are rewritten in place;
\* no generation row is inserted and the flag is not set.
Repair(w) ==
    /\ pc[w] = "repair"
    /\ lock = None
    /\ active # None
    /\ LET new == ObjectsOf[cand[w].content] IN
          /\ objs' = objs \cup new
          /\ damaged' = damaged \ new
          /\ refs' = [refs EXCEPT ![active] = RepairedRefs(@, new \cap Blobs)]
    /\ rebuild' = TRUE
    /\ idx' = Stamped(cand[w])
    /\ attempt' = None
    /\ SweepAfterCommit(w)
    /\ UNCHANGED <<catalog, active, flag, dirs, lock>>

\* Mutant: foreign keys are not enforced.
ForeignKeysUnchecked(c) == c.content \in Contents

\* The foreign keys of the mapping and descriptor rows.
ForeignKeysHold(c) == ObjectsOf[c.content] \subseteq objs

\* retainLatestAttemptOnConn: a true no-op, or the previous attempt's rows
\* give way to the candidate's.  The active authority is not touched.
RetainLatestAttempt(w) ==
    LET c == cand[w] IN
    /\ Eligible(c)
    /\ \/ /\ Settled /\ catalog[attempt] = Binding(c)
          /\ UNCHANGED <<catalog, refs, attempt>>
       \/ /\ ~(Settled /\ catalog[attempt] = Binding(c))
          /\ ForeignKeysHold(c)
          /\ catalog' = [g \in GenIds |-> IF g = c.id THEN Binding(c)
                                          ELSE IF g = attempt THEN None
                                          ELSE catalog[g]]
          /\ refs' = [g \in GenIds |-> IF g = c.id THEN ObjectsOf[c.content]
                                       ELSE IF g = attempt THEN {}
                                       ELSE refs[g]]
          /\ attempt' = c.id
    /\ Finish(w)
    /\ UNCHANGED <<objs, damaged, active, flag, idx, dirs, rebuild, lock>>

\* Mutant: a preview may replace certified full content.
InstallableOverFull(c) ==
    /\ ~NeedsRepair
    /\ c.outcome = "incomplete" => \A g \in GenIds : ~Complete(g)
    /\ ForeignKeysHold(c)

\* What the ordinary commit refuses: failing stored objects, an incomplete
\* generation over a complete one, a preview over certified full content.
Installable(c) ==
    /\ ~NeedsRepair
    /\ c.outcome = "incomplete" => \A g \in GenIds : ~Complete(g)
    /\ c.outcome # "full" /\ idx.capture = "full" => c.explicit
    /\ ForeignKeysHold(c)

\* The ordinary commit: catalog row, mapping rows, pointer, capture, stamps.
InstallGeneration(w) ==
    LET c == cand[w] IN
    /\ ~Eligible(c)
    /\ Installable(c)
    /\ catalog' = [catalog EXCEPT ![c.id] = Binding(c)]
    /\ refs' = [refs EXCEPT ![c.id] = ObjectsOf[c.content]]
    /\ active' = c.id
    /\ attempt' = None
    /\ idx' = [Stamped(c) EXCEPT
                 !.entries = c.content,
                 !.capture = IF c.outcome = "full" THEN "full" ELSE "preview"]
    /\ SweepAfterCommit(w)
    /\ UNCHANGED <<objs, damaged, flag, dirs, rebuild, lock>>

\* A compare-and-swap, guard or foreign-key refusal rolls the savepoint back.
CommitRefused(w) ==
    LET c == cand[w] IN
    /\ \/ c.expected # idx
       \/ Eligible(c) /\ ~ForeignKeysHold(c)
                      /\ ~(Settled /\ catalog[attempt] = Binding(c))
       \/ ~Eligible(c) /\ ~Installable(c)
    /\ Finish(w)
    /\ UNCHANGED <<store, lock>>

\* Mutants: no exclusive lock; no compare-and-swap.
MayCommitUnlocked(w) == cand[w].expected = idx
MayCommitStale(w) == lock = None

\* The compare-and-swap and the exclusive lock of commitHarmonizedWrite.
MayCommit(w) == lock = None /\ cand[w].expected = idx

Commit(w) ==
    /\ pc[w] = "commit"
    /\ \/ MayCommit(w) /\ RetainLatestAttempt(w)
       \/ MayCommit(w) /\ InstallGeneration(w)
       \/ lock = None /\ CommitRefused(w)

----------------------------------------------------------------------------
(* Sweep and reclaim.  Both run with `lock` held over several steps. *)

ReclaimBegin(r) ==
    /\ pc[r] = "idle"
    /\ flag
    /\ rebuild' = FALSE
    /\ Goto(r, "lock")
    /\ mode' = [mode EXCEPT ![r] = "reclaim"]
    /\ UNCHANGED <<catalog, refs, objs, damaged, active, attempt, flag, idx,
                   dirs, lock, runLock, cand, todo, prepared, keep, listed>>

\* Mutant: a NULL pointer column is kept as an identifier.
LockSessionKeepsNull(p) ==
    /\ pc[p] = "lock"
    /\ lock = None
    /\ lock' = p
    /\ keep' = [keep EXCEPT ![p] = {active, attempt}]
    /\ Goto(p, IF mode[p] = "reclaim" THEN "rowBodies" ELSE "bounded")
    /\ UNCHANGED <<store, runLock, cand, todo, prepared, listed, mode>>

\* LockExclusive, then generationKeepSet.  A reclaim also lists the
\* directories it will unlink between its two lock spans.
LockSession(p) ==
    /\ pc[p] = "lock"
    /\ lock = None
    /\ lock' = p
    /\ keep' = [keep EXCEPT ![p] = KeepSet]
    /\ IF mode[p] = "reclaim"
       THEN /\ listed' = [listed EXCEPT ![p] = dirs \ KeepSet]
            /\ Goto(p, "rowBodies")
       ELSE /\ Goto(p, "bounded")
            /\ UNCHANGED listed
    /\ UNCHANGED <<store, runLock, cand, todo, prepared, mode>>

\* Objects that only rows outside K reference, or none does.
DoomedObjects(K) == objs \ UNION {refs[g] : g \in K \cap GenIds}

\* One transaction may sweep everything: no directory, at most SweepRows
\* rows, a healthy search index, and only trusted bodies to delete.
BoundedApplies(K) ==
    /\ dirs = {}
    /\ Cardinality(SupersededRefs(K, Objects)) + Cardinality(SupersededRows(K))
         + Cardinality(DoomedObjects(K)) <= SweepRows
    /\ ~rebuild
    /\ DoomedObjects(K) \cap Bodies \cap damaged = {}

SweepBounded(p) ==
    /\ pc[p] = "bounded"
    /\ LET K == keep[p] IN
       \/ /\ BoundedApplies(K)
          /\ catalog' = [g \in GenIds |-> IF g \in K THEN catalog[g] ELSE None]
          /\ refs' = [g \in GenIds |-> IF g \in K THEN refs[g] ELSE {}]
          /\ objs' = objs \ DoomedObjects(K)
          /\ damaged' = damaged \ DoomedObjects(K)
          /\ flag' = FALSE
          /\ lock' = None
          /\ SweepReturns(p)
       \/ /\ ~BoundedApplies(K)
          /\ Goto(p, "rowBodies")
          /\ UNCHANGED <<catalog, refs, objs, damaged, flag, lock, runLock,
                         locals>>
    /\ UNCHANGED <<active, attempt, idx, dirs, rebuild>>

\* deleteSupersededBatch on one mapping table; an empty batch ends its loop.
DeleteSupersededRefs(p, at, kind, next) ==
    /\ pc[p] = at
    /\ \E batch \in Batches(SupersededRefs(keep[p], kind)) :
          /\ refs' = [g \in GenIds |->
                        {o \in refs[g] : <<g, o>> \notin batch}]
          /\ Goto(p, IF batch = {} THEN next ELSE at)
    /\ UNCHANGED <<catalog, objs, damaged, active, attempt, flag, idx, dirs,
                   rebuild, lock, runLock, locals>>

\* The catalog table closes the inventory; its deletes cascade.  A reclaim
\* then RELEASES the lock for its directory pass.
DeleteSupersededCatalog(p) ==
    /\ pc[p] = "rowCatalog"
    /\ \E batch \in Batches(SupersededRows(keep[p])) :
          /\ catalog' = [g \in GenIds |-> IF g \in batch THEN None
                                          ELSE catalog[g]]
          /\ refs' = [g \in GenIds |-> IF g \in batch THEN {} ELSE refs[g]]
          /\ \/ batch # {} /\ UNCHANGED <<pc, lock, keep>>
             \/ /\ batch = {} /\ mode[p] # "reclaim"
                /\ Goto(p, "dirs")
                /\ UNCHANGED <<lock, keep>>
             \/ /\ batch = {} /\ mode[p] = "reclaim"
                /\ Goto(p, "unlink")
                /\ lock' = None
                /\ keep' = [keep EXCEPT ![p] = {}]
    /\ UNCHANGED <<objs, damaged, active, attempt, flag, idx, dirs, rebuild,
                   runLock, cand, todo, prepared, listed, mode>>

\* removeLeftoverGenerationDirs, under the sweep's own lock.
SweepDirs(p) ==
    /\ pc[p] = "dirs"
    /\ \/ /\ \E g \in dirs \ keep[p] : dirs' = dirs \ {g}
          /\ UNCHANGED pc
       \/ dirs \subseteq keep[p] /\ Goto(p, "listBodies") /\ UNCHANGED dirs
    /\ UNCHANGED <<catalog, refs, objs, damaged, active, attempt, flag, idx,
                   rebuild, lock, runLock, locals>>

\* CleanupInactiveGeneration: re-locks and re-checks one directory at a time;
\* a refusal is a warning that keeps the flag set.
UnlinkDir(r) ==
    /\ pc[r] = "unlink"
    /\ lock = None
    /\ \E g \in listed[r] :
          /\ listed' = [listed EXCEPT ![r] = @ \ {g}]
          /\ \/ g \notin KeepSet /\ dirs' = dirs \ {g} /\ UNCHANGED mode
             \/ /\ g \in KeepSet \/ AllowCrash
                /\ mode' = [mode EXCEPT ![r] = "warned"]
                /\ UNCHANGED dirs
    /\ UNCHANGED <<catalog, refs, objs, damaged, active, attempt, flag, idx,
                   rebuild, lock, runLock, pc, cand, todo, prepared, keep>>

UnlinkDone(r) ==
    /\ pc[r] = "unlink"
    /\ listed[r] = {}
    /\ Goto(r, "relock")
    /\ UNCHANGED <<store, lock, runLock, locals>>

\* The reclaim's second lock span: only the object steps.
RelockSession(r) ==
    /\ pc[r] = "relock"
    /\ lock = None
    /\ lock' = r
    /\ Goto(r, "listBodies")
    /\ UNCHANGED <<store, runLock, locals>>

\* unreferencedBodyDigests / unreferencedBlobDigests: a read of its own.
ListUnreferenced(p, at, kind, drop, next) ==
    /\ pc[p] = at
    /\ \E batch \in Batches(Unreferenced(kind)) :
          /\ listed' = [listed EXCEPT ![p] = batch]
          /\ Goto(p, IF batch = {} THEN next ELSE drop)
    /\ UNCHANGED <<store, lock, runLock, cand, todo, prepared, keep, mode>>

\* deleteVerifiedBodies / deleteUnreferencedBlobs: deletes the LISTED digests
\* in a later transaction; a foreign key refuses a referenced one.  A body
\* that fails verification flags the search index.
DropListed(p, at, kind, next) ==
    /\ pc[p] = at
    /\ listed[p] \cap Referenced = {}
    /\ objs' = objs \ listed[p]
    /\ damaged' = damaged \ listed[p]
    /\ rebuild' = (rebuild \/ listed[p] \cap kind \cap Bodies \cap damaged # {})
    /\ listed' = [listed EXCEPT ![p] = {}]
    /\ Goto(p, next)
    /\ UNCHANGED <<catalog, refs, active, attempt, flag, idx, dirs, lock,
                   runLock, cand, todo, prepared, keep, mode>>

RebuildSearchIndex(p) ==
    /\ pc[p] = "rebuild"
    /\ rebuild' = FALSE
    /\ Goto(p, "clear")
    /\ UNCHANGED <<catalog, refs, objs, damaged, active, attempt, flag, idx,
                   dirs, lock, runLock, locals>>

\* clearSweepFlag (a warned reclaim keeps the flag) and the release.
ClearSweepFlag(p) ==
    /\ pc[p] = "clear"
    /\ flag' = (flag /\ mode[p] = "warned")
    /\ lock' = None
    /\ SweepReturns(p)
    /\ UNCHANGED <<catalog, refs, objs, damaged, active, attempt, idx, dirs,
                   rebuild>>

SweepStep(p) ==
    \/ LockSession(p)
    \/ SweepBounded(p)
    \/ DeleteSupersededRefs(p, "rowBodies", Bodies, "rowBlobs")
    \/ DeleteSupersededRefs(p, "rowBlobs", Blobs, "rowCatalog")
    \/ DeleteSupersededCatalog(p)
    \/ SweepDirs(p)
    \/ ListUnreferenced(p, "listBodies", Bodies, "dropBodies", "listBlobs")
    \/ DropListed(p, "dropBodies", Bodies, "listBodies")
    \/ ListUnreferenced(p, "listBlobs", Blobs, "dropBlobs", "rebuild")
    \/ DropListed(p, "dropBlobs", Blobs, "listBlobs")
    \/ RebuildSearchIndex(p)
    \/ ClearSweepFlag(p)

\* A sweep transaction fails or its context ends: the lock is released, the
\* committed batches stay, the flag stays, the caller goes on with a warning.
SweepFails(p) ==
    /\ AllowCrash
    /\ pc[p] \in SweepPCs
    /\ lock' = None
    /\ SweepReturns(p)
    /\ UNCHANGED store

----------------------------------------------------------------------------
(* Faults. *)

\* The process dies: the kernel drops its locks, the store keeps what was
\* committed.
Crash(p) ==
    /\ AllowCrash
    /\ pc[p] # "idle"
    /\ lock' = IF lock = p THEN None ELSE lock
    /\ Finish(p)
    /\ UNCHANGED store

\* Stored bytes of one object stop matching its digest.
Rot ==
    /\ AllowRot
    /\ \E o \in objs \ damaged : damaged' = damaged \cup {o}
    /\ UNCHANGED <<catalog, refs, objs, active, attempt, flag, idx, dirs,
                   rebuild, lock, runLock, pc, locals>>

----------------------------------------------------------------------------
Init ==
    /\ catalog = [g \in GenIds |-> None]
    /\ refs = [g \in GenIds |-> {}]
    /\ objs = {} /\ damaged = {}
    /\ active = None /\ attempt = None
    /\ flag = (Leftover # {})
    /\ idx = [artifact |-> None, proof |-> None, entries |-> None,
              capture |-> None]
    /\ dirs = Leftover
    /\ rebuild = FALSE
    /\ lock = None /\ runLock = None
    /\ pc = [p \in Procs |-> "idle"]
    /\ cand = [p \in Procs |-> None]
    /\ todo = [p \in Procs |-> {}]
    /\ prepared = [p \in Procs |-> "no"]
    /\ keep = [p \in Procs |-> {}]
    /\ listed = [p \in Procs |-> {}]
    /\ mode = [p \in Procs |-> "none"]

HarvestStep(w) ==
    \/ HarvestBegin(w)
    \/ PrepareArtifactInstall(w)
    \/ SourceUnchanged(w)
    \/ MirrorArtifacts(w)
    \/ Select(w)
    \/ SelectNothing(w)
    \/ Prestage(w)
    \/ StageBatchTxn(w)
    \/ VerifyStagedObjects(w)
    \/ Activate(w)
    \/ Skip(w)
    \/ Repair(w)
    \/ Commit(w)
    \/ SweepStep(w)

ReclaimGoesOn(r) ==
    \/ UnlinkDir(r)
    \/ UnlinkDone(r)
    \/ RelockSession(r)
    \/ SweepStep(r)

ReclaimStep(r) == ReclaimBegin(r) \/ ReclaimGoesOn(r)

Next ==
    \/ \E w \in Writers : HarvestStep(w)
    \/ \E r \in Reclaimers : ReclaimStep(r)
    \/ \E p \in Procs : SweepFails(p) \/ Crash(p)
    \/ Rot

Spec == Init /\ [][Next]_vars

(***************************************************************************)
(* Fairness.  Harvests are run again and again, and a started harvest or   *)
(* reclaim goes on; nobody has to start a reclaim.  LockExclusive polls a  *)
(* non-blocking flock every 2 ms until its context ends, so a process that *)
(* waits for the session lock gets it when the lock is free again and      *)
(* again: the steps that need the lock are strongly fair.                  *)
(***************************************************************************)
NeedsLock(p) ==
    \/ LockSession(p)
    \/ p \in Writers /\ (Skip(p) \/ Repair(p) \/ Commit(p))
    \/ p \in Reclaimers /\ (UnlinkDir(p) \/ RelockSession(p))

Fairness ==
    /\ \A w \in Writers : WF_vars(HarvestStep(w)) /\ SF_vars(NeedsLock(w))
    /\ \A r \in Reclaimers : WF_vars(ReclaimGoesOn(r)) /\ SF_vars(NeedsLock(r))

FairSpec == Spec /\ Fairness

----------------------------------------------------------------------------
(* Properties. *)

\* Type invariant.
TypeOK ==
    /\ catalog \in [GenIds -> Bindings \cup {None}]
    /\ refs \in [GenIds -> SUBSET Objects]
    /\ objs \subseteq Objects
    /\ damaged \subseteq objs
    /\ active \in GenIds \cup {None}
    /\ attempt \in GenIds \cup {None}
    /\ flag \in BOOLEAN
    /\ idx \in IndexStates
    /\ dirs \subseteq GenIds
    /\ rebuild \in BOOLEAN
    /\ lock \in Procs \cup {None}
    /\ runLock \in Procs \cup {None}
    /\ pc \in [Procs -> PCs]
    /\ cand \in [Procs -> Candidates \cup {None}]
    /\ todo \in [Procs -> SUBSET Objects]
    /\ prepared \in [Procs -> {"no", "staging", "inline", "yes"}]
    /\ keep \in [Procs -> SUBSET GenIds]
    /\ listed \in [Procs -> SUBSET (GenIds \cup Objects)]
    /\ mode \in [Procs -> {"none", "start", "after", "reclaim", "warned"}]

\* A generation a reader can follow to the end: its row exists, every body
\* of its content is mapped, and every mapped object is stored.
Intact(g) ==
    /\ catalog[g] # None
    /\ ObjectsOf[catalog[g].content] \cap Bodies \subseteq refs[g]
    /\ refs[g] \subseteq objs

\* Whatever lock-free staging, sweeps, reclaims, failures and crashes do, the
\* active generation and the latest attempt stay readable (the sweep never
\* deletes live content; a crash leaves the old or the new generation).
LiveGenerationsIntact == \A g \in KeepSet : Intact(g)

\* The keep set a sweep or a reclaim read when it locked the session still
\* names the live generations whenever it deletes rows by it: no pointer
\* moves inside the lock span.
KeepSetIsCurrent ==
    \A p \in Procs :
        pc[p] \in {"bounded", "rowBodies", "rowBlobs", "rowCatalog", "dirs"}
            => lock = p /\ keep[p] = KeepSet

\* Digests listed for deletion in one transaction are still unreferenced when
\* the next one deletes them, although staging runs without the lock: the
\* foreign-key refusal of deleteVerifiedBodies never fires.
ListedStaysUnreferenced ==
    \A p \in Procs :
        pc[p] \in {"dropBodies", "dropBlobs"}
            => listed[p] \cap Referenced = {}

\* A latest attempt exists only beside a certified full authority that is
\* another generation: every finalization and every downgrade retires it.
AttemptBesideFullAuthority ==
    attempt # None =>
        /\ active \notin {None, attempt}
        /\ idx.capture = "full"

\* The stored input proof names the input the active generation was built
\* from (store_iface.go: "the proof that the stored index consumed a specific
\* captured input"), so an equal hash may stop the next harvest.
ProofMatchesActive ==
    idx.proof # None =>
        active # None /\ catalog[active].content = idx.proof

\* A session holds superseded rows or orphan objects only while its sweep
\* flag is set (the claim reclaimCandidateSessions selects by).
FlagCoversGarbage ==
    flag \/ (SupersededRows(KeepSet) = {} /\ Unreferenced(Objects) = {})

\* Certified full content gives way to a preview only through an explicit
\* rebuild, never through an ordinary harvest that raced anything.
FullOnlyDowngradedExplicitly ==
    [][idx.capture = "full" /\ idx'.capture # "full"
         => \E w \in Writers : pc[w] = "commit" /\ cand[w].explicit]_vars

\* A generation is installed only for the pair the session row names at that
\* moment: work parsed from a pair that was replaced meanwhile never becomes
\* the authority.
InstalledInputIsCurrent ==
    [][active' # active => catalog'[active'].content = idx.artifact]_vars

\* What a read through generation g returns.
Seen(g) ==
    IF g = None \/ catalog[g] = None THEN None
    ELSE [content |-> catalog[g].content, complete |-> catalog[g].complete,
          objects |-> refs[g] \cap objs]

Authority == INSTANCE SessionAuthority
             WITH authority <- Seen(active), latest <- Seen(attempt),
                  capture <- idx.capture

\* Without bit rot the store implements the abstract registers: each step is
\* invisible or installs, retains or retires one whole view.
AuthoritySpec == Authority!Spec

\* A set sweep flag is cleared again: every flagged session is swept by the
\* commit's own sweep, the next harvest start or a reclaim.
FlagEventuallyCleared == flag ~> ~flag

\* When the source stops changing, harvests consume it: the proof names it or
\* a retained attempt settles it, again and again, whatever was refused before.
CurrentInputConsumed ==
    \A c \in Contents :
        Outcomes[c] \subseteq {"full", "omitted"} =>
            (<>[](idx.artifact = c) => []<>(idx.proof = c \/ Settled))
==============================================================================
