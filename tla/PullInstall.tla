----------------------------- MODULE PullInstall -----------------------------
(***************************************************************************)
(* `peasant village transcripts pull` of ONE transcript (internal/pull):   *)
(* the pipeline that reads a transcript from the village and installs it   *)
(* as a directory of three files plus a row of the local index.            *)
(*                                                                         *)
(* An install stages the files in a directory of its own, names them in a  *)
(* journal, moves the previous directory aside, renames the stage into     *)
(* place, commits the row, and only then drops the backup and the journal. *)
(* Every file-system call is one action, so that a process may die between *)
(* any two of them; the next pull runs the same recovery.  Pulls of one    *)
(* transcript hold one advisory lock from before the metadata is read      *)
(* until they return.  A dry run takes no lock and writes nothing.         *)
(***************************************************************************)
EXTENDS Integers, FiniteSets

CONSTANTS
    Pullers,      \* processes that run a pull
    Refreshers,   \* processes that refresh annotations (RefreshOwnAnnotations)
    Blobs,        \* content hashes; a blob IS its hash
    Titles,       \* descriptive metadata other than the owner
    People,       \* accounts the village shows as a profile
    Anon,         \* a person the village shows anonymously
    NoNote,       \* the transcript has no annotation
    Garbage,      \* bytes with no recorded hash
    Torn,         \* files half written or half removed
    None,
    MaxInstalls,  \* bound on installs started
    Budgets,      \* the bounds, by kind, on what the environment may do in a
                  \* behaviour
    BulkListing,  \* pulls may be given the metadata of an earlier listing
    WalLoss       \* a power loss may take back the last index commits

Kinds == {"server", "fault", "crash", "power", "damage", "refresh"}

ASSUME ConstantsAssumption ==
    /\ MaxInstalls \in Nat \ {0}
    /\ Budgets \subseteq [Kinds -> Nat]
    /\ {BulkListing, WalLoss} \subseteq BOOLEAN
    /\ Anon \notin People
    /\ NoNote \notin People \cup {Anon}
    /\ Garbage \notin Blobs
    /\ None \notin Blobs \cup People \cup {Anon, NoNote}

Persons == People \cup {Anon}
Notes == Persons \cup {NoNote}
Installs == 1..MaxInstalls

Metas == [title : Titles, owner : Persons]
\* manifest.json: what was served, and the people the copy names.
Manifests == [hash : Blobs, owner : Persons, notes : Notes, at : Installs]
\* A complete file set: transcript, manifest.json, metadata.json.
Copies == [blob : Blobs \cup {Garbage}, manifest : Manifests, meta : Metas]
\* A pulled_transcripts row; `noted` is its annotation count.
Rows == [hash : Blobs, meta : Metas, noted : BOOLEAN]
\* The digest of a file set names exactly its bytes, so it is the set.
Journals == [stage : Installs, digest : Copies, row : Rows, notes : Notes,
             replaceInvalid : BOOLEAN, metadataOnly : BOOLEAN]
Stages == [mark : BOOLEAN, files : Copies \cup Metas \cup {None, Torn}]

ASSUME NoneAssumption ==
    None \notin Copies \cup Rows \cup Journals \cup Stages \cup Metas
                \cup Manifests \cup Pullers
ASSUME TornAssumption == Torn \notin Copies

VARIABLES
    srv,      \* the village: blob, title, owner and annotation it shows
    fs,       \* the file tree of the transcript
    images,   \* the trees a power loss may leave: those since the last sync
    row,      \* pulled_transcripts
    noteRow,  \* pulled_annotations
    rows,     \* the index states a power loss may leave
    lock,     \* holder of the per-transcript install lock
    clock,    \* installs started; names stages and stamps manifests
    pc, job,  \* per puller: next step and what it holds in memory
    seen,     \* per refresher: the annotation it fetched, or None
    left      \* what is left of the environment's budget

index == <<row, noteRow, rows>>
vars == <<srv, fs, images, index, lock, clock, pc, job, seen, left>>

Trees == [final : Copies \cup {None}, previous : Copies \cup {None, Torn},
          stages : [Installs -> Stages \cup {None}],
          journal : Journals \cup {None}, journalTmp : Journals \cup {None},
          prevMeta : Metas \cup {None}, prevMetaTmp : Metas \cup {None}]
Servers == [blob : Blobs, title : Titles, owner : Persons, notes : Notes]
Jobs == [force : BOOLEAN, meta : Metas \cup {None},
         advert : Blobs \cup {None}, stored : Manifests \cup {None},
         refresh : BOOLEAN, blob : Blobs \cup {Garbage, None},
         hash : Blobs \cup {None}, notes : Notes \cup {None},
         id : Installs \cup {0}, metadataOnly : BOOLEAN,
         recovering : BOOLEAN, faulted : BOOLEAN,
         status : {"running", "ok", "error"}]

StagePCs == {"mkstage", "mark", "write", "rewrite", "stageSync", "digest",
             "journalTmpSync", "journalRename", "journalSync"}
MovePCs == {"recover", "asideSync", "publish", "prevMetaTmpSync",
            "prevMetaRename", "prevMetaSync", "metaRename", "barrier",
            "verify", "dropBackup", "backupSync", "dropJournal", "doneSync",
            "clean"}
ReadPCs == {"meta", "diff", "download", "notes", "update"}
PCs == {"idle", "lock", "report"} \cup StagePCs \cup MovePCs \cup ReadPCs

Holding(p) == pc[p] \notin {"idle", "lock"}

----------------------------------------------------------------------------
(* What the code computes. *)

\* contentDigest succeeds: the blob has the manifest's hash and manifest and
\* metadata name one owner.
Valid(c) ==
    /\ c \notin {None, Torn}
    /\ c.blob = c.manifest.hash
    /\ c.manifest.owner = c.meta.owner

\* buildCommit: the row a file set is indexed as.
Projection(c) == [hash |-> c.manifest.hash, meta |-> c.meta,
                  noted |-> c.manifest.notes # NoNote]

\* validateProjection: the journaled rows are the ones of the files.
ProjectionHolds(c, j) ==
    /\ j.row = Projection(c)
    /\ j.notes = IF j.metadataOnly THEN NoNote ELSE c.manifest.notes

\* The file set the journal's stage publishes, over the current directory
\* when it only replaces metadata.json.
Replacement(j) ==
    LET f == fs.stages[j.stage].files
    IN  IF j.metadataOnly THEN [fs.final EXCEPT !.meta = f] ELSE f

\* The stage of the journal still holds what it is to publish.
Staged(j) ==
    /\ fs.stages[j.stage] # None
    /\ j.metadataOnly => fs.stages[j.stage].files # None

\* A file set is what the journal recorded.
AsJournaled(c, j) ==
    /\ Valid(c)
    /\ c = j.digest
    /\ ProjectionHolds(c, j)

\* The stage is owned by this transcript and holds what was journaled.
StageIntact(j) ==
    /\ fs.stages[j.stage].mark
    /\ j.metadataOnly => fs.final # None
    /\ AsJournaled(Replacement(j), j)

\* Mutants: the previous files are not checked, or --force does not count.
FinalReplaceableUnchecked(j, force) ==
    j.metadataOnly \/ fs.final = None \/ fs.previous = None

FinalReplaceableUnforced(j, force) ==
    j.metadataOnly \/ fs.final = None
    \/ /\ Valid(fs.final) \/ j.replaceInvalid
       /\ fs.previous = None

\* The previous directory may be replaced as it is.
FinalReplaceable(j, force) ==
    j.metadataOnly \/ fs.final = None
    \/ /\ Valid(fs.final) \/ j.replaceInvalid \/ force
       /\ fs.previous = None

\* storedAuthorsChanged: an annotation the manifest records has another author.
AuthorsChanged(manifest, fresh) == fresh # NoNote /\ fresh # manifest.notes

NewJob == [force |-> FALSE, meta |-> None, advert |-> None, stored |-> None,
           refresh |-> FALSE, blob |-> None, hash |-> None, notes |-> None,
           id |-> 0, metadataOnly |-> FALSE, recovering |-> TRUE,
           faulted |-> FALSE, status |-> "running"]

EmptyTree == [final |-> None, previous |-> None,
              stages |-> [s \in Installs |-> None],
              journal |-> None, journalTmp |-> None,
              prevMeta |-> None, prevMetaTmp |-> None]

Init ==
    /\ srv \in Servers
    /\ fs = EmptyTree
    /\ row = None
    /\ noteRow = NoNote
    /\ rows = {[row |-> None, notes |-> NoNote]}
    /\ lock = None
    /\ clock = 0
    /\ pc = [p \in Pullers |-> "idle"]
    /\ job = [p \in Pullers |-> NewJob]
    /\ seen = [r \in Refreshers |-> None]
    /\ left \in Budgets
    /\ images = IF left["power"] = 0 THEN {} ELSE {EmptyTree}

\* Trees a power loss may leave; not recorded once no power loss can follow.
Track(trees) == IF left["power"] = 0 THEN {} ELSE trees

\* p changes the tree and goes on at `next`; a power loss may undo the change.
Write(p, tree, next) ==
    /\ fs' = tree
    /\ images' = Track(images \cup {tree})
    /\ pc' = [pc EXCEPT ![p] = next]
    /\ UNCHANGED <<srv, index, lock, seen, left>>

\* p reads, and goes on at `next` with j in memory.
Proceed(p, j, next) ==
    /\ job' = [job EXCEPT ![p] = j]
    /\ pc' = [pc EXCEPT ![p] = next]
    /\ UNCHANGED <<srv, fs, images, index, clock, seen, left>>

Return(p, status) == [job[p] EXCEPT !.status = status]

Spend(kind) == left[kind] > 0 /\ left' = [left EXCEPT ![kind] = @ - 1]

----------------------------------------------------------------------------
(* Reading the village. *)

\* Mutant: the metadata is read before the lock is taken.
StartPullReadsFirst(p) ==
    /\ pc[p] = "idle"
    /\ \E force \in BOOLEAN :
          Proceed(p, [NewJob EXCEPT !.force = force,
                         !.meta = [title |-> srv.title, owner |-> srv.owner],
                         !.advert = srv.blob], "lock")
    /\ UNCHANGED lock

\* The command is started, by itself or for one row of a bulk listing.
StartPull(p) ==
    /\ pc[p] = "idle"
    /\ \E force \in BOOLEAN :
          \/ Proceed(p, [NewJob EXCEPT !.force = force], "lock")
          \/ /\ BulkListing
             /\ Proceed(p, [NewJob EXCEPT !.force = force,
                               !.meta = [title |-> srv.title,
                                         owner |-> srv.owner],
                               !.advert = srv.blob], "lock")
    /\ UNCHANGED lock

LockInstall(p) ==
    /\ pc[p] = "lock"
    /\ lock = None
    /\ lock' = p
    /\ Proceed(p, job[p], "meta")

\* FETCH-META, unless the caller passed the listing's row.
FetchMeta(p) ==
    /\ pc[p] = "meta"
    /\ IF job[p].meta # None
       THEN Proceed(p, job[p], "recover")
       ELSE \E advert \in {srv.blob, None} :
               Proceed(p, [job[p] EXCEPT !.meta = [title |-> srv.title,
                                                   owner |-> srv.owner],
                                         !.advert = advert], "recover")
    /\ UNCHANGED lock

\* Mutant: annotations are not read again for a copy that names an author.
DiffKeepsAuthors(p) ==
    /\ pc[p] = "diff"
    /\ LET stored == IF Valid(fs.final) THEN fs.final.manifest ELSE None
           refresh == \/ job[p].force
                      \/ stored # None /\ stored.owner # job[p].meta.owner
           next == IF ~refresh /\ stored # None /\ stored.hash = job[p].advert
                   THEN "update" ELSE "download"
       IN  Proceed(p, [job[p] EXCEPT !.stored = stored, !.refresh = refresh],
                   next)
    /\ UNCHANGED lock

\* Mutant: --force only matters to the recovery.
DiffIgnoresForce(p) ==
    /\ pc[p] = "diff"
    /\ LET stored == IF Valid(fs.final) THEN fs.final.manifest ELSE None
           refresh == stored # None /\ stored.owner # job[p].meta.owner
           next == IF ~refresh /\ stored # None /\ stored.hash = job[p].advert
                   THEN "update" ELSE "download"
       IN  Proceed(p, [job[p] EXCEPT !.stored = stored, !.refresh = refresh],
                   next)
    /\ UNCHANGED lock

\* DIFF: what is stored, whether its people are still shown as stored, and
\* whether the advertised hash already decides.
Diff(p) ==
    /\ pc[p] = "diff"
    /\ LET stored == IF Valid(fs.final) THEN fs.final.manifest ELSE None
           ownerChanged == /\ stored # None
                           /\ stored.owner # job[p].meta.owner
           reread == /\ ~job[p].force /\ ~ownerChanged
                     /\ stored # None /\ stored.notes \in People
           refresh == \/ job[p].force \/ ownerChanged
                      \/ reread /\ AuthorsChanged(stored, srv.notes)
           next == IF ~refresh /\ stored # None /\ stored.hash = job[p].advert
                   THEN "update" ELSE "download"
       IN  Proceed(p, [job[p] EXCEPT
                          !.stored = stored,
                          !.refresh = refresh,
                          !.notes = IF reread THEN srv.notes ELSE None], next)
    /\ UNCHANGED lock

\* DOWNLOAD.  A 304 and a body with the stored hash both leave the stored
\* content in place.
Download(p) ==
    /\ pc[p] = "download"
    /\ LET held == job[p].stored
       IN  Proceed(p, [job[p] EXCEPT !.blob = srv.blob, !.hash = srv.blob],
                   IF ~job[p].refresh /\ held # None /\ held.hash = srv.blob
                   THEN "update" ELSE "notes")
    /\ UNCHANGED lock

\* The body does not have the hash its ETag names.
DownloadCorrupt(p) ==
    /\ pc[p] = "download"
    /\ Spend("fault")
    /\ job' = [job EXCEPT ![p].blob = Garbage, ![p].hash = srv.blob,
                          ![p].faulted = TRUE]
    /\ pc' = [pc EXCEPT ![p] = "notes"]
    /\ UNCHANGED <<srv, fs, images, index, lock, clock, seen>>

FetchAnnotations(p) ==
    /\ pc[p] = "notes"
    /\ LET notes == IF job[p].notes = None THEN srv.notes ELSE job[p].notes
       IN  Proceed(p, [job[p] EXCEPT !.notes = notes], "mkstage")
    /\ UNCHANGED lock

\* Mutant: an unchanged copy is compared again, not reported.
UpdateMetadataAgain(p) ==
    /\ pc[p] = "update"
    /\ fs.final # None
    /\ IF fs.final.meta = job[p].meta
       THEN Proceed(p, job[p], "diff")
       ELSE Proceed(p, [job[p] EXCEPT !.metadataOnly = TRUE], "mkstage")
    /\ UNCHANGED lock

\* updateMetadata: nothing to do, or an install of metadata.json alone.
UpdateMetadata(p) ==
    /\ pc[p] = "update"
    /\ IF fs.final = None
       THEN Proceed(p, Return(p, "error"), "report")
       ELSE IF fs.final.meta = job[p].meta
            THEN Proceed(p, Return(p, "ok"), "report")
            ELSE Proceed(p, [job[p] EXCEPT !.metadataOnly = TRUE], "mkstage")
    /\ UNCHANGED lock

----------------------------------------------------------------------------
(* installContent: stage, then journal. *)

MakeStage(p) ==
    /\ pc[p] = "mkstage"
    /\ clock < MaxInstalls
    /\ clock' = clock + 1
    /\ job' = [job EXCEPT ![p].id = clock + 1]
    /\ Write(p, [fs EXCEPT !.stages[clock + 1] =
                              [mark |-> FALSE, files |-> None]], "mark")

\* The bound on installs is reached: the stage directory cannot be made.
NoRoom(p) ==
    /\ pc[p] = "mkstage"
    /\ clock = MaxInstalls
    /\ Proceed(p, [Return(p, "error") EXCEPT !.faulted = TRUE], "report")
    /\ UNCHANGED lock

MarkStage(p) ==
    /\ pc[p] = "mark"
    /\ Write(p, [fs EXCEPT !.stages[job[p].id].mark = TRUE], "write")
    /\ UNCHANGED <<clock, job>>

\* The files exist before all of their bytes do.
BeginStageFiles(p) ==
    /\ pc[p] = "write"
    /\ Write(p, [fs EXCEPT !.stages[job[p].id].files = Torn], "rewrite")
    /\ UNCHANGED <<clock, job>>

StageContent(p) ==
    IF job[p].metadataOnly
    THEN job[p].meta
    ELSE [blob |-> job[p].blob,
          manifest |-> [hash |-> job[p].hash, owner |-> job[p].meta.owner,
                        notes |-> job[p].notes, at |-> job[p].id],
          meta |-> job[p].meta]

StageFiles(p) ==
    /\ pc[p] = "rewrite"
    /\ Write(p, [fs EXCEPT !.stages[job[p].id].files = StageContent(p)],
             "stageSync")
    /\ UNCHANGED <<clock, job>>

\* The file set the install will publish, digested before it is journaled.
Installing(p) ==
    IF job[p].metadataOnly
    THEN IF fs.final = None THEN None
         ELSE [fs.final EXCEPT !.meta = job[p].meta]
    ELSE fs.stages[job[p].id].files

JournalOf(p) ==
    LET c == Installing(p)
        metadataOnly == job[p].metadataOnly
    IN  [stage |-> job[p].id, digest |-> c, row |-> Projection(c),
         notes |-> IF metadataOnly THEN NoNote ELSE c.manifest.notes,
         replaceInvalid |-> job[p].force /\ ~metadataOnly,
         metadataOnly |-> metadataOnly]

\* The digest is bound to the staged bytes, and journal.json.tmp written.
WriteJournal(p) ==
    /\ pc[p] = "digest"
    /\ Valid(Installing(p))
    /\ Write(p, [fs EXCEPT !.journalTmp = JournalOf(p)], "journalTmpSync")
    /\ UNCHANGED <<clock, job>>

DigestRefused(p) ==
    /\ pc[p] = "digest"
    /\ ~Valid(Installing(p))
    /\ Proceed(p, Return(p, "error"), "report")
    /\ UNCHANGED lock

RenameJournal(p) ==
    /\ pc[p] = "journalRename"
    /\ Write(p, [fs EXCEPT !.journal = fs.journalTmp, !.journalTmp = None],
             "journalSync")
    /\ job' = [job EXCEPT ![p].recovering = FALSE]
    /\ UNCHANGED clock

----------------------------------------------------------------------------
(* recoverInstall and recoverMetadata: publish what the journal names.  A  *)
(* pull runs them before its DIFF, to finish an earlier install, and after *)
(* it has journaled its own.                                               *)

\* Mutant: the backup is dropped without the index commit.
AfterSyncWithoutCommit ==
    [stageSync |-> "digest", journalTmpSync |-> "journalRename",
     journalSync |-> "recover", asideSync |-> "publish",
     prevMetaTmpSync |-> "prevMetaRename", prevMetaSync |-> "metaRename",
     barrier |-> "dropBackup", backupSync |-> "dropJournal",
     doneSync |-> "clean"]

\* A flush succeeds: a power loss can no longer undo what precedes it.
AfterSync == [stageSync |-> "digest", journalTmpSync |-> "journalRename",
              journalSync |-> "recover", asideSync |-> "publish",
              prevMetaTmpSync |-> "prevMetaRename",
              prevMetaSync |-> "metaRename", barrier |-> "verify",
              backupSync |-> "dropJournal", doneSync |-> "clean"]

Sync(p) ==
    /\ pc[p] \in DOMAIN AfterSync
    /\ images' = Track({fs})
    /\ pc' = [pc EXCEPT ![p] = AfterSync[pc[p]]]
    /\ UNCHANGED <<srv, fs, index, lock, clock, job, seen, left>>

\* No journal: the previous install is over.
RecoverNothing(p) ==
    /\ pc[p] = "recover"
    /\ fs.journal = None
    /\ Proceed(p, job[p], "clean")
    /\ UNCHANGED lock

\* Mutant: a rename another process did is taken to be flushed.
RecoverPublishedUnflushed(p) ==
    /\ pc[p] = "recover"
    /\ fs.journal # None
    /\ ~Staged(fs.journal)
    /\ Proceed(p, job[p], "verify")
    /\ UNCHANGED lock

\* Nothing staged any more: the rename was done, its flush may not have been.
RecoverPublished(p) ==
    /\ pc[p] = "recover"
    /\ fs.journal # None
    /\ ~Staged(fs.journal)
    /\ Proceed(p, job[p], "barrier")
    /\ UNCHANGED lock

RecoverRefuses(p) ==
    /\ pc[p] = "recover"
    /\ fs.journal # None
    /\ Staged(fs.journal)
    /\ ~(/\ StageIntact(fs.journal)
         /\ FinalReplaceable(fs.journal, job[p].force))
    /\ Proceed(p, Return(p, "error"), "report")
    /\ UNCHANGED lock

\* The journal's stage may be published over the directory that is there.
Publishable(p) ==
    /\ pc[p] = "recover"
    /\ fs.journal # None
    /\ Staged(fs.journal)
    /\ StageIntact(fs.journal)
    /\ FinalReplaceable(fs.journal, job[p].force)

\* Mutants: the previous directory is removed, or copied, not renamed.
RemovePrevious(p) ==
    /\ Publishable(p)
    /\ ~fs.journal.metadataOnly
    /\ fs.final # None
    /\ Write(p, [fs EXCEPT !.final = None], "asideSync")
    /\ UNCHANGED <<clock, job>>

CopyAside(p) ==
    /\ Publishable(p)
    /\ ~fs.journal.metadataOnly
    /\ fs.final # None
    /\ Write(p, [fs EXCEPT !.previous = fs.final], "asideSync")
    /\ UNCHANGED <<clock, job>>

MoveAside(p) ==
    /\ Publishable(p)
    /\ ~fs.journal.metadataOnly
    /\ fs.final # None
    /\ Write(p, [fs EXCEPT !.previous = fs.final, !.final = None],
             "asideSync")
    /\ UNCHANGED <<clock, job>>

\* A process died between the two renames, or this is the first pull.
NothingToMove(p) ==
    /\ Publishable(p)
    /\ ~fs.journal.metadataOnly
    /\ fs.final = None
    /\ Proceed(p, job[p], "publish")
    /\ UNCHANGED lock

Publish(p) ==
    /\ pc[p] = "publish"
    /\ Write(p, [fs EXCEPT !.final = fs.stages[fs.journal.stage].files,
                           !.stages[fs.journal.stage] = None], "barrier")
    /\ UNCHANGED <<clock, job>>

CopyPreviousMetadata(p) ==
    /\ Publishable(p)
    /\ fs.journal.metadataOnly
    /\ Write(p, [fs EXCEPT !.prevMetaTmp = fs.final.meta],
             "prevMetaTmpSync")
    /\ UNCHANGED <<clock, job>>

RenamePreviousMetadata(p) ==
    /\ pc[p] = "prevMetaRename"
    /\ Write(p, [fs EXCEPT !.prevMeta = fs.prevMetaTmp, !.prevMetaTmp = None],
             "prevMetaSync")
    /\ UNCHANGED <<clock, job>>

RenameMetadata(p) ==
    /\ pc[p] = "metaRename"
    /\ Write(p, [fs EXCEPT !.final.meta = fs.stages[fs.journal.stage].files,
                           !.stages[fs.journal.stage].files = None],
             "barrier")
    /\ UNCHANGED <<clock, job>>

\* The published files are not the journal's.
VerifyRefuses(p) ==
    /\ pc[p] = "verify"
    /\ ~AsJournaled(fs.final, fs.journal)
    /\ Proceed(p, Return(p, "error"), "report")
    /\ UNCHANGED lock

\* CommitPull: one transaction upserts the row and the annotation rows; no
\* annotation row is ever deleted.
CommitPull(p) ==
    /\ pc[p] = "verify"
    /\ AsJournaled(fs.final, fs.journal)
    /\ row' = fs.journal.row
    /\ noteRow' = IF fs.journal.notes = NoNote THEN noteRow
                  ELSE fs.journal.notes
    /\ rows' = (IF WalLoss THEN rows ELSE {})
               \cup {[row |-> row', notes |-> noteRow']}
    /\ pc' = [pc EXCEPT ![p] = "dropBackup"]
    /\ UNCHANGED <<srv, fs, images, lock, clock, job, seen, left>>

\* RemoveAll is not atomic: the backup directory may be half removed.
DropBackup(p) ==
    /\ pc[p] = "dropBackup"
    /\ IF fs.journal.metadataOnly
       THEN Write(p, [fs EXCEPT !.prevMeta = None], "backupSync")
       ELSE \/ Write(p, [fs EXCEPT !.previous = None], "backupSync")
            \/ /\ fs.previous \in Copies
               /\ Write(p, [fs EXCEPT !.previous = Torn], "dropBackup")
    /\ UNCHANGED <<clock, job>>

DropJournal(p) ==
    /\ pc[p] = "dropJournal"
    /\ Write(p, [fs EXCEPT !.journal = None], "doneSync")
    /\ UNCHANGED <<clock, job>>

\* cleanAbandonedStages: the temporary files, and the stages that carry the
\* transcript's owner marker.
Abandoned == {s \in Installs : fs.stages[s] # None /\ fs.stages[s].mark}

\* Mutant: an unpublished journal is left behind.
CleanOnlyStages(p) ==
    /\ pc[p] = "clean"
    /\ Write(p, [fs EXCEPT !.stages = [s \in Installs |->
                               IF s \in Abandoned THEN None ELSE @[s]]],
             IF job[p].recovering THEN "diff" ELSE "report")
    /\ job' = [job EXCEPT ![p].status =
                  IF job[p].recovering THEN @ ELSE "ok"]
    /\ UNCHANGED clock

CleanAbandonedStages(p) ==
    /\ pc[p] = "clean"
    /\ Write(p, [fs EXCEPT !.journalTmp = None, !.prevMetaTmp = None,
                           !.stages = [s \in Installs |->
                               IF s \in Abandoned THEN None ELSE @[s]]],
             IF job[p].recovering THEN "diff" ELSE "report")
    /\ job' = [job EXCEPT ![p].status =
                  IF job[p].recovering THEN @ ELSE "ok"]
    /\ UNCHANGED clock

----------------------------------------------------------------------------
(* Failure, and everything outside the pull. *)

\* A request, a file-system call, a flush or the transaction fails and the
\* pull returns the error.  A failed staging write removes the stage, unless
\* the removal fails too.
Fail(p) ==
    /\ Holding(p)
    /\ pc[p] # "report"
    /\ Spend("fault")
    /\ job' = [job EXCEPT ![p] = [Return(p, "error") EXCEPT !.faulted = TRUE]]
    /\ pc' = [pc EXCEPT ![p] = "report"]
    /\ fs' \in {fs} \cup
               (IF pc[p] \in {"mark", "write", "rewrite"}
                THEN {[fs EXCEPT !.stages[job[p].id] = None]} ELSE {})
    /\ images' = Track(images \cup {fs'})
    /\ UNCHANGED <<srv, index, lock, clock, seen>>

\* PullTranscript returns and releases the lock.
Report(p) ==
    /\ pc[p] = "report"
    /\ lock' = None
    /\ Proceed(p, NewJob, "idle")

\* The process dies: the kernel releases its lock.
Crash(p) ==
    /\ pc[p] # "idle"
    /\ Spend("crash")
    /\ lock' = IF lock = p THEN None ELSE lock
    /\ job' = [job EXCEPT ![p] = NewJob]
    /\ pc' = [pc EXCEPT ![p] = "idle"]
    /\ UNCHANGED <<srv, fs, images, index, clock, seen>>

\* Power is lost: what was not flushed may be undone, and with
\* synchronous=NORMAL so may the last commits of the index.
PowerLoss ==
    /\ Spend("power")
    /\ fs' \in images
    /\ images' = IF left'["power"] = 0 THEN {} ELSE {fs'}
    /\ \E r \in rows : row' = r.row /\ noteRow' = r.notes
    /\ rows' = {[row |-> row', notes |-> noteRow']}
    /\ lock' = None
    /\ pc' = [p \in Pullers |-> "idle"]
    /\ job' = [p \in Pullers |-> NewJob]
    /\ seen' = [r \in Refreshers |-> None]
    /\ UNCHANGED <<srv, clock>>

\* Somebody edits or removes the published files between two pulls.
Damage ==
    /\ Spend("damage")
    /\ lock = None
    /\ fs.final # None
    /\ fs' \in {[fs EXCEPT !.final.blob = Garbage], [fs EXCEPT !.final = None]}
    /\ images' = Track(images \cup {fs'})
    /\ UNCHANGED <<srv, index, lock, clock, pc, job, seen>>

\* The village serves something else from now on.
ServerChanges ==
    /\ Spend("server")
    /\ \/ \E b \in Blobs : srv' = [srv EXCEPT !.blob = b]
       \/ \E t \in Titles : srv' = [srv EXCEPT !.title = t]
       \/ \E o \in Persons : srv' = [srv EXCEPT !.owner = o]
       \/ \E n \in Notes : srv' = [srv EXCEPT !.notes = n]
    /\ srv' # srv
    /\ UNCHANGED <<fs, images, index, lock, clock, pc, job, seen>>

\* RefreshOwnAnnotations: fetch, then upsert in one transaction, with no lock
\* and no files.
RefreshFetch(r) ==
    /\ seen[r] = None
    /\ Spend("refresh")
    /\ seen' = [seen EXCEPT ![r] = srv.notes]
    /\ UNCHANGED <<srv, fs, images, index, lock, clock, pc, job>>

RefreshUpsert(r) ==
    /\ seen[r] # None
    /\ noteRow' = IF seen[r] = NoNote THEN noteRow ELSE seen[r]
    /\ rows' = (IF WalLoss THEN rows ELSE {})
               \cup {[row |-> row, notes |-> noteRow']}
    /\ seen' = [seen EXCEPT ![r] = None]
    /\ UNCHANGED <<srv, fs, images, row, lock, clock, pc, job, left>>

Step(p) ==
    \/ LockInstall(p) \/ FetchMeta(p) \/ Diff(p) \/ Download(p)
    \/ FetchAnnotations(p) \/ UpdateMetadata(p)
    \/ MakeStage(p) \/ NoRoom(p) \/ MarkStage(p) \/ BeginStageFiles(p)
    \/ StageFiles(p) \/ WriteJournal(p) \/ DigestRefused(p)
    \/ RenameJournal(p) \/ Sync(p)
    \/ RecoverNothing(p) \/ RecoverPublished(p) \/ RecoverRefuses(p)
    \/ MoveAside(p) \/ NothingToMove(p) \/ Publish(p)
    \/ CopyPreviousMetadata(p) \/ RenamePreviousMetadata(p)
    \/ RenameMetadata(p) \/ VerifyRefuses(p) \/ CommitPull(p)
    \/ DropBackup(p) \/ DropJournal(p) \/ CleanAbandonedStages(p)
    \/ Report(p)

Next ==
    \/ \E p \in Pullers :
          StartPull(p) \/ Step(p) \/ DownloadCorrupt(p) \/ Fail(p) \/ Crash(p)
    \/ \E r \in Refreshers : RefreshFetch(r) \/ RefreshUpsert(r)
    \/ PowerLoss \/ Damage \/ ServerChanges

\* A pull that runs goes on running until it returns or its process dies.
Fairness == \A p \in Pullers : WF_vars(Step(p))

Spec == Init /\ [][Next]_vars /\ Fairness

----------------------------------------------------------------------------
(* Properties. *)

TypeOK ==
    /\ srv \in Servers
    /\ fs \in Trees
    /\ images \subseteq Trees
    /\ row \in Rows \cup {None}
    /\ noteRow \in Notes
    /\ rows \subseteq [row : Rows \cup {None}, notes : Notes]
    /\ lock \in Pullers \cup {None}
    /\ clock \in 0..MaxInstalls
    /\ pc \in [Pullers -> PCs]
    /\ job \in [Pullers -> Jobs]
    /\ seen \in [Refreshers -> Notes \cup {None}]
    /\ left \in [Kinds -> Nat]

\* The complete file sets a reader or a recovery could still use.
Retained ==
    {c \in {fs.final, fs.previous} : Valid(c)} \cup
    (IF fs.final # None /\ fs.prevMeta # None
     THEN {[fs.final EXCEPT !.meta = fs.prevMeta]} ELSE {})

\* What the index row describes is on disk as a complete file set, in place or
\* as the backup, at every instant of an install, a crash or a power loss.
IndexedCopyKept == row # None => row \in {Projection(c) : c \in Retained}

\* Without a journal nothing is pending: the directory, if any, is complete,
\* is what the row describes, and no backup is left.
SettledIsIndexed ==
    fs.journal = None =>
        /\ fs.previous = None /\ fs.prevMeta = None
        /\ IF fs.final = None THEN row = None
           ELSE Valid(fs.final) /\ row = Projection(fs.final)

\* Whatever earlier pulls and crashes left behind, a pull fails only when one
\* of its own calls fails: recovery never refuses what the pulls themselves
\* wrote, and never meets a second backup.
OnlyOwnFailures ==
    \A p \in Pullers : job[p].status = "error" => job[p].faulted

Succeeded(p) == pc[p] = "report" /\ job[p].status = "ok"

\* A pull that reports success leaves a complete copy with the metadata it
\* was given, names no author it did not find still shown, and its row is
\* the one of the files.
SuccessIsCurrent ==
    \A p \in Pullers : Succeeded(p) =>
        /\ Valid(fs.final)
        /\ fs.final.meta = job[p].meta
        /\ fs.final.manifest.hash \in {job[p].advert, job[p].hash}
        /\ fs.final.manifest.notes \in People =>
              job[p].notes \in {NoNote, fs.final.manifest.notes}
        /\ row = Projection(fs.final)

\* A pull that reports success leaves no journal, no backup, no temporary
\* file and no owned stage, whatever it found.
SuccessLeavesNoDebris ==
    \A p \in Pullers : Succeeded(p) =>
        /\ fs.journal = None /\ fs.journalTmp = None
        /\ fs.previous = None
        /\ fs.prevMeta = None /\ fs.prevMetaTmp = None
        /\ Abandoned = {}

\* Files somebody edited are not replaced by a pull that was not forced, and
\* then are kept as the backup.
EditedFilesNeedForce ==
    [][/\ fs.final # None /\ fs.final.blob = Garbage
       /\ fs'.final # fs.final /\ left' = left
       => /\ fs'.previous = fs.final
          /\ \/ fs.journal.replaceInvalid
             \/ \E p \in Pullers : lock = p /\ job[p].force]_vars

ShownMeta == [title |-> srv.title, owner |-> srv.owner]

\* The step, unless it is a power loss, leaves the metadata of a row that shows
\* what the village shows.
KeepsCurrentRow ==
    (/\ row # None /\ row.meta = ShownMeta
     /\ srv' = srv /\ left'["power"] = left["power"])
        => row' # None /\ row'.meta = ShownMeta

\* Every pull reads the metadata itself, under the lock, and the village does
\* not change back.
ReadUnderLock ==
    ~BulkListing /\ \A allowed \in Budgets : allowed["server"] <= 1

\* When every pull reads the metadata itself, which it does under the lock, and
\* the village changes at most once, a row that shows the transcript as the
\* village does is never replaced by one that shows it as the village used to.
\* (After a second change that undoes the first, a pull may rightly install
\* what it read between the two.)
CurrentRowStays == [][ReadUnderLock => KeepsCurrentRow]_vars

\* What PullOptions says of a listing's row, that the pull settles what diverged
\* since the listing: also a pull that works from an earlier listing does not
\* replace metadata that is current.
ListingIsSettled == [][KeepsCurrentRow]_vars

\* The lock is never kept: its holder returns or dies.
LockIsReleased ==
    \A p \in Pullers : []<>(lock # p)

\* Whatever became of the index row and of the files, a power loss that took
\* the last commits back and edits included, a forced pull that reports success
\* leaves a complete copy of what it downloaded, and the row of that copy.
ForcedPullRepairs ==
    \A p \in Pullers : Succeeded(p) /\ job[p].force =>
        /\ Valid(fs.final)
        /\ fs.final.manifest.hash = job[p].hash
        /\ fs.final.meta = job[p].meta
        /\ row = Projection(fs.final)

\* The journal's stage holds what the pull that wrote the journal put there.
StageUntouched(j) ==
    /\ fs.stages[j.stage] # None
    /\ fs.stages[j.stage].mark
    /\ fs.stages[j.stage].files =
          IF j.metadataOnly THEN j.digest.meta ELSE j.digest

\* What docs/pulled-transcript-recovery.md says of --force, for the journal of a
\* whole directory: over damaged old files and a pending journal whose stage is
\* as it was written, a forced pull fails only when one of its own calls fails.
\* (recoverMetadata takes no force flag: past a journal of metadata.json alone
\* over damaged files no pull ever gets.)
ForceGetsPastDamage ==
    \A p \in Pullers :
        /\ pc[p] = "report" /\ job[p].force
        /\ job[p].status = "error" /\ ~job[p].faulted
        => \/ fs.journal = None
           \/ fs.journal.metadataOnly
           \/ ~StageUntouched(fs.journal)

Copied == INSTANCE RetainedCopies
          WITH Views <- Rows, indexed <- row,
               complete <- {Projection(c) : c \in Retained}

\* The index always names a complete retained copy, and moves from one to
\* another in one step.
RefinesRetainedCopies == Copied!Spec

==============================================================================
