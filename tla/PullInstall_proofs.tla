------------------------- MODULE PullInstall_proofs -------------------------
(***************************************************************************)
(* Safety of a pull for every number of pullers and refreshers, every      *)
(* number of installs and every budget of faults.                          *)
(*                                                                         *)
(* Three invariants.  Shape holds of every behaviour: it is about one pull *)
(* at a time, what it holds in memory and what the step it is at relies    *)
(* on.  So does Forced, about the pulls run with --force.  Safe holds of   *)
(* the behaviours in which nobody edits the published files and the index  *)
(* loses no commit: it says what every tree that a death or a power loss   *)
(* may leave has in common with the index.                                 *)
(***************************************************************************)
EXTENDS PullInstall, TLAPS

\* What a stage of a pull that holds j is written with.
ContentOf(j) ==
    IF j.metadataOnly
    THEN j.meta
    ELSE [blob |-> j.blob,
          manifest |-> [hash |-> j.hash, owner |-> j.meta.owner,
                        notes |-> j.notes, at |-> j.id],
          meta |-> j.meta]

Before == {"idle", "lock"}
Deciding == {"diff", "download", "update"}
Writing == {"mark", "write", "rewrite"}
Written == {"stageSync", "digest", "journalTmpSync", "journalRename"}
Aside == {"asideSync", "publish"}
CopiedMeta == {"prevMetaTmpSync", "prevMetaRename"}
KeptMeta == {"prevMetaSync", "metaRename"}
Unpublished == Aside \cup CopiedMeta \cup KeptMeta
Published == {"barrier", "verify", "dropBackup", "backupSync", "dropJournal"}
Ended == {"doneSync", "clean"}
\* Steps that follow a flush at once.
Flushed == {"journalRename", "verify"}

(***************************************************************************)
(* What a pull at k holds, and what it relies on in the tree t.            *)
(***************************************************************************)
JobAt(k, j) ==
    /\ k \in Before => j.recovering /\ ~j.faulted
    /\ k # "report" => j.status = "running"
    /\ k \notin Before \cup {"meta", "report"} => j.meta \in Metas
    /\ k \in {"notes"} \cup StagePCs /\ ~j.metadataOnly =>
          j.hash \in Blobs /\ j.blob \in Blobs \cup {Garbage}
    /\ k \in StagePCs /\ ~j.metadataOnly => j.notes \in Notes
    /\ k \in Writing \cup Written => j.id \in Installs
    /\ k \in {"meta", "notes", "mkstage"} \cup Deciding \cup Writing \cup Written
          => j.recovering

\* The journal is of the kind that the step handles, its stage is there, and
\* the directory is aside or still complete.
Pending(k, t) ==
    /\ t.journal # None
    /\ t.stages[t.journal.stage] # None
    /\ IF k \in Aside
       THEN /\ ~t.journal.metadataOnly
            /\ t.stages[t.journal.stage].files \in Copies
            /\ t.final = None
       ELSE /\ t.journal.metadataOnly
            /\ t.stages[t.journal.stage].files \in Metas
            /\ t.final # None /\ t.final.blob \in Blobs

TreeAt(k, j, t) ==
    /\ k \in Writing => t.stages[j.id] # None
    /\ k \in {"write", "rewrite"} => t.stages[j.id].mark
    /\ k \in Written =>
          t.stages[j.id] = [mark |-> TRUE, files |-> ContentOf(j)]
    /\ k \in Unpublished => Pending(k, t)
    /\ k \in Published => t.journal # None

Exclusive == \A p \in Pullers : Holding(p) <=> lock = p

Shape ==
    /\ TypeOK
    /\ Exclusive
    /\ \A p \in Pullers : JobAt(pc[p], job[p]) /\ TreeAt(pc[p], job[p], fs)

(***************************************************************************)
(* The trees an undisturbed install leaves, beside the row r.              *)
(***************************************************************************)
\* Nobody edits the files and the index keeps its commits.
Undisturbed == ~WalLoss /\ \A allowed \in Budgets : allowed["damage"] = 0

Settled(t, r) ==
    /\ t.previous = None /\ t.prevMeta = None
    /\ IF t.final = None THEN r = None
       ELSE Valid(t.final) /\ r = Projection(t.final)

\* The journal of a whole directory: staged, with the old directory in place
\* or aside; or published, with the old one aside until the row is the new.
FullStaged(t, r) ==
    /\ t.stages[t.journal.stage] = [mark |-> TRUE, files |-> t.journal.digest]
    /\ \/ Settled(t, r)
       \/ t.final = None /\ Valid(t.previous) /\ r = Projection(t.previous)

FullPublished(t, r) ==
    /\ t.stages[t.journal.stage] = None
    /\ t.final = t.journal.digest
    /\ \/ r = t.journal.row
       \/ t.previous = None /\ r = None
       \/ Valid(t.previous) /\ r = Projection(t.previous)

FullTree(t, r) ==
    /\ t.prevMeta = None
    /\ FullStaged(t, r) \/ FullPublished(t, r)

\* The journal of metadata.json alone.
MetaStaged(t, r) ==
    /\ t.stages[t.journal.stage] =
          [mark |-> TRUE, files |-> t.journal.digest.meta]
    /\ Valid(t.final) /\ r = Projection(t.final)
    /\ t.journal.digest = [t.final EXCEPT !.meta = t.journal.digest.meta]
    /\ t.prevMeta \in {None, t.final.meta}

MetaPublished(t, r) ==
    /\ t.stages[t.journal.stage] # None =>
          t.stages[t.journal.stage].files = None
    /\ t.final = t.journal.digest
    /\ \/ r = t.journal.row
       \/ /\ t.prevMeta # None
          /\ r = Projection([t.final EXCEPT !.meta = t.prevMeta])

MetaTree(t, r) ==
    /\ t.previous = None /\ t.final # None
    /\ MetaStaged(t, r) \/ MetaPublished(t, r)

\* The journal records a complete file set and its rows.
Sound(j) == Valid(j.digest) /\ ProjectionHolds(j.digest, j)

Good(t, r) ==
    IF t.journal = None THEN Settled(t, r)
    ELSE /\ Sound(t.journal)
         /\ IF t.journal.metadataOnly THEN MetaTree(t, r) ELSE FullTree(t, r)

InPlace(t, r) ==
    t.journal # None
    /\ IF t.journal.metadataOnly THEN MetaPublished(t, r) ELSE FullPublished(t, r)

(***************************************************************************)
(* What a pull knows of the tree when nobody else touches it.              *)
(***************************************************************************)
NoDebris(t) ==
    /\ t.journalTmp = None /\ t.prevMetaTmp = None
    /\ \A s \in Installs : t.stages[s] # None => ~t.stages[s].mark

\* The file set c is what the pull that holds j was asked for.
Fulfils(c, j) ==
    /\ Valid(c)
    /\ c.meta = j.meta
    /\ c.manifest.hash \in {j.advert, j.hash}
    /\ c.manifest.notes \in People => j.notes \in {NoNote, c.manifest.notes}

\* The stored copy, apart from its metadata.
Kept(t, j) ==
    /\ Valid(t.final)
    /\ Fulfils([t.final EXCEPT !.meta = j.meta], j)

\* What was decided about the stored copy.
Decided(t, j) ==
    /\ j.stored = IF Valid(t.final) THEN t.final.manifest ELSE None
    /\ j.stored # None /\ ~j.refresh =>
          /\ j.stored.owner = j.meta.owner
          /\ j.stored.notes \in People => j.notes \in {NoNote, j.stored.notes}

\* The journal to be put in place names the stage and what it installs.
Drafted(t, j) ==
    /\ t.journalTmp # None
    /\ Sound(t.journalTmp) /\ Fulfils(t.journalTmp.digest, j)
    /\ t.journalTmp.stage = j.id
    /\ t.journalTmp.metadataOnly = j.metadataOnly
    /\ IF j.metadataOnly
       THEN t.journalTmp.digest = [t.final EXCEPT !.meta = j.meta]
       ELSE t.journalTmp.digest = ContentOf(j)

Knows(k, j, t, r) ==
    /\ k \in Before \cup {"meta", "notes"} \cup Deciding
          \/ (k \in MovePCs /\ j.recovering)
          => ~j.metadataOnly
    /\ k \in {"notes"} \cup Deciding \cup (StagePCs \ {"journalSync"}) \cup Ended =>
          t.journal = None
    /\ k \in Deciding => NoDebris(t)
    /\ k \in {"download", "update"} => Decided(t, j)
    /\ k = "update" => /\ ~j.refresh /\ j.stored # None
                       /\ j.stored.hash \in {j.advert, j.hash}
    /\ k \in StagePCs \ {"journalSync"} /\ j.metadataOnly => Kept(t, j)
    /\ k \in {"notes"} \cup StagePCs /\ ~j.metadataOnly /\ ~j.faulted =>
          j.blob = j.hash
    /\ k \in {"journalTmpSync", "journalRename"} => Drafted(t, j)
    /\ k = "journalSync" => t.journal # None /\ ~j.recovering
    /\ k \in CopiedMeta => t.prevMetaTmp = t.final.meta
    /\ k \in KeptMeta => t.prevMeta = t.final.meta
    /\ k \in Published => InPlace(t, r)
    /\ k \in {"dropBackup", "backupSync", "dropJournal"} => r = t.journal.row
    /\ k \in {"backupSync", "dropJournal"} =>
          t.previous = None /\ t.prevMeta = None
    /\ k \in {"journalSync"} \cup MovePCs /\ ~j.recovering =>
          Fulfils(IF t.journal = None THEN t.final ELSE t.journal.digest, j)
    /\ k = "report" =>
          /\ j.status = "error" => j.faulted
          /\ j.status = "ok" =>
                t.journal = None /\ NoDebris(t) /\ Fulfils(t.final, j)

Safe ==
    /\ left["damage"] = 0
    /\ rows = {[row |-> row, notes |-> noteRow]}
    /\ \A t \in images \cup {fs} : Good(t, row)
    /\ \A p \in Pullers : /\ Knows(pc[p], job[p], fs, row)
                          /\ pc[p] \in Flushed => images \subseteq {fs}

(***************************************************************************)
(* What a forced pull that holds j knows at k, whatever the files and the  *)
(* index went through: it decides nothing from the stored copy, and what   *)
(* it drafted, journaled and published is what it downloaded.              *)
(***************************************************************************)
Names(c, j) == c.manifest.hash = j.hash /\ c.meta = j.meta

Uncommitted == {"journalSync", "recover", "barrier", "verify"} \cup Unpublished
Committed == {"dropBackup", "backupSync", "dropJournal"} \cup Ended

Delivered(t, r, j) ==
    Valid(t.final) /\ Names(t.final, j) /\ r = Projection(t.final)

ForcedAt(k, j, t, r) ==
    /\ k \in Before => ~j.metadataOnly
    /\ j.force =>
         /\ ~j.metadataOnly /\ k # "update"
         /\ k = "download" => j.refresh
         /\ k \in {"journalTmpSync", "journalRename"} =>
               t.journalTmp # None /\ Names(t.journalTmp.digest, j)
         /\ k \in Uncommitted /\ ~j.recovering =>
               t.journal # None /\ Names(t.journal.digest, j)
         /\ k \in Committed /\ ~j.recovering => Delivered(t, r, j)
         /\ k = "report" /\ j.status = "ok" => Delivered(t, r, j)

Forced == \A p \in Pullers : ForcedAt(pc[p], job[p], fs, row)

(***************************************************************************)
(* The copies of which one is indexed: never more than one other.          *)
(***************************************************************************)
Views(t) ==
    {Projection(c) : c \in
        {c \in {t.final, t.previous} : Valid(c)} \cup
        (IF t.final # None /\ t.prevMeta # None
         THEN {[t.final EXCEPT !.meta = t.prevMeta]} ELSE {})}

Within(x) == \A t \in images \cup {fs} : Views(t) \subseteq {row, x}

OneOther ==
    /\ \E x \in Rows : Within(x)
    /\ fs.journal # None /\ ~InPlace(fs, row) => Within(fs.journal.row)


----------------------------------------------------------------------------
(* Shape. *)

\* The names of the groups of steps, for use as one definition.
LEMMA Groups ==
    /\ Before \cup Deciding \cup Writing \cup Written \cup Unpublished
          \cup Published \cup Ended \subseteq PCs
    /\ "report" \in PCs /\ StagePCs \cup MovePCs \cup ReadPCs \subseteq PCs
BY DEF PCs, StagePCs, MovePCs, ReadPCs, Before, Deciding, Writing, Written,
   Unpublished, Aside, CopiedMeta, KeptMeta, Published, Ended

\* A pull that does not hold the lock relies on nothing.
LEMMA BeforeRelies ==
    ASSUME NEW k \in Before, NEW j, NEW t
    PROVE  TreeAt(k, j, t)
BY DEF TreeAt, Before, Writing, Written, Unpublished, Aside, CopiedMeta,
   KeptMeta, Published

\* A step of the holder of the lock, that keeps it.
LEMMA HolderMoves ==
    ASSUME Shape, TypeOK', NEW p \in Pullers, Holding(p), UNCHANGED lock,
           NEW j, NEW k, k \notin Before,
           pc' = [pc EXCEPT ![p] = k], job' = [job EXCEPT ![p] = j],
           JobAt(k, j), TreeAt(k, j, fs')
    PROVE  Shape'
<1>1. \A q \in Pullers \ {p} :
         pc[q] \in Before /\ pc'[q] = pc[q] /\ job'[q] = job[q]
  BY DEF Shape, TypeOK, Exclusive, Holding, Before
<1>2. pc'[p] = k /\ job'[p] = j
  BY DEF Shape, TypeOK
<1>3. Exclusive'
  BY <1>1, <1>2 DEF Shape, Exclusive, Holding, Before
<1>4. \A q \in Pullers : JobAt(pc'[q], job'[q]) /\ TreeAt(pc'[q], job'[q], fs')
  BY <1>1, <1>2, BeforeRelies DEF Shape
<1> QED
  BY <1>3, <1>4 DEF Shape

\* A file operation of the lock holder keeps the types and the shape of the
\* directory at each program counter.
LEMMA WriteMoves ==
    ASSUME Shape, NEW p \in Pullers, Holding(p), NEW j \in Jobs,
           NEW k \in PCs \ Before, NEW tree \in Trees, Write(p, tree, k),
           job' = [job EXCEPT ![p] = j], clock' \in 0..MaxInstalls,
           JobAt(k, j), TreeAt(k, j, tree)
    PROVE  Shape'
<1>1. TypeOK'
  BY DEF Shape, TypeOK, Write, Track, index
<1> QED
  BY <1>1, HolderMoves DEF Write

\* A write that leaves the memory of the pull alone.
LEMMA OnlyWrites ==
    ASSUME Shape, NEW p \in Pullers, Holding(p),
           NEW k \in PCs \ Before, NEW tree \in Trees, Write(p, tree, k),
           UNCHANGED <<clock, job>>, JobAt(k, job[p]), TreeAt(k, job[p], tree)
    PROVE  Shape'
<1>1. job' = [job EXCEPT ![p] = job[p]] /\ job[p] \in Jobs
      /\ clock' \in 0..MaxInstalls
  BY DEF Shape, TypeOK
<1> QED
  BY <1>1, WriteMoves

\* So does a step that only decides.
LEMMA ProceedMoves ==
    ASSUME Shape, NEW p \in Pullers, Holding(p), NEW j \in Jobs,
           NEW k \in PCs \ Before, Proceed(p, j, k), UNCHANGED lock,
           JobAt(k, j), TreeAt(k, j, fs)
    PROVE  Shape'
<1>1. TypeOK'
  BY DEF Shape, TypeOK, Proceed, index
<1> QED
  BY <1>1, HolderMoves DEF Proceed

\* A pull that returns, dies, or has not taken the lock yet.
LEMMA OutsideMoves ==
    ASSUME Shape, TypeOK', NEW p \in Pullers, UNCHANGED fs,
           NEW j, NEW k \in Before, JobAt(k, j),
           lock' = (IF lock = p THEN None ELSE lock),
           pc' = [pc EXCEPT ![p] = k], job' = [job EXCEPT ![p] = j]
    PROVE  Shape'
<1>1. \A q \in Pullers \ {p} : pc'[q] = pc[q] /\ job'[q] = job[q]
  BY DEF Shape, TypeOK
<1>2. pc'[p] = k /\ job'[p] = j
  BY DEF Shape, TypeOK
<1>3. Exclusive'
  BY <1>1, <1>2, NoneAssumption DEF Shape, Exclusive, Holding, Before
<1>4. \A q \in Pullers : JobAt(pc'[q], job'[q]) /\ TreeAt(pc'[q], job'[q], fs')
  BY <1>1, <1>2, BeforeRelies DEF Shape
<1> QED
  BY <1>3, <1>4 DEF Shape

\* What the village is asked under the lock, and what is decided from it.
LEMMA ReadShape ==
    ASSUME Shape, NEW p \in Pullers,
           \/ FetchMeta(p) \/ Diff(p) \/ Download(p) \/ FetchAnnotations(p)
           \/ UpdateMetadata(p) \/ NoRoom(p) \/ DownloadCorrupt(p)
    PROVE  Shape'
<1> DEFINE j == job[p]
<1>1. /\ j \in Jobs /\ JobAt(pc[p], j) /\ TreeAt(pc[p], j, fs)
      /\ srv \in Servers /\ fs \in Trees
  BY DEF Shape, TypeOK
<1>2. CASE FetchMeta(p)
  <2>1. Holding(p) /\ pc[p] = "meta" /\ UNCHANGED lock
    BY <1>2 DEF FetchMeta, Holding
  <2>2. CASE j.meta # None /\ Proceed(p, j, "recover")
    <3>1. JobAt("recover", j) /\ TreeAt("recover", j, fs) /\ "recover" \in PCs \ Before
      BY <1>1, <2>1, <2>2 DEF JobAt, TreeAt, Before, Writing, Written,
         Unpublished, Aside, CopiedMeta, KeptMeta, Published, StagePCs, Jobs,
         PCs, MovePCs, Deciding
    <3> QED
      BY <1>1, <2>1, <2>2, <3>1, ProceedMoves
  <2>3. ASSUME NEW advert \in {srv.blob, None},
               Proceed(p, [j EXCEPT !.meta = [title |-> srv.title,
                                              owner |-> srv.owner],
                                    !.advert = advert], "recover")
        PROVE  Shape'
    <3> DEFINE m == [title |-> srv.title, owner |-> srv.owner]
               i == [j EXCEPT !.meta = m, !.advert = advert]
    <3>1. m \in Metas /\ advert \in Blobs \cup {None}
      BY <1>1 DEF Servers, Metas
    <3> HIDE DEF m
    <3>2. i \in Jobs /\ i.meta = m /\ i.status = j.status
      BY <1>1, <3>1 DEF Jobs
    <3>3. JobAt("recover", i) /\ TreeAt("recover", i, fs) /\ "recover" \in PCs \ Before
      BY <1>1, <2>1, <3>1, <3>2 DEF JobAt, TreeAt, Before, Writing, Written,
         Unpublished, Aside, CopiedMeta, KeptMeta, Published, StagePCs,
         PCs, MovePCs, Deciding
    <3>4. Proceed(p, i, "recover")
      BY <2>3 DEF m
    <3> QED
      BY <1>1, <2>1, <3>2, <3>3, <3>4, ProceedMoves
  <2> QED
    BY <1>2, <2>2, <2>3 DEF FetchMeta
<1>3. CASE Diff(p)
  <2> DEFINE stored == IF Valid(fs.final) THEN fs.final.manifest ELSE None
             ownerChanged == /\ stored # None
                             /\ stored.owner # job[p].meta.owner
             reread == /\ ~job[p].force /\ ~ownerChanged
                       /\ stored # None /\ stored.notes \in People
             refresh == \/ job[p].force \/ ownerChanged
                        \/ reread /\ AuthorsChanged(stored, srv.notes)
             next == IF ~refresh /\ stored # None /\ stored.hash = job[p].advert
                     THEN "update" ELSE "download"
             notes == IF reread THEN srv.notes ELSE None
             i == [j EXCEPT !.stored = stored, !.refresh = refresh,
                            !.notes = notes]
  <2>1. Holding(p) /\ pc[p] = "diff" /\ UNCHANGED lock /\ Proceed(p, i, next)
    BY <1>3 DEF Diff, Holding
  <2>2. stored \in Manifests \cup {None}
    BY <1>1 DEF Trees, Copies, Valid
  <2>3. refresh \in BOOLEAN
    BY <1>1 DEF Jobs
  <2>4. notes \in Notes \cup {None}
    BY <1>1 DEF Servers
  <2>5. next \in {"update", "download"}
    OBVIOUS
  <2> HIDE DEF stored, refresh, next, notes
  <2>6. i \in Jobs /\ i.meta = j.meta /\ i.status = j.status
        /\ i.recovering = j.recovering
    <3>1. i \in Jobs
      BY <1>1, <2>2, <2>3, <2>4 DEF Jobs
    <3>2. i.meta = j.meta /\ i.status = j.status
      BY <1>1 DEF Jobs
    <3>3. i.recovering = j.recovering
      BY <1>1 DEF Jobs
    <3> QED
      BY <3>1, <3>2, <3>3
  <2>7. JobAt(next, i) /\ TreeAt(next, i, fs) /\ next \in PCs \ Before
    BY <1>1, <2>1, <2>5, <2>6 DEF JobAt, TreeAt, Before, Writing, Written,
       Unpublished, Aside, CopiedMeta, KeptMeta, Published, StagePCs, PCs,
       ReadPCs, Deciding
  <2> HIDE DEF i
  <2> QED
    BY <2>1, <2>6, <2>7, ProceedMoves
<1>4. CASE Download(p)
  <2> DEFINE next == IF ~j.refresh /\ j.stored # None /\ j.stored.hash = srv.blob
                     THEN "update" ELSE "notes"
             i == [j EXCEPT !.blob = srv.blob, !.hash = srv.blob]
  <2>1. Holding(p) /\ pc[p] = "download" /\ UNCHANGED lock /\ Proceed(p, i, next)
    BY <1>4 DEF Download, Holding
  <2>2. next \in {"update", "notes"} /\ srv.blob \in Blobs
    BY <1>1 DEF Servers
  <2> HIDE DEF next
  <2>3. i \in Jobs /\ i.meta = j.meta /\ i.status = j.status
        /\ i.recovering = j.recovering /\ i.hash = srv.blob /\ i.blob = srv.blob
    BY <1>1, <2>2 DEF Jobs
  <2>4. JobAt(next, i) /\ TreeAt(next, i, fs) /\ next \in PCs \ Before
    BY <1>1, <2>1, <2>2, <2>3 DEF JobAt, TreeAt, Before, Writing, Written,
       Unpublished, Aside, CopiedMeta, KeptMeta, Published, StagePCs, PCs,
       ReadPCs, Deciding
  <2> HIDE DEF i
  <2> QED
    BY <2>1, <2>3, <2>4, ProceedMoves
<1>5. CASE FetchAnnotations(p)
  <2> DEFINE notes == IF job[p].notes = None THEN srv.notes ELSE job[p].notes
             i == [j EXCEPT !.notes = notes]
  <2>1. Holding(p) /\ pc[p] = "notes" /\ UNCHANGED lock
        /\ Proceed(p, i, "mkstage")
    BY <1>5 DEF FetchAnnotations, Holding
  <2>2. notes \in Notes
    BY <1>1 DEF Servers, Jobs
  <2> HIDE DEF notes
  <2>3. i \in Jobs /\ i.meta = j.meta /\ i.status = j.status
        /\ i.recovering = j.recovering /\ i.hash = j.hash /\ i.blob = j.blob
        /\ i.metadataOnly = j.metadataOnly /\ i.notes = notes
    BY <1>1, <2>2 DEF Jobs
  <2>4. JobAt("mkstage", i) /\ TreeAt("mkstage", i, fs) /\ "mkstage" \in PCs \ Before
    BY <1>1, <2>1, <2>2, <2>3 DEF JobAt, TreeAt, Before, Writing, Written,
       Unpublished, Aside, CopiedMeta, KeptMeta, Published, StagePCs, PCs,
       ReadPCs, Deciding
  <2> HIDE DEF i
  <2> QED
    BY <2>1, <2>3, <2>4, ProceedMoves
<1>6. CASE UpdateMetadata(p)
  <2>1. Holding(p) /\ pc[p] = "update" /\ UNCHANGED lock
    BY <1>6 DEF UpdateMetadata, Holding
  <2>2. ASSUME NEW st \in {"ok", "error"}, Proceed(p, Return(p, st), "report")
        PROVE  Shape'
    <3>1. Return(p, st) \in Jobs
      BY <1>1 DEF Return, Jobs
    <3>2. JobAt("report", Return(p, st)) /\ TreeAt("report", Return(p, st), fs)
          /\ "report" \in PCs \ Before
      BY DEF JobAt, TreeAt, Before, Writing, Written,
         Unpublished, Aside, CopiedMeta, KeptMeta, Published, StagePCs, PCs,
         ReadPCs, Deciding
    <3> QED
      BY <2>1, <2>2, <3>1, <3>2, ProceedMoves
  <2>3. CASE Proceed(p, [job[p] EXCEPT !.metadataOnly = TRUE], "mkstage")
    <3> DEFINE i == [job[p] EXCEPT !.metadataOnly = TRUE]
    <3>1. i \in Jobs /\ i.metadataOnly /\ i.meta = j.meta /\ i.status = j.status
          /\ i.recovering = j.recovering
      BY <1>1 DEF Jobs
    <3>2. JobAt("mkstage", i) /\ TreeAt("mkstage", i, fs)
          /\ "mkstage" \in PCs \ Before
      BY <1>1, <2>1, <3>1 DEF JobAt, TreeAt, Before, Writing, Written,
         Unpublished, Aside, CopiedMeta, KeptMeta, Published, StagePCs, PCs,
         ReadPCs, Deciding
    <3> QED
      BY <2>1, <2>3, <3>1, <3>2, ProceedMoves
  <2> QED
    BY <1>6, <2>2, <2>3 DEF UpdateMetadata
<1>7. CASE NoRoom(p)
  <2> DEFINE i == [Return(p, "error") EXCEPT !.faulted = TRUE]
  <2>1. Holding(p) /\ UNCHANGED lock /\ Proceed(p, i, "report")
    BY <1>7 DEF NoRoom, Holding
  <2>2. i \in Jobs
    BY <1>1 DEF Return, Jobs
  <2>3. JobAt("report", i) /\ TreeAt("report", i, fs) /\ "report" \in PCs \ Before
    BY DEF JobAt, TreeAt, Before, Writing, Written, Unpublished, Aside,
       CopiedMeta, KeptMeta, Published, StagePCs, PCs, ReadPCs, Deciding
  <2> QED
    BY <2>1, <2>2, <2>3, ProceedMoves
<1>8. CASE DownloadCorrupt(p)
  <2> DEFINE i == [j EXCEPT !.blob = Garbage, !.hash = srv.blob, !.faulted = TRUE]
  <2>1. Holding(p) /\ pc[p] = "download" /\ UNCHANGED <<lock, fs>>
    BY <1>8 DEF DownloadCorrupt, Holding
  <2>2. srv.blob \in Blobs
    BY <1>1 DEF Servers
  <2>3. i \in Jobs /\ i.meta = j.meta /\ i.status = j.status
        /\ i.recovering = j.recovering /\ i.hash = srv.blob /\ i.blob = Garbage
    BY <1>1, <2>2 DEF Jobs
  <2>4. JobAt("notes", i) /\ TreeAt("notes", i, fs) /\ "notes" \in PCs \ Before
    BY <1>1, <2>1, <2>2, <2>3 DEF JobAt, TreeAt, Before, Writing, Written,
       Unpublished, Aside, CopiedMeta, KeptMeta, Published, StagePCs, PCs,
       ReadPCs, Deciding
  <2>5. job' = [job EXCEPT ![p] = i] /\ pc' = [pc EXCEPT ![p] = "notes"]
    BY <1>1, <1>8 DEF DownloadCorrupt, Shape, TypeOK
  <2>6. left' \in [Kinds -> Nat]
    BY <1>8 DEF DownloadCorrupt, Spend, Shape, TypeOK, Kinds
  <2>7. UNCHANGED <<srv, fs, images, index, lock, clock, seen>>
    BY <1>8 DEF DownloadCorrupt
  <2> HIDE DEF i
  <2>8. TypeOK'
    BY <2>3, <2>4, <2>5, <2>6, <2>7 DEF Shape, TypeOK, index
  <2> QED
    BY <2>1, <2>4, <2>5, <2>8, HolderMoves
<1> QED
  BY <1>2, <1>3, <1>4, <1>5, <1>6, <1>7, <1>8

\* What a stage is written with is a file set, or metadata alone.
LEMMA ContentTypes ==
    ASSUME NEW j \in Jobs, NEW k \in Writing \cup Written, JobAt(k, j)
    PROVE  /\ j.metadataOnly => ContentOf(j) \in Metas
           /\ ~j.metadataOnly => ContentOf(j) \in Copies
<1>1. j.meta \in Metas /\ j.id \in Installs
  BY DEF JobAt, Writing, Written, Before
<1>2. CASE j.metadataOnly
  BY <1>1, <1>2 DEF ContentOf
<1>3. CASE ~j.metadataOnly
  <2>1. j.hash \in Blobs /\ j.blob \in Blobs \cup {Garbage} /\ j.notes \in Notes
    BY <1>3 DEF JobAt, Writing, Written, StagePCs
  <2>2. j.meta.owner \in Persons
    BY <1>1 DEF Metas
  <2> QED
    BY <1>1, <1>3, <2>1, <2>2 DEF ContentOf, Copies, Manifests
<1> QED
  BY <1>2, <1>3

\* What a journal is drafted from.
LEMMA DraftTypes ==
    ASSUME Shape, NEW p \in Pullers, pc[p] = "digest", Valid(Installing(p))
    PROVE  /\ Installing(p) \in Copies
           /\ JournalOf(p) \in Journals
<1> DEFINE c == Installing(p)
<1>1. /\ job[p] \in Jobs /\ JobAt("digest", job[p]) /\ fs \in Trees
      /\ TreeAt("digest", job[p], fs)
  BY DEF Shape, TypeOK
<1>2. job[p].meta \in Metas /\ job[p].id \in Installs
  BY <1>1 DEF JobAt, Written, Before
<1>3. c \in Copies
  <2>1. CASE job[p].metadataOnly
    <3>1. c # None
      BY DEF Valid
    <3>2. fs.final \in Copies /\ c = [fs.final EXCEPT !.meta = job[p].meta]
      BY <1>1, <2>1, <3>1 DEF Installing, Trees
    <3> QED
      BY <1>2, <3>2 DEF Copies
  <2>2. CASE ~job[p].metadataOnly
    <3>1. c = ContentOf(job[p])
      BY <1>1, <2>2 DEF Installing, TreeAt, Written
    <3> QED
      BY <1>1, <2>2, <3>1, ContentTypes DEF Written
  <2> QED
    BY <2>1, <2>2
<1> HIDE DEF c
<1>4. c.manifest \in Manifests /\ c.meta \in Metas
  BY <1>3 DEF Copies
<1>5. c.manifest.hash \in Blobs /\ c.manifest.notes \in Notes
  BY <1>4 DEF Manifests
<1>6. Projection(c) \in Rows
  BY <1>4, <1>5 DEF Projection, Rows
<1>7. JournalOf(p) = [stage |-> job[p].id, digest |-> c, row |-> Projection(c),
         notes |-> IF job[p].metadataOnly THEN NoNote ELSE c.manifest.notes,
         replaceInvalid |-> job[p].force /\ ~job[p].metadataOnly,
         metadataOnly |-> job[p].metadataOnly]
  BY DEF JournalOf, c
<1>8. job[p].metadataOnly \in BOOLEAN /\ job[p].force \in BOOLEAN
  BY <1>1 DEF Jobs
<1>9. NoNote \in Notes
  BY DEF Notes
<1> QED
  BY <1>2, <1>3, <1>5, <1>6, <1>7, <1>8, <1>9 DEF Journals, c

\* The stage and the journal are written.
LEMMA StageShape ==
    ASSUME Shape, NEW p \in Pullers,
           \/ MakeStage(p) \/ MarkStage(p) \/ BeginStageFiles(p)
           \/ StageFiles(p) \/ WriteJournal(p) \/ DigestRefused(p)
           \/ RenameJournal(p) \/ Sync(p)
    PROVE  Shape'
<1> DEFINE j == job[p]
<1> USE DEF Before, Deciding, Writing, Written, Unpublished, Aside, CopiedMeta,
        KeptMeta, Published, StagePCs, MovePCs, ReadPCs, PCs
<1>1. /\ j \in Jobs /\ JobAt(pc[p], j) /\ TreeAt(pc[p], j, fs)
      /\ fs \in Trees /\ clock \in 0..MaxInstalls /\ MaxInstalls \in Nat
      /\ fs.stages \in [Installs -> Stages \cup {None}]
  BY ConstantsAssumption DEF Shape, TypeOK, Trees
<1>2. CASE MakeStage(p)
  <2> DEFINE x == [mark |-> FALSE, files |-> None]
             tree == [fs EXCEPT !.stages[clock + 1] = x]
             i == [j EXCEPT !.id = clock + 1]
  <2>1. /\ pc[p] = "mkstage" /\ clock < MaxInstalls /\ clock' = clock + 1
        /\ Write(p, tree, "mark") /\ Holding(p)
    BY <1>2 DEF MakeStage, Holding
  <2>2. job' = [job EXCEPT ![p] = i]
    BY <1>1, <1>2 DEF MakeStage, Shape, TypeOK
  <2>3. clock + 1 \in Installs /\ clock' \in 0..MaxInstalls
    BY <1>1, <2>1 DEF Installs
  <2>4. x \in Stages /\ x # None
    <3>1. x \in Stages
      BY DEF Stages
    <3> HIDE DEF x
    <3> QED
      BY <3>1, NoneAssumption
  <2> HIDE DEF x
  <2>5. tree \in Trees /\ tree.stages[clock + 1] = x
    BY <1>1, <2>3, <2>4 DEF Trees
  <2>6. /\ i \in Jobs /\ i.id = clock + 1 /\ i.meta = j.meta
        /\ i.status = j.status /\ i.hash = j.hash /\ i.blob = j.blob
        /\ i.notes = j.notes
    BY <1>1, <2>3 DEF Jobs
  <2>7. i.metadataOnly = j.metadataOnly /\ i.recovering = j.recovering
    BY <1>1 DEF Jobs
  <2> HIDE DEF i, tree
  <2>8. JobAt("mark", i)
    BY <1>1, <2>1, <2>3, <2>6, <2>7 DEF JobAt
  <2>9. TreeAt("mark", i, tree)
    BY <2>4, <2>5, <2>6 DEF TreeAt
  <2> QED
    BY <2>1, <2>2, <2>3, <2>5, <2>6, <2>8, <2>9, WriteMoves
<1>3. CASE MarkStage(p)
  <2> DEFINE tree == [fs EXCEPT !.stages[j.id].mark = TRUE]
  <2>1. pc[p] = "mark" /\ Write(p, tree, "write") /\ Holding(p)
        /\ UNCHANGED <<clock, job>>
    BY <1>3 DEF MarkStage, Holding
  <2>2. j.id \in Installs /\ fs.stages[j.id] \in Stages
    BY <1>1, <2>1 DEF JobAt, TreeAt
  <2>3. tree \in Trees /\ tree.stages[j.id] \in Stages
    BY <1>1, <2>2 DEF Trees, Stages
  <2>4. tree.stages[j.id] # None /\ tree.stages[j.id].mark
    <3>1. tree.stages[j.id].mark = TRUE
      BY <1>1, <2>2 DEF Trees, Stages
    <3> QED
      BY <2>3, <3>1, NoneAssumption
  <2> HIDE DEF tree
  <2>5. JobAt("write", j) /\ TreeAt("write", j, tree)
    BY <1>1, <2>1, <2>4 DEF JobAt, TreeAt
  <2> QED
    BY <2>1, <2>3, <2>5, OnlyWrites
<1>4. CASE BeginStageFiles(p)
  <2> DEFINE tree == [fs EXCEPT !.stages[j.id].files = Torn]
  <2>1. pc[p] = "write" /\ Write(p, tree, "rewrite") /\ Holding(p)
        /\ UNCHANGED <<clock, job>>
    BY <1>4 DEF BeginStageFiles, Holding
  <2>2. j.id \in Installs /\ fs.stages[j.id] \in Stages
    BY <1>1, <2>1 DEF JobAt, TreeAt
  <2>3. tree \in Trees /\ tree.stages[j.id] \in Stages
    BY <1>1, <2>2 DEF Trees, Stages
  <2>4. tree.stages[j.id] # None /\ tree.stages[j.id].mark
    <3>1. fs.stages[j.id].mark
      BY <1>1, <2>1 DEF TreeAt
    <3>2. tree.stages[j.id].mark = fs.stages[j.id].mark
      BY <1>1, <2>2 DEF Trees, Stages
    <3> QED
      BY <2>3, <3>1, <3>2, NoneAssumption
  <2> HIDE DEF tree
  <2>5. JobAt("rewrite", j) /\ TreeAt("rewrite", j, tree)
    BY <1>1, <2>1, <2>4 DEF JobAt, TreeAt
  <2> QED
    BY <2>1, <2>3, <2>5, OnlyWrites
<1>5. CASE StageFiles(p)
  <2> DEFINE tree == [fs EXCEPT !.stages[j.id].files = ContentOf(j)]
  <2>1. pc[p] = "rewrite" /\ Write(p, tree, "stageSync") /\ Holding(p)
        /\ UNCHANGED <<clock, job>>
    BY <1>5 DEF StageFiles, Holding, StageContent, ContentOf
  <2>2. j.id \in Installs /\ fs.stages[j.id] \in Stages
    BY <1>1, <2>1 DEF JobAt, TreeAt
  <2>3. ContentOf(j) \in Copies \cup Metas
    BY <1>1, <2>1, ContentTypes
  <2>4. fs.stages[j.id].mark
    BY <1>1, <2>1 DEF TreeAt
  <2>5. /\ tree \in Trees
        /\ tree.stages[j.id] = [fs.stages[j.id] EXCEPT !.files = ContentOf(j)]
    BY <1>1, <2>2, <2>3 DEF Trees, Stages
  <2>6. tree.stages[j.id] = [mark |-> TRUE, files |-> ContentOf(j)]
    BY <2>2, <2>4, <2>5 DEF Stages
  <2> HIDE DEF tree
  <2>7. JobAt("stageSync", j) /\ TreeAt("stageSync", j, tree)
    BY <1>1, <2>1, <2>6 DEF JobAt, TreeAt
  <2> QED
    BY <2>1, <2>5, <2>7, OnlyWrites
<1>6. CASE WriteJournal(p)
  <2> DEFINE d == JournalOf(p)
             tree == [fs EXCEPT !.journalTmp = d]
  <2>1. pc[p] = "digest" /\ Write(p, tree, "journalTmpSync") /\ Holding(p)
        /\ UNCHANGED <<clock, job>> /\ Valid(Installing(p))
    BY <1>6 DEF WriteJournal, Holding
  <2>2. d \in Journals
    BY <2>1, DraftTypes
  <2> HIDE DEF d
  <2>3. tree \in Trees /\ tree.stages = fs.stages
    BY <1>1, <2>2 DEF Trees
  <2> HIDE DEF tree
  <2>4. JobAt("journalTmpSync", j) /\ TreeAt("journalTmpSync", j, tree)
    BY <1>1, <2>1, <2>3 DEF JobAt, TreeAt
  <2> QED
    BY <2>1, <2>3, <2>4, OnlyWrites
<1>7. CASE DigestRefused(p)
  <2>1. Holding(p) /\ UNCHANGED lock /\ Proceed(p, Return(p, "error"), "report")
    BY <1>7 DEF DigestRefused, Holding
  <2>2. Return(p, "error") \in Jobs
    BY <1>1 DEF Return, Jobs
  <2>3. JobAt("report", Return(p, "error")) /\ TreeAt("report", Return(p, "error"), fs)
    BY DEF JobAt, TreeAt
  <2> QED
    BY <2>1, <2>2, <2>3, ProceedMoves
<1>8. CASE RenameJournal(p)
  <2> DEFINE tree == [fs EXCEPT !.journal = fs.journalTmp, !.journalTmp = None]
             i == [j EXCEPT !.recovering = FALSE]
  <2>1. pc[p] = "journalRename" /\ Write(p, tree, "journalSync") /\ Holding(p)
        /\ UNCHANGED clock
    BY <1>8 DEF RenameJournal, Holding
  <2>2. job' = [job EXCEPT ![p] = i]
    BY <1>1, <1>8 DEF RenameJournal, Shape, TypeOK
  <2>3. tree \in Trees
    BY <1>1 DEF Trees
  <2>4. i \in Jobs /\ i.meta = j.meta /\ i.status = j.status /\ i.hash = j.hash
        /\ i.blob = j.blob /\ i.notes = j.notes
    BY <1>1, ZenonT(40) DEF Jobs
  <2>5. i.metadataOnly = j.metadataOnly
    BY <1>1 DEF Jobs
  <2> HIDE DEF i, tree
  <2>6. JobAt("journalSync", i) /\ TreeAt("journalSync", i, tree)
    BY <1>1, <2>1, <2>4, <2>5 DEF JobAt, TreeAt
  <2> QED
    BY <1>1, <2>1, <2>2, <2>3, <2>4, <2>6, WriteMoves
<1>9. CASE Sync(p)
  <2> DEFINE k == AfterSync[pc[p]]
  <2>1. /\ pc[p] \in {"stageSync", "journalTmpSync", "journalSync", "asideSync",
                      "prevMetaTmpSync", "prevMetaSync", "barrier",
                      "backupSync", "doneSync"}
        /\ pc' = [pc EXCEPT ![p] = k] /\ images' = Track({fs})
        /\ UNCHANGED <<srv, fs, index, lock, clock, job, seen, left>>
    BY <1>9 DEF Sync, AfterSync
  <2>2. k \in PCs \ Before /\ JobAt(k, j) /\ TreeAt(k, j, fs)
    <3>1. CASE pc[p] \in {"stageSync", "journalTmpSync"}
      <4>1. k \in {"digest", "journalRename"}
        BY <3>1 DEF AfterSync
      <4> HIDE DEF k
      <4> QED
        BY <1>1, <3>1, <4>1 DEF JobAt, TreeAt
    <3>2. CASE pc[p] = "asideSync"
      <4>1. k = "publish"
        BY <3>2 DEF AfterSync
      <4> HIDE DEF k
      <4> QED
        BY <1>1, <3>2, <4>1 DEF JobAt, TreeAt, Pending
    <3>3. CASE pc[p] \in {"prevMetaTmpSync", "prevMetaSync"}
      <4>1. k \in {"prevMetaRename", "metaRename"}
        BY <3>3 DEF AfterSync
      <4> HIDE DEF k
      <4> QED
        BY <1>1, <3>3, <4>1 DEF JobAt, TreeAt, Pending
    <3>4. CASE pc[p] \in {"barrier", "backupSync"}
      <4>1. k \in {"verify", "dropJournal"}
        BY <3>4 DEF AfterSync
      <4> HIDE DEF k
      <4> QED
        BY <1>1, <3>4, <4>1 DEF JobAt, TreeAt
    <3>5. CASE pc[p] \in {"journalSync", "doneSync"}
      <4>1. k \in {"recover", "clean"}
        BY <3>5 DEF AfterSync
      <4> HIDE DEF k
      <4> QED
        BY <1>1, <3>5, <4>1 DEF JobAt, TreeAt
    <3> QED
      BY <2>1, <3>1, <3>2, <3>3, <3>4, <3>5
  <2> HIDE DEF k
  <2>3. TypeOK'
    BY <1>1, <2>1, <2>2 DEF Shape, TypeOK, Track, index
  <2>4. Holding(p) /\ job' = [job EXCEPT ![p] = j]
    BY <2>1 DEF Holding, Shape, TypeOK
  <2> QED
    BY <2>1, <2>2, <2>3, <2>4, HolderMoves
<1> QED
  BY <1>2, <1>3, <1>4, <1>5, <1>6, <1>7, <1>8, <1>9

\* What the checks of a recovery establish.
LEMMA PublishableMeans ==
    ASSUME Shape, NEW p \in Pullers, Publishable(p)
    PROVE  /\ pc[p] = "recover" /\ Holding(p)
           /\ fs.journal \in Journals /\ fs.journal # None
           /\ fs.stages[fs.journal.stage] # None
           /\ fs.stages[fs.journal.stage] \in Stages
           /\ ~fs.journal.metadataOnly =>
                 fs.stages[fs.journal.stage].files \in Copies
           /\ fs.journal.metadataOnly =>
                 /\ fs.stages[fs.journal.stage].files \in Metas
                 /\ fs.final \in Copies /\ fs.final # None
                 /\ fs.final.blob \in Blobs
<1> DEFINE j == fs.journal
           f == fs.stages[j.stage].files
<1>1. pc[p] = "recover" /\ Holding(p) /\ j # None /\ fs.stages[j.stage] # None
  BY DEF Publishable, Staged, Holding
<1>2. fs \in Trees /\ j \in Journals
  BY <1>1 DEF Shape, TypeOK, Trees
<1>3. j.stage \in Installs /\ j.digest \in Copies
  BY <1>2 DEF Journals
<1>4. fs.stages[j.stage] \in Stages
  BY <1>1, <1>2, <1>3 DEF Trees
<1>5. Replacement(j) = j.digest /\ Valid(Replacement(j))
  BY DEF Publishable, StageIntact, AsJournaled
<1>6. CASE ~j.metadataOnly
  <2>1. f \in Copies
    BY <1>3, <1>5, <1>6 DEF Replacement
  <2> QED
    BY <1>1, <1>2, <1>4, <1>6, <2>1
<1>7. CASE j.metadataOnly
  <2>1. fs.final # None /\ fs.final \in Copies
    BY <1>2, <1>7 DEF Publishable, StageIntact, Trees
  <2>2. j.digest = [fs.final EXCEPT !.meta = f]
    BY <1>5, <1>7 DEF Replacement
  <2>3. j.digest.meta = f /\ j.digest.blob = fs.final.blob
    BY <2>1, <2>2 DEF Copies
  <2>4. f \in Metas /\ j.digest.manifest \in Manifests
    BY <1>3, <2>3 DEF Copies
  <2>5. fs.final.blob \in Blobs
    BY <1>5, <2>3, <2>4 DEF Valid, Manifests
  <2> QED
    BY <1>1, <1>2, <1>4, <1>7, <2>1, <2>4, <2>5
<1> QED
  BY <1>6, <1>7

\* The journal is carried out.
LEMMA MoveShape ==
    ASSUME Shape, NEW p \in Pullers,
           \/ RecoverNothing(p) \/ RecoverPublished(p) \/ RecoverRefuses(p)
           \/ MoveAside(p) \/ NothingToMove(p) \/ Publish(p)
           \/ CopyPreviousMetadata(p) \/ RenamePreviousMetadata(p)
           \/ RenameMetadata(p) \/ VerifyRefuses(p) \/ CommitPull(p)
           \/ DropBackup(p) \/ DropJournal(p) \/ CleanAbandonedStages(p)
    PROVE  Shape'
<1> DEFINE j == job[p]
           d == fs.journal
<1> USE DEF Before, Deciding, Writing, Written, Unpublished, Aside, CopiedMeta,
        KeptMeta, Published, StagePCs, MovePCs, ReadPCs, PCs
<1>1. /\ j \in Jobs /\ JobAt(pc[p], j) /\ TreeAt(pc[p], j, fs)
      /\ fs \in Trees /\ d \in Journals \cup {None}
      /\ fs.stages \in [Installs -> Stages \cup {None}]
  BY DEF Shape, TypeOK, Trees
<1>2. \A k \in MovePCs : pc[p] \in MovePCs => JobAt(k, j)
  BY <1>1 DEF JobAt
<1>3. CASE RecoverNothing(p) \/ RecoverPublished(p)
  <2>1. PICK k \in {"clean", "barrier"} :
          /\ pc[p] = "recover" /\ Proceed(p, j, k) /\ UNCHANGED lock
          /\ k = "barrier" => d # None
    BY <1>3 DEF RecoverNothing, RecoverPublished
  <2>2. JobAt(k, j) /\ TreeAt(k, j, fs) /\ Holding(p)
    BY <1>2, <2>1 DEF TreeAt, Holding
  <2> QED
    BY <1>1, <2>1, <2>2, ProceedMoves
<1>4. CASE RecoverRefuses(p) \/ VerifyRefuses(p)
  <2>1. Holding(p) /\ UNCHANGED lock /\ Proceed(p, Return(p, "error"), "report")
    BY <1>4 DEF RecoverRefuses, VerifyRefuses, Holding
  <2>2. Return(p, "error") \in Jobs
    BY <1>1 DEF Return, Jobs
  <2>3. JobAt("report", Return(p, "error")) /\ TreeAt("report", Return(p, "error"), fs)
    BY DEF JobAt, TreeAt
  <2> QED
    BY <2>1, <2>2, <2>3, ProceedMoves
<1>5. CASE MoveAside(p)
  <2> DEFINE tree == [fs EXCEPT !.previous = fs.final, !.final = None]
  <2>1. /\ Publishable(p) /\ ~d.metadataOnly /\ fs.final # None
        /\ Write(p, tree, "asideSync") /\ UNCHANGED <<clock, job>>
    BY <1>5 DEF MoveAside
  <2>2. tree \in Trees /\ tree.journal = d /\ tree.stages = fs.stages
        /\ tree.final = None
    BY <1>1, <2>1 DEF Trees
  <2> HIDE DEF tree
  <2>3. TreeAt("asideSync", j, tree)
    BY <2>1, <2>2, PublishableMeans DEF TreeAt, Pending
  <2> QED
    BY <1>2, <2>1, <2>2, <2>3, PublishableMeans, OnlyWrites
<1>6. CASE NothingToMove(p)
  <2>1. /\ Publishable(p) /\ ~d.metadataOnly /\ fs.final = None
        /\ Proceed(p, j, "publish") /\ UNCHANGED lock
    BY <1>6 DEF NothingToMove
  <2>2. TreeAt("publish", j, fs)
    BY <2>1, PublishableMeans DEF TreeAt, Pending
  <2> QED
    BY <1>1, <1>2, <2>1, <2>2, PublishableMeans, ProceedMoves
<1>7. CASE Publish(p)
  <2> DEFINE tree == [fs EXCEPT !.final = fs.stages[d.stage].files,
                                !.stages[d.stage] = None]
  <2>1. /\ pc[p] = "publish" /\ Write(p, tree, "barrier")
        /\ UNCHANGED <<clock, job>> /\ Holding(p)
    BY <1>7 DEF Publish, Holding
  <2>2. d # None /\ fs.stages[d.stage].files \in Copies
    BY <1>1, <2>1 DEF TreeAt, Pending
  <2>3. d.stage \in Installs
    BY <1>1, <2>2 DEF Journals
  <2>4. tree \in Trees /\ tree.journal = d
    BY <1>1, <2>2, <2>3 DEF Trees
  <2> HIDE DEF tree
  <2>5. TreeAt("barrier", j, tree)
    BY <2>2, <2>4 DEF TreeAt
  <2> QED
    BY <1>2, <2>1, <2>4, <2>5, OnlyWrites
<1>8. CASE CopyPreviousMetadata(p)
  <2> DEFINE tree == [fs EXCEPT !.prevMetaTmp = fs.final.meta]
  <2>1. /\ Publishable(p) /\ d.metadataOnly
        /\ Write(p, tree, "prevMetaTmpSync") /\ UNCHANGED <<clock, job>>
    BY <1>8 DEF CopyPreviousMetadata
  <2>2. fs.final.meta \in Metas
    BY <2>1, PublishableMeans DEF Copies
  <2>3. /\ tree \in Trees /\ tree.journal = d /\ tree.stages = fs.stages
        /\ tree.final = fs.final
    BY <1>1, <2>2 DEF Trees
  <2> HIDE DEF tree
  <2>4. TreeAt("prevMetaTmpSync", j, tree)
    BY <2>1, <2>3, PublishableMeans DEF TreeAt, Pending
  <2> QED
    BY <1>2, <2>1, <2>3, <2>4, PublishableMeans, OnlyWrites
<1>9. CASE RenamePreviousMetadata(p)
  <2> DEFINE tree == [fs EXCEPT !.prevMeta = fs.prevMetaTmp,
                                !.prevMetaTmp = None]
  <2>1. /\ pc[p] = "prevMetaRename" /\ Write(p, tree, "prevMetaSync")
        /\ UNCHANGED <<clock, job>> /\ Holding(p)
    BY <1>9 DEF RenamePreviousMetadata, Holding
  <2>2. /\ tree \in Trees /\ tree.journal = d /\ tree.stages = fs.stages
        /\ tree.final = fs.final
    BY <1>1 DEF Trees
  <2> HIDE DEF tree
  <2>3. TreeAt("prevMetaSync", j, tree)
    BY <1>1, <2>1, <2>2 DEF TreeAt, Pending
  <2> QED
    BY <1>2, <2>1, <2>2, <2>3, OnlyWrites
<1>10. CASE RenameMetadata(p)
  <2> DEFINE f == fs.stages[d.stage].files
             tree == [fs EXCEPT !.final.meta = f, !.stages[d.stage].files = None]
  <2>1. /\ pc[p] = "metaRename" /\ Write(p, tree, "barrier")
        /\ UNCHANGED <<clock, job>> /\ Holding(p)
    BY <1>10 DEF RenameMetadata, Holding
  <2>2. /\ d # None /\ f \in Metas /\ fs.final # None
        /\ fs.stages[d.stage] # None
    BY <1>1, <2>1 DEF TreeAt, Pending
  <2>3. d.stage \in Installs /\ fs.final \in Copies
    BY <1>1, <2>2 DEF Journals, Trees
  <2>4. fs.stages[d.stage] \in Stages
    BY <1>1, <2>2, <2>3
  <2> HIDE DEF f
  <2>5. tree \in Trees /\ tree.journal = d
    BY <1>1, <2>2, <2>3, <2>4 DEF Trees, Stages, Copies
  <2> HIDE DEF tree
  <2>6. TreeAt("barrier", j, tree)
    BY <2>2, <2>5 DEF TreeAt
  <2> QED
    BY <1>2, <2>1, <2>5, <2>6, OnlyWrites
<1>11. CASE CommitPull(p)
  <2>1. /\ pc[p] = "verify" /\ pc' = [pc EXCEPT ![p] = "dropBackup"] /\ Holding(p)
        /\ UNCHANGED <<srv, fs, images, lock, clock, job, seen, left>>
        /\ row' = d.row
        /\ noteRow' = IF d.notes = NoNote THEN noteRow ELSE d.notes
        /\ rows' = (IF WalLoss THEN rows ELSE {})
                     \cup {[row |-> row', notes |-> noteRow']}
    BY <1>11 DEF CommitPull, Holding
  <2>2. d \in Journals /\ d # None
    BY <1>1, <2>1 DEF TreeAt
  <2>3. row' \in Rows \cup {None} /\ noteRow' \in Notes
    BY <2>1, <2>2 DEF Journals, Shape, TypeOK
  <2>4. rows' \subseteq [row : Rows \cup {None}, notes : Notes]
    BY <2>1, <2>3 DEF Shape, TypeOK
  <2>5. TypeOK'
    BY <2>1, <2>3, <2>4 DEF Shape, TypeOK
  <2>6. JobAt("dropBackup", j) /\ TreeAt("dropBackup", j, fs')
        /\ job' = [job EXCEPT ![p] = j]
    BY <1>2, <2>1, <2>2 DEF TreeAt, Shape, TypeOK
  <2> QED
    BY <2>1, <2>5, <2>6, HolderMoves
<1>12. CASE DropBackup(p)
  <2>1. PICK tree \in {[fs EXCEPT !.prevMeta = None],
                       [fs EXCEPT !.previous = None],
                       [fs EXCEPT !.previous = Torn]},
             k \in {"backupSync", "dropBackup"} : Write(p, tree, k)
    BY <1>12 DEF DropBackup
  <2>2. pc[p] = "dropBackup" /\ UNCHANGED <<clock, job>> /\ Holding(p)
    BY <1>12 DEF DropBackup, Holding
  <2>3. tree \in Trees /\ tree.journal = d
    BY <1>1, <2>1 DEF Trees
  <2>4. d # None
    BY <1>1, <2>2 DEF TreeAt
  <2>5. TreeAt(k, j, tree)
    BY <2>1, <2>3, <2>4 DEF TreeAt
  <2> QED
    BY <1>2, <2>1, <2>2, <2>3, <2>5, OnlyWrites
<1>13. CASE DropJournal(p)
  <2> DEFINE tree == [fs EXCEPT !.journal = None]
  <2>1. /\ pc[p] = "dropJournal" /\ Write(p, tree, "doneSync")
        /\ UNCHANGED <<clock, job>> /\ Holding(p)
    BY <1>13 DEF DropJournal, Holding
  <2>2. tree \in Trees
    BY <1>1 DEF Trees
  <2> HIDE DEF tree
  <2>3. TreeAt("doneSync", j, tree)
    BY DEF TreeAt
  <2> QED
    BY <1>2, <2>1, <2>2, <2>3, OnlyWrites
<1>14. CASE CleanAbandonedStages(p)
  <2> DEFINE stages == [s \in Installs |->
                           IF s \in Abandoned THEN None ELSE fs.stages[s]]
             tree == [fs EXCEPT !.journalTmp = None, !.prevMetaTmp = None,
                                !.stages = stages]
             k == IF j.recovering THEN "diff" ELSE "report"
             st == IF j.recovering THEN j.status ELSE "ok"
             i == [j EXCEPT !.status = st]
  <2>1. pc[p] = "clean" /\ UNCHANGED clock /\ Holding(p) /\ Write(p, tree, k)
    BY <1>14 DEF CleanAbandonedStages, Holding
  <2>2. job' = [job EXCEPT ![p] = i]
    BY <1>1, <1>14 DEF CleanAbandonedStages, Shape, TypeOK
  <2>3. stages \in [Installs -> Stages \cup {None}]
    BY <1>1
  <2> HIDE DEF stages
  <2>4. tree \in Trees
    BY <1>1, <2>3 DEF Trees
  <2>5. st \in {"running", "ok", "error"}
    BY <1>1 DEF Jobs
  <2>6. j.meta \in Metas
    BY <1>1, <2>1 DEF JobAt
  <2>7. CASE j.recovering
    <3>1. k = "diff" /\ st = "running"
      BY <1>1, <2>1, <2>7 DEF JobAt
    <3> HIDE DEF k, st, tree
    <3>2. i \in Jobs /\ i.meta = j.meta /\ i.status = st
      BY <1>1, <2>5 DEF Jobs
    <3>3. i.recovering
      BY <1>1, <2>7 DEF Jobs
    <3> HIDE DEF i
    <3>4. JobAt(k, i) /\ TreeAt(k, i, tree)
      BY <2>6, <3>1, <3>2, <3>3 DEF JobAt, TreeAt
    <3> QED
      BY <2>1, <2>2, <2>4, <3>1, <3>2, <3>4, WriteMoves DEF Shape, TypeOK
  <2>8. CASE ~j.recovering
    <3>1. k = "report"
      BY <2>8
    <3> HIDE DEF k, st, tree
    <3>2. i \in Jobs
      BY <1>1, <2>5 DEF Jobs
    <3> HIDE DEF i
    <3>3. JobAt(k, i) /\ TreeAt(k, i, tree)
      BY <3>1 DEF JobAt, TreeAt
    <3> QED
      BY <2>1, <2>2, <2>4, <3>1, <3>2, <3>3, WriteMoves DEF Shape, TypeOK
  <2> QED
    BY <2>7, <2>8
<1> QED
  BY <1>3, <1>4, <1>5, <1>6, <1>7, <1>8, <1>9, <1>10, <1>11, <1>12, <1>13,
     <1>14

\* The initial memory of a pull.
LEMMA NewJobAt ==
    ASSUME NEW k \in Before
    PROVE  NewJob \in Jobs /\ JobAt(k, NewJob)
BY DEF NewJob, Jobs, JobAt, Before, StagePCs, Writing, Written, Deciding

\* The shape holds at the start,
LEMMA ShapeInit == Init => Shape
<1> SUFFICES ASSUME Init PROVE Shape
  OBVIOUS
<1>1. EmptyTree \in Trees
  BY DEF EmptyTree, Trees
<1>2. TypeOK
  BY <1>1, ConstantsAssumption, NewJobAt
     DEF Init, TypeOK, PCs, Before, Notes, Kinds
<1>3. Exclusive
  BY NoneAssumption DEF Init, Exclusive, Holding
<1> QED
  BY <1>2, <1>3, NewJobAt, BeforeRelies DEF Init, Shape, Before

\* Steps that leave the pulls and the tree they rely on alone.
LEMMA StillShape ==
    ASSUME Shape, TypeOK', UNCHANGED <<fs, lock, pc, job>>
    PROVE  Shape'
BY DEF Shape, Exclusive, Holding

\* Everything that is not a step of the holder of the lock.
LEMMA OtherShape ==
    ASSUME Shape, NEW p \in Pullers,
           StartPull(p) \/ LockInstall(p) \/ Report(p) \/ Crash(p) \/ Fail(p)
    PROVE  Shape'
<1> USE DEF Before, PCs, Shape, TypeOK, index
<1>1. CASE StartPull(p)
  <2>1. PICK j : Proceed(p, j, "lock") /\ j \in Jobs /\ JobAt("lock", j)
    <3>1. PICK force \in BOOLEAN :
            \/ Proceed(p, [NewJob EXCEPT !.force = force], "lock")
            \/ Proceed(p, [NewJob EXCEPT !.force = force,
                             !.meta = [title |-> srv.title,
                                       owner |-> srv.owner],
                             !.advert = srv.blob], "lock")
      BY <1>1 DEF StartPull
    <3>2. NewJob \in Jobs
      BY NewJobAt
    <3>3. CASE Proceed(p, [NewJob EXCEPT !.force = force], "lock")
      <4> DEFINE i == [NewJob EXCEPT !.force = force]
      <4>1. i \in Jobs
        BY <3>2 DEF Jobs
      <4>2. i.recovering /\ ~i.faulted /\ i.status = "running"
        BY DEF NewJob
      <4>3. JobAt("lock", i)
        BY <4>2 DEF JobAt, StagePCs, Writing, Written, Deciding
      <4> QED
        BY <3>3, <4>1, <4>3
    <3>4. CASE Proceed(p, [NewJob EXCEPT !.force = force,
                             !.meta = [title |-> srv.title,
                                       owner |-> srv.owner],
                             !.advert = srv.blob], "lock")
      <4> DEFINE m == [title |-> srv.title, owner |-> srv.owner]
                 i == [NewJob EXCEPT !.force = force, !.meta = m,
                                     !.advert = srv.blob]
      <4>1. m \in Metas /\ srv.blob \in Blobs
        BY DEF Metas, Servers
      <4>2. Proceed(p, i, "lock")
        BY <3>4
      <4> HIDE DEF m
      <4>3. i \in Jobs
        BY <3>2, <4>1 DEF Jobs
      <4>4. i.recovering /\ ~i.faulted /\ i.status = "running"
        BY DEF NewJob
      <4>5. JobAt("lock", i)
        BY <4>4 DEF JobAt, StagePCs, Writing, Written, Deciding
      <4> HIDE DEF i
      <4> QED
        BY <4>2, <4>3, <4>5
    <3> QED
      BY <3>1, <3>3, <3>4
  <2>2. pc[p] = "idle" /\ UNCHANGED lock
    BY <1>1 DEF StartPull
  <2>3. TypeOK'
    BY <2>1, <2>2 DEF Proceed
  <2>4. lock # p
    BY <2>2 DEF Exclusive, Holding
  <2> QED
    BY <2>1, <2>2, <2>3, <2>4, OutsideMoves DEF Proceed
<1>2. CASE LockInstall(p)
  <2> DEFINE j == job[p]
  <2>1. /\ pc[p] = "lock" /\ lock = None /\ lock' = p
        /\ Proceed(p, j, "meta")
    BY <1>2 DEF LockInstall
  <2>2. TypeOK'
    BY <2>1 DEF Proceed, ReadPCs
  <2>3. \A q \in Pullers \ {p} :
           pc[q] \in Before /\ pc'[q] = pc[q] /\ job'[q] = job[q]
    BY <2>1, NoneAssumption DEF Proceed, Exclusive, Holding
  <2>4. pc'[p] = "meta" /\ job'[p] = j
    BY <2>1 DEF Proceed
  <2>5. JobAt("meta", j) /\ TreeAt("meta", j, fs')
    BY <2>1 DEF JobAt, TreeAt, StagePCs, Writing, Written, Deciding,
       Unpublished, Aside, CopiedMeta, KeptMeta, Published
  <2>6. Exclusive'
    BY <2>1, <2>3, <2>4 DEF Exclusive, Holding
  <2>7. \A q \in Pullers : JobAt(pc'[q], job'[q]) /\ TreeAt(pc'[q], job'[q], fs')
    BY <2>3, <2>4, <2>5, BeforeRelies
  <2> QED
    BY <2>2, <2>6, <2>7
<1>3. CASE Report(p)
  <2>1. pc[p] = "report" /\ lock' = None /\ Proceed(p, NewJob, "idle")
    BY <1>3 DEF Report
  <2>2. lock = p
    BY <2>1 DEF Exclusive, Holding
  <2>3. TypeOK'
    BY <2>1, NewJobAt DEF Proceed
  <2> QED
    BY <2>1, <2>2, <2>3, NewJobAt, OutsideMoves DEF Proceed
<1>4. CASE Crash(p)
  <2>1. left' \in [Kinds -> Nat]
    BY <1>4 DEF Crash, Spend, Kinds
  <2>2. TypeOK'
    BY <1>4, <2>1, NewJobAt DEF Crash
  <2> QED
    BY <1>4, <2>2, NewJobAt, OutsideMoves DEF Crash
<1>5. CASE Fail(p)
  <2> DEFINE i == [Return(p, "error") EXCEPT !.faulted = TRUE]
  <2>1. left' \in [Kinds -> Nat]
    BY <1>5 DEF Fail, Spend, Kinds
  <2>2. i \in Jobs
    <3>1. job[p] \in Jobs
      OBVIOUS
    <3> QED
      BY <3>1 DEF Jobs, Return
  <2>3. fs' \in Trees
    <3>1. fs' = fs \/ (pc[p] \in Writing /\ fs' = [fs EXCEPT !.stages[job[p].id] = None])
      BY <1>5 DEF Fail, Writing
    <3>2. pc[p] \in Writing => job[p].id \in Installs
      BY DEF JobAt
    <3> QED
      BY <3>1, <3>2 DEF Trees
  <2>4. images' \subseteq Trees
    BY <1>5, <2>3 DEF Fail, Track
  <2>5. /\ UNCHANGED <<srv, index, lock, clock, seen>> /\ Holding(p)
        /\ job' = [job EXCEPT ![p] = i] /\ pc' = [pc EXCEPT ![p] = "report"]
    BY <1>5 DEF Fail
  <2> HIDE DEF i
  <2>6. TypeOK'
    BY <2>1, <2>2, <2>3, <2>4, <2>5
  <2>7. JobAt("report", i) /\ TreeAt("report", i, fs')
    BY DEF JobAt, TreeAt, StagePCs, Writing, Written, Deciding,
       Unpublished, Aside, CopiedMeta, KeptMeta, Published
  <2> QED
    BY <2>5, <2>6, <2>7, HolderMoves
<1> QED
  BY <1>1, <1>2, <1>3, <1>4, <1>5

\* and is kept by every step.
LEMMA ShapeStep ==
    ASSUME Shape, [Next]_vars
    PROVE  Shape'
<1>1. CASE UNCHANGED vars
  BY <1>1, StillShape DEF vars, index, Shape, TypeOK
<1>2. ASSUME NEW p \in Pullers,
             StartPull(p) \/ Step(p) \/ DownloadCorrupt(p) \/ Fail(p) \/ Crash(p)
      PROVE  Shape'
  BY <1>2, ReadShape, StageShape, MoveShape, OtherShape DEF Step
<1>3. ASSUME NEW r \in Refreshers, RefreshFetch(r) \/ RefreshUpsert(r)
      PROVE  Shape'
  <2>1. UNCHANGED <<srv, fs, images, row, lock, clock, pc, job>>
    BY <1>3 DEF RefreshFetch, RefreshUpsert, index
  <2>2. CASE RefreshFetch(r)
    <3>1. left' \in [Kinds -> Nat]
      BY <2>2 DEF RefreshFetch, Spend, Kinds, Shape, TypeOK
    <3>2. seen' \in [Refreshers -> Notes \cup {None}]
      BY <2>2 DEF RefreshFetch, Shape, TypeOK, Servers
    <3>3. TypeOK'
      BY <2>1, <2>2, <3>1, <3>2 DEF RefreshFetch, Shape, TypeOK, index
    <3> QED
      BY <2>1, <3>3, StillShape
  <2>3. CASE RefreshUpsert(r)
    <3>1. noteRow' \in Notes /\ seen' \in [Refreshers -> Notes \cup {None}]
      BY <2>3 DEF RefreshUpsert, Shape, TypeOK
    <3>2. rows' \subseteq [row : Rows \cup {None}, notes : Notes]
      BY <2>3, <3>1 DEF RefreshUpsert, Shape, TypeOK
    <3>3. TypeOK'
      BY <2>1, <2>3, <3>1, <3>2 DEF RefreshUpsert, Shape, TypeOK
    <3> QED
      BY <2>1, <3>3, StillShape
  <2> QED
    BY <1>3, <2>2, <2>3
<1>4. CASE PowerLoss
  <2>1. left' \in [Kinds -> Nat]
    BY <1>4 DEF PowerLoss, Spend, Kinds, Shape, TypeOK
  <2>2. PICK r \in rows : row' = r.row /\ noteRow' = r.notes
    BY <1>4 DEF PowerLoss
  <2>3. r \in [row : Rows \cup {None}, notes : Notes]
    BY <2>2 DEF Shape, TypeOK
  <2>4. row' \in Rows \cup {None} /\ noteRow' \in Notes
    BY <2>2, <2>3
  <2>5. rows' \subseteq [row : Rows \cup {None}, notes : Notes]
    BY <1>4, <2>4 DEF PowerLoss
  <2>6. fs' \in Trees /\ images' \subseteq Trees
    BY <1>4 DEF PowerLoss, Shape, TypeOK
  <2>7. TypeOK'
    BY <1>4, <2>1, <2>4, <2>5, <2>6, NewJobAt
       DEF PowerLoss, Shape, TypeOK, PCs, Before
  <2>8. Exclusive'
    BY <1>4, NoneAssumption DEF PowerLoss, Exclusive, Holding
  <2> QED
    BY <1>4, <2>7, <2>8, NewJobAt, BeforeRelies DEF PowerLoss, Shape, Before
<1>5. CASE Damage
  <2>1. left' \in [Kinds -> Nat]
    BY <1>5 DEF Damage, Spend, Kinds, Shape, TypeOK
  <2>2. fs.final \in Copies /\ fs \in Trees
    BY <1>5 DEF Damage, Shape, TypeOK, Trees
  <2>3. fs' \in Trees
    BY <1>5, <2>2 DEF Damage, Trees, Copies
  <2>4. TypeOK'
    BY <1>5, <2>1, <2>3 DEF Damage, Track, Shape, TypeOK, index
  <2>5. \A p \in Pullers : pc[p] \in Before
    BY <1>5, NoneAssumption DEF Damage, Shape, TypeOK, Exclusive, Holding, Before
  <2>6. UNCHANGED <<lock, pc, job>>
    BY <1>5 DEF Damage
  <2> QED
    BY <2>4, <2>5, <2>6, BeforeRelies DEF Shape, Exclusive, Holding
<1>6. CASE ServerChanges
  <2>1. left' \in [Kinds -> Nat]
    BY <1>6 DEF ServerChanges, Spend, Kinds, Shape, TypeOK
  <2>2. srv' \in Servers
    BY <1>6 DEF ServerChanges, Shape, TypeOK, Servers
  <2>3. TypeOK'
    BY <1>6, <2>1, <2>2 DEF ServerChanges, Shape, TypeOK, index
  <2> QED
    BY <1>6, <2>3, StillShape DEF ServerChanges
<1> QED
  BY <1>1, <1>2, <1>3, <1>4, <1>5, <1>6 DEF Next

\* The type invariant, whatever fails and whoever edits the files.
THEOREM TypeCorrect == Spec => []TypeOK
<1>1. Shape /\ [Next]_vars => Shape'
  BY ShapeStep
<1>2. Shape => TypeOK
  BY DEF Shape
<1> QED
  BY ShapeInit, <1>1, <1>2, PTL DEF Spec

\* What is spent is missing.
LEMMA SpendSpends ==
    ASSUME Shape, NEW k \in Kinds, Spend(k)
    PROVE  left' # left
BY DEF Spend, Shape, TypeOK

\* Only three steps of a pull touch the published directory.
LEMMA FinalSteps ==
    ASSUME Shape, NEW p \in Pullers, Step(p), fs'.final # fs.final
    PROVE  MoveAside(p) \/ Publish(p) \/ RenameMetadata(p)
<1>1. fs \in Trees
  BY DEF Shape, TypeOK
<1>2. CASE \/ LockInstall(p) \/ FetchMeta(p) \/ Diff(p) \/ Download(p)
           \/ FetchAnnotations(p) \/ UpdateMetadata(p) \/ NoRoom(p)
           \/ DigestRefused(p) \/ Sync(p) \/ RecoverNothing(p)
           \/ RecoverPublished(p) \/ RecoverRefuses(p) \/ NothingToMove(p)
           \/ VerifyRefuses(p) \/ CommitPull(p) \/ Report(p)
  <2>1. UNCHANGED fs
    BY <1>2 DEF LockInstall, FetchMeta, Diff, Download, FetchAnnotations,
       UpdateMetadata, NoRoom, DigestRefused, Sync, RecoverNothing,
       RecoverPublished, RecoverRefuses, NothingToMove, VerifyRefuses,
       CommitPull, Report, Proceed
  <2> QED
    BY <2>1
<1>3. CASE MakeStage(p) \/ MarkStage(p) \/ BeginStageFiles(p) \/ StageFiles(p)
  BY <1>1, <1>3 DEF MakeStage, MarkStage, BeginStageFiles, StageFiles, Write,
     Trees
<1>4. CASE \/ WriteJournal(p) \/ RenameJournal(p) \/ CopyPreviousMetadata(p)
           \/ RenamePreviousMetadata(p) \/ DropBackup(p) \/ DropJournal(p)
  BY <1>1, <1>4 DEF WriteJournal, RenameJournal, CopyPreviousMetadata,
     RenamePreviousMetadata, DropBackup, DropJournal, Write, Trees
<1>5. CASE CleanAbandonedStages(p)
  BY <1>1, <1>5 DEF CleanAbandonedStages, Write, Trees
<1> QED
  BY <1>2, <1>3, <1>4, <1>5 DEF Step

\* Files somebody edited are replaced only by a pull that was forced, or one
\* that carries out a forced install, and then are kept as the backup.
THEOREM EditsAreKept == Spec => EditedFilesNeedForce
<1> DEFINE Edited == fs.final # None /\ fs.final.blob = Garbage
           Kept1 == /\ fs'.previous = fs.final
                    /\ \/ fs.journal.replaceInvalid
                       \/ \E p \in Pullers : lock = p /\ job[p].force
           A == Edited /\ fs'.final # fs.final /\ left' = left => Kept1
<1>1. Shape /\ [Next]_vars => [A]_vars
  <2> SUFFICES ASSUME Shape, Next, Edited, fs'.final # fs.final, left' = left
               PROVE  Kept1
    BY DEF vars
  <2>1. PICK p \in Pullers : Step(p)
    <3>1. ~PowerLoss /\ ~Damage /\ ~ServerChanges
      BY SpendSpends DEF PowerLoss, Damage, ServerChanges, Kinds
    <3>2. \A p \in Pullers : ~Fail(p) /\ ~Crash(p) /\ ~DownloadCorrupt(p)
      BY SpendSpends DEF Fail, Crash, DownloadCorrupt, Kinds
    <3>3. \A r \in Refreshers : ~RefreshFetch(r) /\ ~RefreshUpsert(r)
      BY DEF RefreshFetch, RefreshUpsert
    <3>4. \A p \in Pullers : ~StartPull(p)
      BY DEF StartPull, Proceed
    <3> QED
      BY <3>1, <3>2, <3>3, <3>4 DEF Next
  <2>2. fs \in Trees /\ fs.final \in Copies /\ TreeAt(pc[p], job[p], fs)
    BY DEF Shape, TypeOK, Trees
  <2>3. ~Publish(p)
    <3> SUFFICES ASSUME Publish(p) PROVE FALSE
      OBVIOUS
    <3> QED
      BY <2>2 DEF Publish, TreeAt, Pending, Unpublished, Aside
  <2>4. ~RenameMetadata(p)
    <3> SUFFICES ASSUME RenameMetadata(p) PROVE FALSE
      OBVIOUS
    <3> QED
      BY <2>2, ConstantsAssumption
         DEF RenameMetadata, TreeAt, Pending, Unpublished, Aside, KeptMeta
  <2>5. MoveAside(p)
    BY <2>1, <2>3, <2>4, FinalSteps
  <2>6. fs'.previous = fs.final
    BY <2>2, <2>5 DEF MoveAside, Write, Trees
  <2>7. ~Valid(fs.final)
    BY <2>2, ConstantsAssumption DEF Valid, Copies, Manifests
  <2>8. lock = p
    BY <2>5, PublishableMeans DEF MoveAside, Shape, Exclusive
  <2>9. fs.journal.replaceInvalid \/ job[p].force
    BY <2>5, <2>7 DEF MoveAside, Publishable, FinalReplaceable
  <2> QED
    BY <2>6, <2>8, <2>9
<1>2. Shape /\ [Next]_vars => Shape'
  BY ShapeStep
<1> QED
  BY ShapeInit, <1>1, <1>2, PTL DEF Spec, EditedFilesNeedForce

----------------------------------------------------------------------------
(* Forced: a forced pull installs what it downloads. *)

\* A pull that does not hold the lock knows nothing yet.
LEMMA BeforeForced ==
    ASSUME NEW k \in Before, NEW j, ~j.metadataOnly, NEW t, NEW r
    PROVE  ForcedAt(k, j, t, r)
BY DEF ForcedAt, Before, Uncommitted, Committed, Unpublished, Aside, CopiedMeta,
   KeptMeta, Ended

\* A step of the holder of the lock leaves the others where they are.
LEMMA HolderForced ==
    ASSUME Shape, Forced, NEW p \in Pullers, Holding(p), NEW k, NEW j,
           pc' = [pc EXCEPT ![p] = k], job' = [job EXCEPT ![p] = j],
           ForcedAt(k, j, fs', row')
    PROVE  Forced'
<1>1. ASSUME NEW q \in Pullers, q # p
      PROVE  ForcedAt(pc'[q], job'[q], fs', row')
  <2>1. pc[q] \in Before /\ pc'[q] = pc[q] /\ job'[q] = job[q]
    BY <1>1 DEF Shape, TypeOK, Exclusive, Holding, Before
  <2>2. ~job[q].metadataOnly
    BY <2>1 DEF Forced, ForcedAt
  <2> QED
    BY <2>1, <2>2, BeforeForced
<1>2. pc'[p] = k /\ job'[p] = j
  BY DEF Shape, TypeOK
<1> QED
  BY <1>1, <1>2 DEF Forced

\* A step that only decides.
LEMMA ProceedForced ==
    ASSUME Shape, Forced, NEW p \in Pullers, Holding(p), NEW j, NEW k,
           Proceed(p, j, k), ForcedAt(k, j, fs, row)
    PROVE  Forced'
<1>1. fs' = fs /\ row' = row
  BY DEF Proceed, index
<1> QED
  BY <1>1, HolderForced DEF Proceed

\* A file operation.
LEMMA WriteForced ==
    ASSUME Shape, Forced, NEW p \in Pullers, Holding(p), NEW tree, NEW j, NEW k,
           Write(p, tree, k), job' = [job EXCEPT ![p] = j],
           ForcedAt(k, j, tree, row)
    PROVE  Forced'
<1>1. fs' = tree /\ row' = row
  BY DEF Write, index
<1> QED
  BY <1>1, HolderForced DEF Write

\* A pull that returns an error knows nothing more.
LEMMA ErrorForced ==
    ASSUME NEW j, j.status = "error", j.force => ~j.metadataOnly, NEW t, NEW r
    PROVE  ForcedAt("report", j, t, r)
BY DEF ForcedAt, Before, Uncommitted, Committed, Unpublished, Aside, CopiedMeta,
   KeptMeta, Ended

\* A pull that is still reading, or stages, has nothing in the tree it knows of.
LEMMA EarlyForced ==
    ASSUME NEW j, NEW t, NEW r, j.force => ~j.metadataOnly,
           NEW k \in {"meta", "diff", "notes", "mkstage", "mark", "write",
                      "rewrite", "stageSync", "digest"}
    PROVE  ForcedAt(k, j, t, r)
BY DEF ForcedAt, Before, Uncommitted, Committed, Unpublished, Aside, CopiedMeta,
   KeptMeta, Ended

\* Nor has one that carries out an earlier install.
LEMMA RecoveringForced ==
    ASSUME NEW j, NEW t, NEW r, j.recovering, j.force => ~j.metadataOnly,
           NEW k \in Uncommitted \cup Committed
    PROVE  ForcedAt(k, j, t, r)
BY DEF ForcedAt, Before, Uncommitted, Committed, Unpublished, Aside, CopiedMeta,
   KeptMeta, Ended

\* Reading and deciding: a forced pull does not stop at the stored copy.
LEMMA ReadForced ==
    ASSUME Shape, Forced, NEW p \in Pullers,
           \/ FetchMeta(p) \/ Diff(p) \/ Download(p) \/ FetchAnnotations(p)
           \/ UpdateMetadata(p) \/ NoRoom(p) \/ DownloadCorrupt(p)
    PROVE  Forced'
<1> DEFINE j == job[p]
<1>1. j \in Jobs /\ JobAt(pc[p], j) /\ ForcedAt(pc[p], j, fs, row)
  BY DEF Shape, TypeOK, Forced
<1>2. j.force => ~j.metadataOnly
  BY <1>1 DEF ForcedAt
<1>3. Holding(p)
  BY DEF FetchMeta, Diff, Download, FetchAnnotations, UpdateMetadata, NoRoom,
     DownloadCorrupt, Holding
<1>4. CASE FetchMeta(p)
  <2>1. PICK i \in Jobs : /\ Proceed(p, i, "recover")
                          /\ i.force = j.force /\ i.metadataOnly = j.metadataOnly
                          /\ i.recovering
    <3>1. j.recovering /\ srv \in Servers
      BY <1>1, <1>4 DEF FetchMeta, JobAt, Shape, TypeOK
    <3>2. CASE j.meta # None
      BY <1>1, <1>4, <3>1, <3>2 DEF FetchMeta
    <3>3. CASE j.meta = None
      <4>1. PICK advert \in {srv.blob, None} :
               Proceed(p, [j EXCEPT !.meta = [title |-> srv.title,
                                              owner |-> srv.owner],
                                    !.advert = advert], "recover")
        BY <1>4, <3>3 DEF FetchMeta
      <4> DEFINE i == [j EXCEPT !.meta = [title |-> srv.title,
                                          owner |-> srv.owner],
                                !.advert = advert]
      <4>2. i \in Jobs /\ i.force = j.force /\ i.metadataOnly = j.metadataOnly
            /\ i.recovering
        BY <1>1, <3>1 DEF Jobs, Servers, Metas
      <4> QED
        BY <4>1, <4>2
    <3> QED
      BY <3>2, <3>3
  <2> QED
    BY <1>2, <1>3, <2>1, RecoveringForced, ProceedForced DEF Uncommitted
<1>5. CASE Diff(p)
  <2> DEFINE stored == IF Valid(fs.final) THEN fs.final.manifest ELSE None
             ownerChanged == /\ stored # None
                             /\ stored.owner # job[p].meta.owner
             reread == /\ ~job[p].force /\ ~ownerChanged
                       /\ stored # None /\ stored.notes \in People
             refresh == \/ job[p].force \/ ownerChanged
                        \/ reread /\ AuthorsChanged(stored, srv.notes)
             k == IF ~refresh /\ stored # None /\ stored.hash = job[p].advert
                  THEN "update" ELSE "download"
             notes == IF reread THEN srv.notes ELSE None
             i == [j EXCEPT !.stored = stored, !.refresh = refresh,
                            !.notes = notes]
  <2>1. Proceed(p, i, k)
    BY <1>5 DEF Diff
  <2>2. k \in {"update", "download"} /\ (j.force => refresh /\ k = "download")
    OBVIOUS
  <2> HIDE DEF stored, refresh, k, notes
  <2>3. i.force = j.force /\ i.metadataOnly = j.metadataOnly
        /\ i.refresh = refresh
    BY <1>1 DEF Jobs
  <2> HIDE DEF i
  <2>4. ForcedAt(k, i, fs, row)
    BY <1>2, <2>2, <2>3 DEF ForcedAt, Before, Uncommitted, Committed, Unpublished,
       Aside, CopiedMeta, KeptMeta, Ended
  <2> QED
    BY <1>3, <2>1, <2>4, ProceedForced
<1>6. CASE Download(p)
  <2> DEFINE i == [j EXCEPT !.blob = srv.blob, !.hash = srv.blob]
  <2>1. PICK k \in {"update", "notes"} :
           Proceed(p, i, k) /\ (j.refresh => k = "notes")
    BY <1>6 DEF Download
  <2>2. i.force = j.force /\ i.metadataOnly = j.metadataOnly
    BY <1>1 DEF Jobs
  <2>3. j.force => k = "notes"
    BY <1>1, <1>6, <2>1 DEF Download, ForcedAt
  <2>4. ForcedAt(k, i, fs, row)
    BY <1>2, <2>1, <2>2, <2>3 DEF ForcedAt, Before, Uncommitted, Committed,
       Unpublished, Aside, CopiedMeta, KeptMeta, Ended
  <2> QED
    BY <1>3, <2>1, <2>4, ProceedForced
<1>7. CASE FetchAnnotations(p)
  <2>1. PICK notes : Proceed(p, [j EXCEPT !.notes = notes], "mkstage")
    BY <1>7 DEF FetchAnnotations
  <2>2. [j EXCEPT !.notes = notes].force = j.force
        /\ [j EXCEPT !.notes = notes].metadataOnly = j.metadataOnly
    BY <1>1 DEF Jobs
  <2> QED
    BY <1>2, <1>3, <2>1, <2>2, EarlyForced, ProceedForced
<1>8. CASE UpdateMetadata(p)
  <2>1. ~j.force /\ pc[p] = "update"
    BY <1>1, <1>8 DEF UpdateMetadata, ForcedAt
  <2>2. ASSUME NEW i, NEW k \in {"report", "mkstage"}, Proceed(p, i, k), ~i.force
        PROVE  Forced'
    <3>1. ForcedAt(k, i, fs, row)
      BY <2>2 DEF ForcedAt, Before
    <3> QED
      BY <1>3, <2>2, <3>1, ProceedForced
  <2>3. ~Return(p, "error").force /\ ~Return(p, "ok").force
        /\ ~[j EXCEPT !.metadataOnly = TRUE].force
    BY <1>1, <2>1 DEF Return, Jobs
  <2>4. \/ Proceed(p, Return(p, "error"), "report")
        \/ Proceed(p, Return(p, "ok"), "report")
        \/ Proceed(p, [j EXCEPT !.metadataOnly = TRUE], "mkstage")
    BY <1>8 DEF UpdateMetadata
  <2> QED
    BY <2>2, <2>3, <2>4
<1>9. CASE NoRoom(p)
  <2> DEFINE i == [Return(p, "error") EXCEPT !.faulted = TRUE]
  <2>1. i.force = j.force /\ i.metadataOnly = j.metadataOnly
        /\ i.status = "error"
    BY <1>1 DEF Return, Jobs
  <2> QED
    BY <1>2, <1>3, <1>9, <2>1, ErrorForced, ProceedForced DEF NoRoom
<1>10. CASE DownloadCorrupt(p)
  <2> DEFINE i == [j EXCEPT !.blob = Garbage, !.hash = srv.blob, !.faulted = TRUE]
  <2>1. i.force = j.force /\ i.metadataOnly = j.metadataOnly
    BY <1>1 DEF Jobs
  <2>2. pc' = [pc EXCEPT ![p] = "notes"] /\ job' = [job EXCEPT ![p] = i]
    BY <1>1, <1>10 DEF DownloadCorrupt, Shape, TypeOK
  <2> HIDE DEF i
  <2>3. ForcedAt("notes", i, fs', row')
    BY <1>2, <2>1, EarlyForced
  <2> QED
    BY <1>3, <2>2, <2>3, HolderForced
<1> QED
  BY <1>4, <1>5, <1>6, <1>7, <1>8, <1>9, <1>10

\* A file operation that leaves the memory of the pull alone.
LEMMA OnlyWritesForced ==
    ASSUME Shape, Forced, NEW p \in Pullers, Holding(p), NEW tree, NEW k,
           Write(p, tree, k), UNCHANGED job, ForcedAt(k, job[p], tree, row)
    PROVE  Forced'
<1>1. job' = [job EXCEPT ![p] = job[p]]
  BY DEF Shape, TypeOK
<1> QED
  BY <1>1, WriteForced

\* What a pull knows of the journal outlives the steps that leave it alone.
LEMMA UncommittedForced ==
    ASSUME NEW k \in Uncommitted, NEW l \in Uncommitted, NEW j, NEW t, NEW u,
           NEW r, NEW s, ForcedAt(k, j, t, r), u.journal = t.journal
    PROVE  ForcedAt(l, j, u, s)
BY DEF ForcedAt, Before, Uncommitted, Committed, Unpublished, Aside, CopiedMeta,
   KeptMeta, Ended

\* What it knows of the directory outlives the steps that leave that alone.
LEMMA CommittedForced ==
    ASSUME NEW k \in Committed, NEW l \in Committed, NEW j, NEW t, NEW u,
           NEW r, ForcedAt(k, j, t, r), u.final = t.final
    PROVE  ForcedAt(l, j, u, r)
BY DEF ForcedAt, Delivered, Before, Uncommitted, Committed, Unpublished, Aside,
   CopiedMeta, KeptMeta, Ended

\* Staging and journaling: the journal names what was downloaded.
LEMMA StageForced ==
    ASSUME Shape, Forced, NEW p \in Pullers,
           \/ MakeStage(p) \/ MarkStage(p) \/ BeginStageFiles(p)
           \/ StageFiles(p) \/ WriteJournal(p) \/ DigestRefused(p)
           \/ RenameJournal(p) \/ Sync(p)
    PROVE  Forced'
<1> DEFINE j == job[p]
<1>1. /\ j \in Jobs /\ JobAt(pc[p], j) /\ TreeAt(pc[p], j, fs)
      /\ fs \in Trees /\ ForcedAt(pc[p], j, fs, row)
  BY DEF Shape, TypeOK, Forced
<1>2. j.force => ~j.metadataOnly
  BY <1>1 DEF ForcedAt
<1>3. Holding(p)
  BY DEF MakeStage, MarkStage, BeginStageFiles, StageFiles, WriteJournal,
     DigestRefused, RenameJournal, Sync, AfterSync, Holding
<1>4. CASE MakeStage(p)
  <2> DEFINE i == [j EXCEPT !.id = clock + 1]
             tree == [fs EXCEPT !.stages[clock + 1] =
                                   [mark |-> FALSE, files |-> None]]
  <2>1. i.force = j.force /\ i.metadataOnly = j.metadataOnly
    BY <1>1 DEF Jobs
  <2>2. Write(p, tree, "mark") /\ job' = [job EXCEPT ![p] = i]
    BY <1>1, <1>4 DEF MakeStage, Shape, TypeOK
  <2> HIDE DEF i, tree
  <2>3. ForcedAt("mark", i, tree, row)
    BY <1>2, <2>1, EarlyForced
  <2> QED
    BY <1>3, <2>2, <2>3, WriteForced
<1>5. CASE MarkStage(p) \/ BeginStageFiles(p) \/ StageFiles(p)
  <2>1. ASSUME NEW tree, NEW k \in {"write", "rewrite", "stageSync"},
               Write(p, tree, k), UNCHANGED job
        PROVE  Forced'
    <3>1. ForcedAt(k, j, tree, row)
      BY <1>2, EarlyForced
    <3> QED
      BY <1>3, <2>1, <3>1, OnlyWritesForced
  <2>2. CASE MarkStage(p)
    BY <2>1, <2>2 DEF MarkStage
  <2>3. CASE BeginStageFiles(p)
    BY <2>1, <2>3 DEF BeginStageFiles
  <2>4. CASE StageFiles(p)
    BY <2>1, <2>4 DEF StageFiles
  <2> QED
    BY <1>5, <2>2, <2>3, <2>4
<1>6. CASE WriteJournal(p)
  <2> DEFINE tree == [fs EXCEPT !.journalTmp = JournalOf(p)]
  <2>1. Write(p, tree, "journalTmpSync") /\ UNCHANGED job /\ pc[p] = "digest"
    BY <1>6 DEF WriteJournal
  <2>2. tree.journalTmp = JournalOf(p)
    BY <1>1 DEF Trees
  <2>3. ASSUME j.force
        PROVE  JournalOf(p) # None /\ Names(JournalOf(p).digest, j)
    <3>1. ~j.metadataOnly
      BY <1>2, <2>3
    <3>2. Installing(p) = ContentOf(j)
      BY <1>1, <2>1, <3>1 DEF Installing, TreeAt, Written
    <3>3. JournalOf(p).digest = ContentOf(j)
      BY <3>2 DEF JournalOf
    <3>4. Names(ContentOf(j), j)
      BY <3>1 DEF ContentOf, Names
    <3>5. JournalOf(p) # None
      BY <1>1, <2>1, <1>6, DraftTypes, NoneAssumption DEF WriteJournal
    <3> QED
      BY <3>3, <3>4, <3>5
  <2> HIDE DEF tree
  <2>4. ForcedAt("journalTmpSync", j, tree, row)
    BY <1>2, <2>2, <2>3 DEF ForcedAt, Before, Uncommitted, Committed, Unpublished,
       Aside, CopiedMeta, KeptMeta, Ended
  <2> QED
    BY <1>3, <2>1, <2>4, OnlyWritesForced
<1>7. CASE DigestRefused(p)
  <2> DEFINE i == Return(p, "error")
  <2>1. i.force = j.force /\ i.metadataOnly = j.metadataOnly
        /\ i.status = "error"
    BY <1>1 DEF Return, Jobs
  <2> HIDE DEF i
  <2>2. ForcedAt("report", i, fs, row)
    BY <1>2, <2>1, ErrorForced
  <2>3. Proceed(p, i, "report")
    BY <1>7 DEF DigestRefused, i
  <2> QED
    BY <1>3, <2>2, <2>3, ProceedForced
<1>8. CASE RenameJournal(p)
  <2> DEFINE i == [j EXCEPT !.recovering = FALSE]
             tree == [fs EXCEPT !.journal = fs.journalTmp, !.journalTmp = None]
  <2>1. pc[p] = "journalRename" /\ Write(p, tree, "journalSync")
    BY <1>8 DEF RenameJournal
  <2>2. job' = [job EXCEPT ![p] = i]
    BY <1>1, <1>8 DEF RenameJournal, Shape, TypeOK
  <2>3. /\ i.force = j.force /\ i.metadataOnly = j.metadataOnly
        /\ i.hash = j.hash /\ i.meta = j.meta
    BY <1>1 DEF Jobs
  <2>4. tree.journal = fs.journalTmp
    BY <1>1 DEF Trees
  <2> HIDE DEF i, tree
  <2>5. j.force => fs.journalTmp # None /\ Names(fs.journalTmp.digest, j)
    BY <1>1, <2>1 DEF ForcedAt
  <2>6. ForcedAt("journalSync", i, tree, row)
    BY <1>2, <2>3, <2>4, <2>5 DEF ForcedAt, Names, Before, Uncommitted, Committed,
       Unpublished, Aside, CopiedMeta, KeptMeta, Ended
  <2> QED
    BY <1>3, <2>1, <2>2, <2>6, WriteForced
<1>9. CASE Sync(p)
  <2> DEFINE k == AfterSync[pc[p]]
  <2>1. /\ pc' = [pc EXCEPT ![p] = k] /\ job' = [job EXCEPT ![p] = j]
        /\ fs' = fs /\ row' = row /\ pc[p] \in DOMAIN AfterSync
    BY <1>9 DEF Sync, Shape, TypeOK, index
  <2>2. \/ pc[p] = "stageSync" /\ k = "digest"
        \/ pc[p] = "journalTmpSync" /\ k = "journalRename"
        \/ pc[p] \in Uncommitted /\ k \in Uncommitted
        \/ pc[p] \in Committed /\ k \in Committed
    BY <2>1 DEF AfterSync, Uncommitted, Committed, Unpublished, Aside, CopiedMeta,
       KeptMeta, Ended
  <2> HIDE DEF k
  <2>3. ForcedAt(k, j, fs, row)
    <3>1. CASE k = "digest"
      BY <1>2, <3>1, EarlyForced
    <3>2. CASE pc[p] = "journalTmpSync" /\ k = "journalRename"
      BY <1>1, <3>2 DEF ForcedAt, Before, Uncommitted, Committed, Unpublished,
         Aside, CopiedMeta, KeptMeta, Ended
    <3> QED
      BY <1>1, <2>2, <3>1, <3>2, UncommittedForced, CommittedForced
  <2> QED
    BY <1>3, <2>1, <2>3, HolderForced
<1> QED
  BY <1>4, <1>5, <1>6, <1>7, <1>8, <1>9

\* Publishing: the journal stays, so what is committed is what it names.
LEMMA MoveForced ==
    ASSUME Shape, Forced, NEW p \in Pullers,
           \/ RecoverNothing(p) \/ RecoverPublished(p) \/ RecoverRefuses(p)
           \/ MoveAside(p) \/ NothingToMove(p) \/ Publish(p)
           \/ CopyPreviousMetadata(p) \/ RenamePreviousMetadata(p)
           \/ RenameMetadata(p) \/ VerifyRefuses(p) \/ CommitPull(p)
    PROVE  Forced'
<1> DEFINE j == job[p]
<1>1. /\ j \in Jobs /\ fs \in Trees /\ ForcedAt(pc[p], j, fs, row)
  BY DEF Shape, TypeOK, Forced
<1>2. j.force => ~j.metadataOnly
  BY <1>1 DEF ForcedAt
<1>3. Holding(p) /\ pc[p] \in Uncommitted
  BY DEF RecoverNothing, RecoverPublished, RecoverRefuses, MoveAside,
     NothingToMove, Publish, CopyPreviousMetadata, RenamePreviousMetadata,
     RenameMetadata, VerifyRefuses, CommitPull, Publishable, Holding,
     Uncommitted, Unpublished, Aside, CopiedMeta, KeptMeta
<1>4. CASE RecoverNothing(p)
  <2>1. j.force => j.recovering
    BY <1>1, <1>4 DEF RecoverNothing, ForcedAt, Uncommitted
  <2>2. ForcedAt("clean", j, fs, row)
    BY <1>2, <2>1 DEF ForcedAt, Before, Uncommitted, Committed, Unpublished,
       Aside, CopiedMeta, KeptMeta, Ended
  <2> QED
    BY <1>3, <1>4, <2>2, ProceedForced DEF RecoverNothing
<1>5. CASE RecoverRefuses(p) \/ VerifyRefuses(p)
  <2> DEFINE i == Return(p, "error")
  <2>1. i.force = j.force /\ i.metadataOnly = j.metadataOnly
        /\ i.status = "error"
    BY <1>1 DEF Return, Jobs
  <2>2. Proceed(p, i, "report")
    BY <1>5 DEF RecoverRefuses, VerifyRefuses
  <2> HIDE DEF i
  <2>3. ForcedAt("report", i, fs, row)
    BY <1>2, <2>1, ErrorForced
  <2> QED
    BY <1>3, <2>2, <2>3, ProceedForced
<1>6. CASE RecoverPublished(p) \/ NothingToMove(p)
  <2>1. ASSUME NEW k \in {"barrier", "publish"}, Proceed(p, j, k)
        PROVE  Forced'
    <3>1. ForcedAt(k, j, fs, row)
      BY <1>1, <1>3, UncommittedForced DEF Uncommitted, Unpublished, Aside
    <3> QED
      BY <1>3, <2>1, <3>1, ProceedForced
  <2> QED
    BY <1>6, <2>1 DEF RecoverPublished, NothingToMove
<1>7. ASSUME NEW tree, NEW k \in Uncommitted, Write(p, tree, k),
             UNCHANGED job, tree.journal = fs.journal
      PROVE  Forced'
  <2>1. ForcedAt(k, j, tree, row)
    BY <1>1, <1>3, <1>7, UncommittedForced
  <2> QED
    BY <1>3, <1>7, <2>1, OnlyWritesForced
<1> USE DEF Uncommitted, Unpublished, Aside, CopiedMeta, KeptMeta
<1>8. CASE MoveAside(p)
  BY <1>1, <1>7, <1>8 DEF MoveAside, Trees
<1>9. CASE Publish(p)
  BY <1>1, <1>7, <1>9 DEF Publish, Trees
<1>10. CASE CopyPreviousMetadata(p)
  BY <1>1, <1>7, <1>10 DEF CopyPreviousMetadata, Trees
<1>11. CASE RenamePreviousMetadata(p)
  BY <1>1, <1>7, <1>11 DEF RenamePreviousMetadata, Trees
<1>12. CASE RenameMetadata(p)
  BY <1>1, <1>7, <1>12 DEF RenameMetadata, Trees
<1>13. CASE CommitPull(p)
  <2>1. /\ pc[p] = "verify" /\ AsJournaled(fs.final, fs.journal)
        /\ row' = fs.journal.row /\ fs' = fs
        /\ pc' = [pc EXCEPT ![p] = "dropBackup"]
        /\ job' = [job EXCEPT ![p] = j]
    BY <1>13 DEF CommitPull, Shape, TypeOK
  <2>2. Valid(fs.final) /\ fs.final = fs.journal.digest
        /\ row' = Projection(fs.final)
    BY <2>1 DEF AsJournaled, ProjectionHolds
  <2>3. j.force /\ ~j.recovering => Names(fs.journal.digest, j)
    BY <1>1, <2>1 DEF ForcedAt
  <2>4. ForcedAt("dropBackup", j, fs', row')
    BY <1>2, <2>1, <2>2, <2>3 DEF ForcedAt, Delivered, Before, Committed, Ended
  <2> QED
    BY <1>3, <2>1, <2>4, HolderForced
<1> QED
  BY <1>4, <1>5, <1>6, <1>8, <1>9, <1>10, <1>11, <1>12, <1>13

\* Cleaning up leaves the directory and the row.
LEMMA EndForced ==
    ASSUME Shape, Forced, NEW p \in Pullers,
           DropBackup(p) \/ DropJournal(p) \/ CleanAbandonedStages(p)
    PROVE  Forced'
<1> DEFINE j == job[p]
<1>1. /\ j \in Jobs /\ fs \in Trees /\ ForcedAt(pc[p], j, fs, row)
  BY DEF Shape, TypeOK, Forced
<1>2. j.force => ~j.metadataOnly
  BY <1>1 DEF ForcedAt
<1>3. Holding(p) /\ pc[p] \in Committed
  BY DEF DropBackup, DropJournal, CleanAbandonedStages, Holding, Committed, Ended
<1>4. ASSUME NEW tree, NEW k \in Committed, Write(p, tree, k),
             UNCHANGED job, tree.final = fs.final
      PROVE  Forced'
  <2>1. ForcedAt(k, j, tree, row)
    BY <1>1, <1>3, <1>4, CommittedForced
  <2> QED
    BY <1>3, <1>4, <2>1, OnlyWritesForced
<1>5. CASE DropBackup(p)
  <2>1. [fs EXCEPT !.prevMeta = None].final = fs.final
    BY <1>1 DEF Trees
  <2>2. [fs EXCEPT !.previous = None].final = fs.final
    BY <1>1 DEF Trees
  <2>3. [fs EXCEPT !.previous = Torn].final = fs.final
    BY <1>1 DEF Trees
  <2>4. UNCHANGED job /\ "backupSync" \in Committed /\ "dropBackup" \in Committed
    BY <1>5 DEF DropBackup, Committed
  <2>5. \/ Write(p, [fs EXCEPT !.prevMeta = None], "backupSync")
        \/ Write(p, [fs EXCEPT !.previous = None], "backupSync")
        \/ Write(p, [fs EXCEPT !.previous = Torn], "dropBackup")
    BY <1>5 DEF DropBackup
  <2> QED
    BY <1>4, <2>1, <2>2, <2>3, <2>4, <2>5
<1>6. CASE DropJournal(p)
  <2>1. [fs EXCEPT !.journal = None].final = fs.final /\ "doneSync" \in Committed
    BY <1>1 DEF Trees, Committed, Ended
  <2> QED
    BY <1>4, <1>6, <2>1 DEF DropJournal
<1>7. CASE CleanAbandonedStages(p)
  <2> DEFINE st == IF j.recovering THEN j.status ELSE "ok"
             i == [j EXCEPT !.status = st]
             k == IF j.recovering THEN "diff" ELSE "report"
             tree == [fs EXCEPT !.journalTmp = None, !.prevMetaTmp = None,
                                !.stages = [s \in Installs |->
                                   IF s \in Abandoned THEN None ELSE @[s]]]
  <2>1. pc[p] = "clean" /\ Write(p, tree, k)
    BY <1>7 DEF CleanAbandonedStages
  <2>2. job' = [job EXCEPT ![p] = i]
    BY <1>1, <1>7 DEF CleanAbandonedStages, Shape, TypeOK
  <2>3. tree.final = fs.final
    BY <1>1 DEF Trees
  <2> HIDE DEF tree, st
  <2>4. /\ i.force = j.force /\ i.metadataOnly = j.metadataOnly
        /\ i.hash = j.hash /\ i.meta = j.meta
    BY <1>1 DEF Jobs
  <2> HIDE DEF i
  <2>5. ForcedAt(k, i, tree, row)
    <3>1. CASE j.recovering
      <4>1. k = "diff"
        BY <3>1
      <4> QED
        BY <1>2, <2>4, <4>1, EarlyForced
    <3>2. CASE ~j.recovering
      <4>1. j.force => Delivered(fs, row, j)
        BY <1>1, <2>1, <3>2 DEF ForcedAt, Committed, Ended
      <4>2. i.force => Delivered(tree, row, i)
        BY <2>3, <2>4, <4>1 DEF Delivered, Names
      <4>3. k = "report"
        BY <3>2
      <4> QED
        BY <1>2, <2>4, <4>2, <4>3 DEF ForcedAt, Before, Uncommitted, Committed,
           Unpublished, Aside, CopiedMeta, KeptMeta, Ended
    <3> QED
      BY <3>1, <3>2
  <2> QED
    BY <1>3, <2>1, <2>2, <2>5, WriteForced
<1> QED
  BY <1>5, <1>6, <1>7

\* A pull that returns, dies, or has not taken the lock yet, when the tree and
\* the row stay.
LEMMA OutsideForced ==
    ASSUME Shape, Forced, NEW p \in Pullers, UNCHANGED <<fs, row>>, NEW j, NEW k,
           pc' = [pc EXCEPT ![p] = k], job' = [job EXCEPT ![p] = j],
           ForcedAt(k, j, fs, row)
    PROVE  Forced'
<1>1. \A q \in Pullers : /\ pc'[q] = IF q = p THEN k ELSE pc[q]
                         /\ job'[q] = IF q = p THEN j ELSE job[q]
  BY DEF Shape, TypeOK
<1> QED
  BY <1>1 DEF Forced

\* A new pull knows nothing.
LEMMA NewForced ==
    ASSUME NEW k \in Before, NEW t, NEW r
    PROVE  ForcedAt(k, NewJob, t, r)
<1>1. ~NewJob.metadataOnly
  BY DEF NewJob
<1> QED
  BY <1>1, BeforeForced

\* Everything that is not a step of the holder of the lock.
LEMMA OtherForced ==
    ASSUME Shape, Forced, NEW p \in Pullers,
           StartPull(p) \/ LockInstall(p) \/ Report(p) \/ Crash(p) \/ Fail(p)
    PROVE  Forced'
<1>1. job[p] \in Jobs /\ ForcedAt(pc[p], job[p], fs, row)
  BY DEF Shape, TypeOK, Forced
<1>2. CASE StartPull(p)
  <2>1. ASSUME NEW i, ~i.metadataOnly, Proceed(p, i, "lock") PROVE Forced'
    <3>1. ForcedAt("lock", i, fs, row)
      BY <2>1, BeforeForced DEF Before
    <3> QED
      BY <2>1, <3>1, OutsideForced DEF Proceed, index
  <2>2. PICK force \in BOOLEAN :
          \/ Proceed(p, [NewJob EXCEPT !.force = force], "lock")
          \/ Proceed(p, [NewJob EXCEPT !.force = force,
                           !.meta = [title |-> srv.title,
                                     owner |-> srv.owner],
                           !.advert = srv.blob], "lock")
    BY <1>2 DEF StartPull
  <2>3. ~[NewJob EXCEPT !.force = force].metadataOnly
    BY DEF NewJob
  <2>4. ~[NewJob EXCEPT !.force = force,
                        !.meta = [title |-> srv.title, owner |-> srv.owner],
                        !.advert = srv.blob].metadataOnly
    BY DEF NewJob
  <2> QED
    BY <2>1, <2>2, <2>3, <2>4
<1>3. CASE LockInstall(p)
  <2>1. ForcedAt("meta", job[p], fs, row)
    BY <1>1, <1>3, EarlyForced DEF LockInstall, ForcedAt, Before
  <2> QED
    BY <1>3, <2>1, OutsideForced DEF LockInstall, Proceed, index
<1>4. CASE Report(p)
  BY <1>4, NewForced, OutsideForced DEF Report, Proceed, index, Before
<1>5. CASE Crash(p)
  BY <1>5, NewForced, OutsideForced DEF Crash, index, Before
<1>6. CASE Fail(p)
  <2> DEFINE i == [Return(p, "error") EXCEPT !.faulted = TRUE]
  <2>1. i.force = job[p].force /\ i.metadataOnly = job[p].metadataOnly
        /\ i.status = "error"
    BY <1>1 DEF Return, Jobs
  <2>2. /\ job' = [job EXCEPT ![p] = i] /\ pc' = [pc EXCEPT ![p] = "report"]
        /\ Holding(p)
    BY <1>6 DEF Fail
  <2>3. i.force => ~i.metadataOnly
    BY <1>1, <2>1 DEF ForcedAt
  <2> HIDE DEF i
  <2>4. ForcedAt("report", i, fs', row')
    BY <2>1, <2>3, ErrorForced
  <2> QED
    BY <2>2, <2>4, HolderForced
<1> QED
  BY <1>2, <1>3, <1>4, <1>5, <1>6

\* Forced holds at the start,
LEMMA ForcedInit == Init => Forced
BY NewForced DEF Init, Forced, Before

\* and is kept by every step.
LEMMA ForcedStep ==
    ASSUME Shape, Forced, [Next]_vars
    PROVE  Forced'
<1>1. CASE UNCHANGED <<fs, row, pc, job>>
  BY <1>1 DEF Forced
<1>2. CASE UNCHANGED vars
  BY <1>1, <1>2 DEF vars, index
<1>3. ASSUME NEW p \in Pullers,
             StartPull(p) \/ Step(p) \/ DownloadCorrupt(p) \/ Fail(p) \/ Crash(p)
      PROVE  Forced'
  BY <1>3, ReadForced, StageForced, MoveForced, EndForced, OtherForced DEF Step
<1>4. ASSUME NEW r \in Refreshers, RefreshFetch(r) \/ RefreshUpsert(r)
      PROVE  Forced'
  BY <1>1, <1>4 DEF RefreshFetch, RefreshUpsert, index
<1>5. CASE PowerLoss
  BY <1>5, NewForced DEF PowerLoss, Forced, Before
<1>6. CASE Damage
  <2>1. \A p \in Pullers : pc[p] \in Before
    BY <1>6, NoneAssumption DEF Damage, Shape, TypeOK, Exclusive, Holding, Before
  <2>2. UNCHANGED <<pc, job>>
    BY <1>6 DEF Damage
  <2>3. \A p \in Pullers : ~job[p].metadataOnly
    BY <2>1 DEF Forced, ForcedAt
  <2> QED
    BY <2>1, <2>2, <2>3, BeforeForced DEF Forced
<1>7. CASE ServerChanges
  BY <1>1, <1>7 DEF ServerChanges, index
<1> QED
  BY <1>2, <1>3, <1>4, <1>5, <1>6, <1>7 DEF Next

\* A forced pull that reports success leaves a complete copy of what it
\* downloaded and the row of that copy, whatever the village serves, however
\* often power is lost with the index's last commits, and whoever edits the
\* files: there is no hypothesis on the environment.
THEOREM ForcedPullIsTrue == Spec => []ForcedPullRepairs
<1>1. Shape /\ Forced /\ [Next]_vars => Shape' /\ Forced'
  BY ShapeStep, ForcedStep
<1>2. Shape /\ Forced => ForcedPullRepairs
  BY DEF Forced, ForcedAt, Delivered, Names, ForcedPullRepairs, Succeeded
<1> QED
  BY ShapeInit, ForcedInit, <1>1, <1>2, PTL DEF Spec

----------------------------------------------------------------------------
(* Safe: what the trees have in common with the row. *)

\* Whether a tree is good depends on the directory, the backups, the journal
\* and its stage.
LEMMA GoodSame ==
    ASSUME NEW t, NEW u, NEW r, Good(t, r),
           u.journal = t.journal, u.final = t.final,
           u.previous = t.previous, u.prevMeta = t.prevMeta,
           t.journal # None =>
               u.stages[t.journal.stage] = t.stages[t.journal.stage]
    PROVE  Good(u, r)
BY DEF Good, Settled, FullTree, FullStaged, FullPublished, MetaTree,
   MetaStaged, MetaPublished

\* A pull that does not hold the lock knows nothing.
LEMMA BeforeKnows ==
    ASSUME NEW k \in Before, NEW j, NEW t, NEW r
    PROVE  Knows(k, j, t, r) <=> ~j.metadataOnly
BY DEF Knows, Before, Deciding, StagePCs, MovePCs, Ended, CopiedMeta, KeptMeta,
   Published

\* A pull is judged by what it was asked for and what it fetched.
LEMMA FulfilsSame ==
    ASSUME NEW i, NEW j, NEW c, Fulfils(c, j), i.meta = j.meta,
           i.advert = j.advert, i.hash = j.hash, i.notes = j.notes
    PROVE  Fulfils(c, i)
BY DEF Fulfils

\* A step of the holder of the lock, that keeps it, and the row.
LEMMA HolderSafe ==
    ASSUME Shape, Safe, NEW p \in Pullers, Holding(p),
           NEW j, NEW k, k \notin Before,
           pc' = [pc EXCEPT ![p] = k], job' = [job EXCEPT ![p] = j],
           UNCHANGED <<row, noteRow, rows>>, left'["damage"] = 0,
           images' \subseteq images \cup {fs, fs'}, Good(fs', row),
           k \in Flushed => images' \subseteq {fs'},
           Knows(k, j, fs', row)
    PROVE  Safe'
<1>1. \A q \in Pullers \ {p} :
         pc[q] \in Before /\ pc'[q] = pc[q] /\ job'[q] = job[q]
  BY DEF Shape, TypeOK, Exclusive, Holding, Before
<1>2. pc'[p] = k /\ job'[p] = j
  BY DEF Shape, TypeOK
<1>3. \A q \in Pullers \ {p} : ~job[q].metadataOnly
  BY <1>1, BeforeKnows DEF Safe
<1>4. \A q \in Pullers : /\ Knows(pc'[q], job'[q], fs', row)
                         /\ pc'[q] \in Flushed => images' \subseteq {fs'}
  <2>1. \A q \in Pullers \ {p} : Knows(pc[q], job[q], fs', row)
    BY <1>1, <1>3, BeforeKnows
  <2>2. \A q \in Pullers \ {p} : pc[q] \notin Flushed
    BY <1>1 DEF Before, Flushed
  <2> QED
    BY <1>1, <1>2, <2>1, <2>2
<1>5. \A t \in images' \cup {fs'} : Good(t, row)
  BY DEF Safe
<1> QED
  BY <1>4, <1>5 DEF Safe

\* A file operation of the lock holder keeps the directory recoverable.
LEMMA WriteSafe ==
    ASSUME Shape, Safe, NEW p \in Pullers, Holding(p), NEW j,
           NEW k, k \notin Before \cup Flushed, NEW tree, Write(p, tree, k),
           job' = [job EXCEPT ![p] = j], Good(tree, row),
           Knows(k, j, tree, row)
    PROVE  Safe'
<1>1. images' \subseteq images \cup {fs, fs'} /\ fs' = tree
  BY DEF Write, Track
<1>2. UNCHANGED <<row, noteRow, rows>> /\ left'["damage"] = 0
  BY DEF Write, index, Safe
<1> QED
  BY <1>1, <1>2, HolderSafe DEF Write

\* A write that leaves the memory of the pull alone.
LEMMA OnlyWritesSafe ==
    ASSUME Shape, Safe, NEW p \in Pullers, Holding(p),
           NEW k, k \notin Before \cup Flushed, NEW tree, Write(p, tree, k),
           UNCHANGED job, Good(tree, row), Knows(k, job[p], tree, row)
    PROVE  Safe'
<1>1. job' = [job EXCEPT ![p] = job[p]]
  BY DEF Shape, TypeOK
<1> QED
  BY <1>1, WriteSafe

\* So does a step that only decides.
LEMMA ProceedSafe ==
    ASSUME Shape, Safe, NEW p \in Pullers, Holding(p), NEW j,
           NEW k, k \notin Before \cup Flushed, Proceed(p, j, k),
           Knows(k, j, fs, row)
    PROVE  Safe'
<1>1. images' \subseteq images \cup {fs, fs'} /\ fs' = fs
  BY DEF Proceed
<1>2. UNCHANGED <<row, noteRow, rows>> /\ left'["damage"] = 0
  BY DEF Proceed, index, Safe
<1>3. Good(fs', row)
  BY <1>1 DEF Safe
<1> QED
  BY <1>1, <1>2, <1>3, HolderSafe DEF Proceed

\* A pull that returns, dies, or has not taken the lock yet.
LEMMA OutsideSafe ==
    ASSUME Shape, Safe, NEW p \in Pullers, NEW j, NEW k \in Before \cup {"meta"},
           ~j.metadataOnly, j.recovering, UNCHANGED <<fs, images, index>>,
           left'["damage"] = 0,
           pc' = [pc EXCEPT ![p] = k], job' = [job EXCEPT ![p] = j]
    PROVE  Safe'
<1>1. \A q \in Pullers \ {p} : pc'[q] = pc[q] /\ job'[q] = job[q]
  BY DEF Shape, TypeOK
<1>2. pc'[p] = k /\ job'[p] = j
  BY DEF Shape, TypeOK
<1>3. Knows(k, j, fs', row)
  BY DEF Knows, Before, Deciding, StagePCs, MovePCs, Ended, CopiedMeta,
     KeptMeta, Published
<1> QED
  BY <1>1, <1>2, <1>3 DEF Safe, index, Before, Flushed

\* A pull that ends with an error of its own.
LEMMA FaultReported ==
    ASSUME NEW j, NEW t, NEW r, j.status = "error", j.faulted
    PROVE  Knows("report", j, t, r)
BY DEF Knows, Before, Deciding, StagePCs, MovePCs, Ended, CopiedMeta, KeptMeta,
   Published

\* What a pull decides is about the copy that is there.
LEMMA ReadSafe ==
    ASSUME Shape, Safe, NEW p \in Pullers,
           \/ FetchMeta(p) \/ Diff(p) \/ Download(p) \/ FetchAnnotations(p)
           \/ UpdateMetadata(p) \/ NoRoom(p) \/ DownloadCorrupt(p)
    PROVE  Safe'
<1> DEFINE j == job[p]
<1> USE DEF Before, Deciding, StagePCs, MovePCs, Ended, CopiedMeta, KeptMeta,
        Published, Flushed
<1>1. /\ j \in Jobs /\ JobAt(pc[p], j) /\ Knows(pc[p], j, fs, row)
      /\ fs \in Trees /\ Good(fs, row)
  BY DEF Shape, TypeOK, Safe
<1>2. CASE FetchMeta(p)
  <2>1. Holding(p) /\ pc[p] = "meta"
    BY <1>2 DEF FetchMeta, Holding
  <2>2. j.recovering /\ ~j.metadataOnly
    BY <1>1, <2>1 DEF JobAt, Knows
  <2>3. ASSUME NEW i, Proceed(p, i, "recover"), i.recovering, ~i.metadataOnly
        PROVE  Safe'
    <3>1. Knows("recover", i, fs, row)
      BY <2>3 DEF Knows
    <3> QED
      BY <2>1, <2>3, <3>1, ProceedSafe
  <2>4. ASSUME NEW m, NEW advert
        PROVE  LET i == [j EXCEPT !.meta = m, !.advert = advert]
               IN  i.recovering /\ ~i.metadataOnly
    BY <1>1, <2>2 DEF Jobs
  <2> QED
    BY <1>2, <2>2, <2>3, <2>4 DEF FetchMeta
<1>3. CASE Diff(p)
  <2> DEFINE stored == IF Valid(fs.final) THEN fs.final.manifest ELSE None
             ownerChanged == /\ stored # None
                             /\ stored.owner # j.meta.owner
             reread == /\ ~j.force /\ ~ownerChanged
                       /\ stored # None /\ stored.notes \in People
             refresh == \/ j.force \/ ownerChanged
                        \/ reread /\ AuthorsChanged(stored, srv.notes)
             next == IF ~refresh /\ stored # None /\ stored.hash = j.advert
                     THEN "update" ELSE "download"
             notes == IF reread THEN srv.notes ELSE None
             i == [j EXCEPT !.stored = stored, !.refresh = refresh,
                            !.notes = notes]
  <2>1. Holding(p) /\ pc[p] = "diff" /\ Proceed(p, i, next)
    BY <1>3 DEF Diff, Holding
  <2>2. fs.journal = None /\ NoDebris(fs) /\ ~j.metadataOnly
    BY <1>1, <2>1 DEF Knows
  <2>3. stored # None /\ ~refresh =>
           /\ stored.owner = j.meta.owner
           /\ stored.notes \in People => notes \in {NoNote, stored.notes}
    BY DEF AuthorsChanged
  <2>4. next = "update" => ~refresh /\ stored # None /\ stored.hash = j.advert
    OBVIOUS
  <2>5. next \in {"update", "download"}
    OBVIOUS
  <2>6. stored = IF Valid(fs.final) THEN fs.final.manifest ELSE None
    OBVIOUS
  <2>7. refresh \in BOOLEAN
    BY <1>1 DEF Jobs
  <2> HIDE DEF stored, refresh, next, notes
  <2>8. i.stored = stored /\ i.notes = notes /\ i.meta = j.meta
        /\ i.advert = j.advert
    BY <1>1 DEF Jobs
  <2>9. i.refresh <=> refresh
    BY <1>1, <2>7 DEF Jobs
  <2>10. ~i.metadataOnly
    BY <1>1, <2>2 DEF Jobs
  <2> HIDE DEF i
  <2>11. Decided(fs, i)
    BY <2>3, <2>6, <2>8, <2>9 DEF Decided
  <2>12. Knows(next, i, fs, row)
    BY <2>2, <2>4, <2>5, <2>8, <2>9, <2>10, <2>11 DEF Knows
  <2> QED
    BY <2>1, <2>5, <2>12, ProceedSafe
<1>4. CASE Download(p)
  <2> DEFINE next == IF ~j.refresh /\ j.stored # None /\ j.stored.hash = srv.blob
                     THEN "update" ELSE "notes"
             i == [j EXCEPT !.blob = srv.blob, !.hash = srv.blob]
  <2>1. Holding(p) /\ pc[p] = "download" /\ Proceed(p, i, next)
    BY <1>4 DEF Download, Holding
  <2>2. fs.journal = None /\ NoDebris(fs) /\ ~j.metadataOnly /\ Decided(fs, j)
    BY <1>1, <2>1 DEF Knows
  <2>3. next = "update" => ~j.refresh /\ j.stored # None
                           /\ j.stored.hash = srv.blob
    OBVIOUS
  <2>4. next \in {"update", "notes"}
    OBVIOUS
  <2> HIDE DEF next
  <2>5. i.stored = j.stored /\ i.notes = j.notes /\ i.meta = j.meta
        /\ i.hash = srv.blob /\ i.blob = srv.blob
    BY <1>1 DEF Jobs
  <2>6. i.refresh = j.refresh
    BY <1>1 DEF Jobs
  <2>7. ~i.metadataOnly
    BY <1>1, <2>2 DEF Jobs
  <2> HIDE DEF i
  <2>8. Decided(fs, i)
    BY <2>2, <2>5, <2>6 DEF Decided
  <2>9. Knows(next, i, fs, row)
    BY <2>2, <2>3, <2>4, <2>5, <2>6, <2>7, <2>8 DEF Knows
  <2> QED
    BY <2>1, <2>4, <2>9, ProceedSafe
<1>5. CASE FetchAnnotations(p)
  <2> DEFINE notes == IF job[p].notes = None THEN srv.notes ELSE job[p].notes
             i == [j EXCEPT !.notes = notes]
  <2>1. Holding(p) /\ pc[p] = "notes" /\ Proceed(p, i, "mkstage")
    BY <1>5 DEF FetchAnnotations, Holding
  <2>2. fs.journal = None /\ ~j.metadataOnly /\ (~j.faulted => j.blob = j.hash)
    BY <1>1, <2>1 DEF Knows
  <2> HIDE DEF notes
  <2>3. i.hash = j.hash /\ i.blob = j.blob
    BY <1>1 DEF Jobs
  <2>4. ~i.metadataOnly /\ i.faulted = j.faulted
    BY <1>1, <2>2 DEF Jobs
  <2> HIDE DEF i
  <2>5. Knows("mkstage", i, fs, row)
    BY <2>2, <2>3, <2>4 DEF Knows
  <2> QED
    BY <2>1, <2>5, ProceedSafe
<1>6. CASE UpdateMetadata(p)
  <2>1. Holding(p) /\ pc[p] = "update"
    BY <1>6 DEF UpdateMetadata, Holding
  <2>2. /\ fs.journal = None /\ NoDebris(fs) /\ ~j.metadataOnly
        /\ Decided(fs, j) /\ ~j.refresh /\ j.stored # None
        /\ j.stored.hash \in {j.advert, j.hash}
    BY <1>1, <2>1 DEF Knows
  <2>3. /\ Valid(fs.final) /\ j.stored = fs.final.manifest
        /\ fs.final.manifest.owner = j.meta.owner
        /\ fs.final.manifest.notes \in People =>
              j.notes \in {NoNote, fs.final.manifest.notes}
    BY <2>2 DEF Decided
  <2>4. fs.final # None /\ fs.final \in Copies
    BY <1>1, <2>3 DEF Valid, Trees
  <2>5. CASE fs.final.meta = j.meta /\ Proceed(p, Return(p, "ok"), "report")
    <3> DEFINE i == Return(p, "ok")
    <3>1. i.meta = j.meta /\ i.advert = j.advert /\ i.hash = j.hash
          /\ i.notes = j.notes /\ i.status = "ok"
      BY <1>1 DEF Return, Jobs
    <3>2. Fulfils(fs.final, j)
      BY <2>2, <2>3, <2>5 DEF Fulfils
    <3> HIDE DEF i
    <3>3. Fulfils(fs.final, i)
      BY <3>1, <3>2, FulfilsSame
    <3>4. Knows("report", i, fs, row)
      BY <2>2, <3>1, <3>3 DEF Knows
    <3>5. Proceed(p, i, "report")
      BY <2>5 DEF i
    <3> QED
      BY <2>1, <3>4, <3>5, ProceedSafe
  <2>6. CASE Proceed(p, [j EXCEPT !.metadataOnly = TRUE], "mkstage")
    <3> DEFINE i == [j EXCEPT !.metadataOnly = TRUE]
               c == [fs.final EXCEPT !.meta = j.meta]
    <3>1. i.meta = j.meta /\ i.advert = j.advert /\ i.hash = j.hash
          /\ i.notes = j.notes
      BY <1>1 DEF Jobs
    <3>2. i.metadataOnly
      BY <1>1 DEF Jobs
    <3>3. j.meta \in Metas
      BY <1>1, <2>1 DEF JobAt
    <3>4. c.manifest = fs.final.manifest /\ c.blob = fs.final.blob
          /\ c.meta = j.meta /\ c \in Copies
      BY <2>4, <3>3 DEF Copies
    <3>5. Valid(c)
      BY <2>3, <3>4, NoneAssumption, TornAssumption DEF Valid
    <3>6. Fulfils(c, j)
      BY <2>2, <2>3, <3>4, <3>5 DEF Fulfils
    <3>7. Fulfils(c, i)
      BY <3>1, <3>6, FulfilsSame
    <3>8. c = [fs.final EXCEPT !.meta = i.meta]
      BY <3>1
    <3> HIDE DEF i, c
    <3>9. Kept(fs, i)
      BY <2>3, <3>7, <3>8 DEF Kept
    <3>10. Knows("mkstage", i, fs, row)
      BY <2>2, <3>2, <3>9 DEF Knows
    <3>11. Proceed(p, i, "mkstage")
      BY <2>6 DEF i
    <3> QED
      BY <2>1, <3>10, <3>11, ProceedSafe
  <2> QED
    BY <1>6, <2>4, <2>5, <2>6 DEF UpdateMetadata
<1>7. CASE NoRoom(p)
  <2> DEFINE i == [Return(p, "error") EXCEPT !.faulted = TRUE]
  <2>1. Holding(p) /\ Proceed(p, i, "report")
    BY <1>7 DEF NoRoom, Holding
  <2>2. i.status = "error" /\ i.faulted
    BY <1>1 DEF Return, Jobs
  <2> HIDE DEF i
  <2> QED
    BY <2>1, <2>2, FaultReported, ProceedSafe
<1>8. CASE DownloadCorrupt(p)
  <2> DEFINE i == [j EXCEPT !.blob = Garbage, !.hash = srv.blob, !.faulted = TRUE]
  <2>1. Holding(p) /\ pc[p] = "download"
        /\ UNCHANGED <<fs, images, row, noteRow, rows>>
    BY <1>8 DEF DownloadCorrupt, Holding, index
  <2>2. job' = [job EXCEPT ![p] = i] /\ pc' = [pc EXCEPT ![p] = "notes"]
    BY <1>8 DEF DownloadCorrupt, Shape, TypeOK
  <2>3. left'["damage"] = 0
    BY <1>8 DEF DownloadCorrupt, Spend, Shape, TypeOK, Safe, Kinds
  <2>4. fs.journal = None /\ ~j.metadataOnly
    BY <1>1, <2>1 DEF Knows
  <2>5. i.faulted /\ ~i.metadataOnly
    BY <1>1, <2>4 DEF Jobs
  <2> HIDE DEF i
  <2>6. Knows("notes", i, fs', row)
    BY <2>1, <2>4, <2>5 DEF Knows
  <2>7. Good(fs', row)
    BY <1>1, <2>1
  <2> QED
    BY <2>1, <2>2, <2>3, <2>6, <2>7, HolderSafe
<1> QED
  BY <1>2, <1>3, <1>4, <1>5, <1>6, <1>7, <1>8

\* A pull that goes on with the same request and answers.
Alike(i, j) ==
    /\ i.meta = j.meta /\ i.advert = j.advert /\ i.hash = j.hash
    /\ i.notes = j.notes /\ i.blob = j.blob
    /\ i.metadataOnly = j.metadataOnly /\ i.faulted = j.faulted

\* Two trees that differ in stages and temporary files alone.
Beside(u, t) ==
    /\ u.journal = t.journal /\ u.final = t.final
    /\ u.previous = t.previous /\ u.prevMeta = t.prevMeta

\* A stage is written beside a settled directory.
LEMMA StageWriteSafe ==
    ASSUME Shape, Safe, NEW p \in Pullers, Holding(p), NEW i, NEW k, NEW tree,
           Write(p, tree, k), job' = [job EXCEPT ![p] = i],
           Alike(i, job[p]), Beside(tree, fs),
           {pc[p], k} \subseteq {"mkstage", "mark", "write", "rewrite", "stageSync"},
           pc[p] # "stageSync", k # "mkstage"
    PROVE  Safe'
<1> DEFINE j == job[p]
<1> USE DEF Alike, Beside, Before, Deciding, StagePCs, MovePCs, Ended, CopiedMeta, KeptMeta,
        Published, Flushed
<1>1. Knows(pc[p], j, fs, row) /\ Good(fs, row)
  BY DEF Safe
<1>2. /\ fs.journal = None
      /\ j.metadataOnly => Kept(fs, j)
      /\ ~j.metadataOnly /\ ~j.faulted => j.blob = j.hash
  BY <1>1 DEF Knows
<1>3. Good(tree, row)
  BY <1>1, <1>2, GoodSame
<1>4. i.metadataOnly => Kept(tree, i)
  <2> SUFFICES ASSUME j.metadataOnly PROVE Kept(tree, i)
    OBVIOUS
  <2>1. Valid(fs.final) /\ Fulfils([fs.final EXCEPT !.meta = j.meta], j)
    BY <1>2 DEF Kept
  <2>2. Fulfils([fs.final EXCEPT !.meta = j.meta], i)
    BY <2>1, FulfilsSame
  <2> QED
    BY <2>1, <2>2 DEF Kept
<1>5. Knows(k, i, tree, row)
  BY <1>2, <1>4 DEF Knows
<1> QED
  BY <1>3, <1>5, WriteSafe

\* The stage and the journal are written.
LEMMA StageSafe ==
    ASSUME Shape, Safe, NEW p \in Pullers,
           \/ MakeStage(p) \/ MarkStage(p) \/ BeginStageFiles(p)
           \/ StageFiles(p) \/ WriteJournal(p) \/ DigestRefused(p)
           \/ RenameJournal(p)
    PROVE  Safe'
<1> DEFINE j == job[p]
<1> USE DEF Before, Deciding, StagePCs, MovePCs, Ended, CopiedMeta, KeptMeta,
        Published, Flushed
<1>1. /\ j \in Jobs /\ JobAt(pc[p], j) /\ Knows(pc[p], j, fs, row)
      /\ TreeAt(pc[p], j, fs) /\ fs \in Trees /\ Good(fs, row)
      /\ job = [job EXCEPT ![p] = j]
  BY DEF Shape, TypeOK, Safe
<1>2. CASE MakeStage(p)
  <2> DEFINE tree == [fs EXCEPT !.stages[clock + 1] =
                                   [mark |-> FALSE, files |-> None]]
             i == [j EXCEPT !.id = clock + 1]
  <2>1. pc[p] = "mkstage" /\ Write(p, tree, "mark") /\ Holding(p)
    BY <1>2 DEF MakeStage, Holding
  <2>2. job' = [job EXCEPT ![p] = i]
    BY <1>1, <1>2 DEF MakeStage, Shape, TypeOK
  <2>3. tree.journal = fs.journal /\ tree.final = fs.final
        /\ tree.previous = fs.previous /\ tree.prevMeta = fs.prevMeta
    BY <1>1 DEF Trees
  <2>4. i.meta = j.meta /\ i.advert = j.advert /\ i.hash = j.hash
        /\ i.notes = j.notes /\ i.blob = j.blob
    BY <1>1 DEF Jobs
  <2>5. i.metadataOnly = j.metadataOnly /\ i.faulted = j.faulted
    BY <1>1 DEF Jobs
  <2>6. Alike(i, j) /\ Beside(tree, fs)
    BY <2>3, <2>4, <2>5 DEF Alike, Beside
  <2> HIDE DEF i, tree
  <2> QED
    BY <2>1, <2>2, <2>6, StageWriteSafe
<1>3. CASE MarkStage(p) \/ BeginStageFiles(p) \/ StageFiles(p)
  <2>1. pc[p] \in {"mark", "write", "rewrite"} /\ Holding(p) /\ UNCHANGED job
    BY <1>3 DEF MarkStage, BeginStageFiles, StageFiles, Holding
  <2>2. ASSUME NEW tree, NEW k \in {"write", "rewrite", "stageSync"},
               Write(p, tree, k), Beside(tree, fs)
        PROVE  Safe'
    <3>1. job' = [job EXCEPT ![p] = job[p]]
      BY <1>1, <2>1
    <3>2. /\ {pc[p], k} \subseteq {"mkstage", "mark", "write", "rewrite",
                                   "stageSync"}
          /\ pc[p] # "stageSync" /\ k # "mkstage"
      BY <2>1, <2>2
    <3>3. Alike(job[p], job[p])
      BY DEF Alike
    <3> QED
      BY <2>1, <2>2, <3>1, <3>2, <3>3, StageWriteSafe
  <2>3. CASE MarkStage(p)
    <3> DEFINE tree == [fs EXCEPT !.stages[j.id].mark = TRUE]
    <3>1. Write(p, tree, "write")
      BY <2>3 DEF MarkStage
    <3>2. Beside(tree, fs)
      BY <1>1 DEF Trees, Beside
    <3> QED
      BY <2>2, <3>1, <3>2
  <2>4. CASE BeginStageFiles(p) \/ StageFiles(p)
    <3> DEFINE tree(f) == [fs EXCEPT !.stages[j.id].files = f]
    <3>1. \/ Write(p, tree(Torn), "rewrite")
          \/ Write(p, tree(StageContent(p)), "stageSync")
      BY <2>4 DEF BeginStageFiles, StageFiles
    <3>2. ASSUME NEW f PROVE Beside(tree(f), fs)
      BY <1>1 DEF Trees, Beside
    <3> QED
      BY <2>2, <3>1, <3>2
  <2> QED
    BY <1>3, <2>3, <2>4
<1>4. CASE WriteJournal(p)
  <2> DEFINE d == JournalOf(p)
             c == Installing(p)
             tree == [fs EXCEPT !.journalTmp = d]
  <2>1. pc[p] = "digest" /\ Write(p, tree, "journalTmpSync") /\ Holding(p)
        /\ UNCHANGED job /\ Valid(c)
    BY <1>4 DEF WriteJournal, Holding
  <2>2. /\ fs.journal = None
        /\ j.metadataOnly => Kept(fs, j)
        /\ ~j.metadataOnly /\ ~j.faulted => j.blob = j.hash
    BY <1>1, <2>1 DEF Knows
  <2>3. d \in Journals /\ d # None /\ c \in Copies
    BY <2>1, DraftTypes, NoneAssumption
  <2>4. d.digest = c /\ d.row = Projection(c) /\ d.stage = j.id
    BY DEF JournalOf
  <2>5. d.notes = IF j.metadataOnly THEN NoNote ELSE c.manifest.notes
    BY DEF JournalOf
  <2>6. d.metadataOnly = j.metadataOnly
    BY DEF JournalOf
  <2>7. j.metadataOnly => c = [fs.final EXCEPT !.meta = j.meta]
    BY <2>1 DEF Installing, Valid
  <2>8. ~j.metadataOnly => c = ContentOf(j)
    BY <1>1, <2>1 DEF Installing, TreeAt, Written
  <2> HIDE DEF d, c
  <2>9. Fulfils(c, j)
    <3>1. CASE j.metadataOnly
      BY <2>2, <2>7, <3>1 DEF Kept
    <3>2. CASE ~j.metadataOnly
      <4>1. c.meta = j.meta /\ c.manifest.hash = j.hash
            /\ c.manifest.notes = j.notes
        BY <2>8, <3>2 DEF ContentOf
      <4> QED
        BY <2>1, <4>1 DEF Fulfils
    <3> QED
      BY <3>1, <3>2
  <2>10. Sound(d)
    BY <2>1, <2>4, <2>5, <2>6 DEF Sound, ProjectionHolds
  <2>11. /\ tree.journal = fs.journal /\ tree.final = fs.final
         /\ tree.previous = fs.previous /\ tree.prevMeta = fs.prevMeta
         /\ tree.journalTmp = d
    BY <1>1 DEF Trees
  <2> HIDE DEF tree
  <2>12. Drafted(tree, j)
    BY <2>3, <2>4, <2>6, <2>7, <2>8, <2>9, <2>10, <2>11 DEF Drafted
  <2>13. Good(tree, row)
    BY <1>1, <2>2, <2>11, GoodSame
  <2>14. j.metadataOnly => Kept(tree, j)
    BY <2>2, <2>11 DEF Kept
  <2>15. Knows("journalTmpSync", j, tree, row)
    BY <2>2, <2>11, <2>12, <2>14 DEF Knows
  <2> QED
    BY <2>1, <2>13, <2>15, OnlyWritesSafe
<1>5. CASE DigestRefused(p)
  <2> DEFINE i == Return(p, "error")
             c == Installing(p)
  <2>1. pc[p] = "digest" /\ Holding(p) /\ ~Valid(c) /\ Proceed(p, i, "report")
    BY <1>5 DEF DigestRefused, Holding
  <2>2. /\ fs.journal = None
        /\ j.metadataOnly => Kept(fs, j)
        /\ ~j.metadataOnly /\ ~j.faulted => j.blob = j.hash
    BY <1>1, <2>1 DEF Knows
  <2>3. ~j.metadataOnly
    <3> SUFFICES ASSUME j.metadataOnly PROVE FALSE
      OBVIOUS
    <3>1. c = [fs.final EXCEPT !.meta = j.meta]
      BY <2>2 DEF Installing, Kept, Valid
    <3> QED
      BY <2>1, <2>2, <3>1 DEF Kept, Fulfils
  <2>4. j.faulted
    <3> SUFFICES ASSUME ~j.faulted PROVE FALSE
      OBVIOUS
    <3>1. c = ContentOf(j)
      BY <1>1, <2>1, <2>3 DEF Installing, TreeAt, Written
    <3>2. c \in Copies
      BY <1>1, <2>1, <2>3, <3>1, ContentTypes DEF Written
    <3>3. c.blob = c.manifest.hash /\ c.manifest.owner = c.meta.owner
      BY <2>2, <2>3, <3>1 DEF ContentOf
    <3> HIDE DEF c
    <3> QED
      BY <2>1, <3>2, <3>3, NoneAssumption, TornAssumption DEF Valid
  <2>5. i.status = "error" /\ i.faulted
    BY <1>1, <2>4 DEF Return, Jobs
  <2> HIDE DEF i
  <2> QED
    BY <2>1, <2>5, FaultReported, ProceedSafe
<1>6. CASE RenameJournal(p)
  <2> DEFINE d == fs.journalTmp
             tree == [fs EXCEPT !.journal = d, !.journalTmp = None]
             i == [j EXCEPT !.recovering = FALSE]
  <2>1. pc[p] = "journalRename" /\ Write(p, tree, "journalSync") /\ Holding(p)
    BY <1>6 DEF RenameJournal, Holding
  <2>2. job' = [job EXCEPT ![p] = i]
    BY <1>1, <1>6 DEF RenameJournal, Shape, TypeOK
  <2>3. /\ fs.journal = None /\ Drafted(fs, j)
        /\ j.metadataOnly => Kept(fs, j)
        /\ ~j.metadataOnly /\ ~j.faulted => j.blob = j.hash
    BY <1>1, <2>1 DEF Knows
  <2>4. fs.stages[j.id] = [mark |-> TRUE, files |-> ContentOf(j)]
    BY <1>1, <2>1 DEF TreeAt, Written
  <2>5. Settled(fs, row)
    BY <1>1, <2>3 DEF Good
  <2>6. /\ tree.journal = d /\ tree.final = fs.final /\ tree.stages = fs.stages
        /\ tree.previous = fs.previous /\ tree.prevMeta = fs.prevMeta
    BY <1>1 DEF Trees
  <2>7. i.meta = j.meta /\ i.advert = j.advert /\ i.hash = j.hash
        /\ i.notes = j.notes /\ i.blob = j.blob
    BY <1>1 DEF Jobs
  <2>8. i.metadataOnly = j.metadataOnly /\ i.faulted = j.faulted
        /\ ~i.recovering
    BY <1>1 DEF Jobs
  <2>9. /\ d # None /\ Sound(d) /\ Fulfils(d.digest, j) /\ d.stage = j.id
        /\ d.metadataOnly = j.metadataOnly
    BY <2>3 DEF Drafted
  <2> HIDE DEF i, tree
  <2>10. Good(tree, row)
    <3>1. CASE j.metadataOnly
      <4>1. d.digest = [fs.final EXCEPT !.meta = j.meta] /\ d.digest.meta = j.meta
        BY <2>3, <2>9, <3>1 DEF Drafted, Fulfils
      <4>2. ContentOf(j) = j.meta
        BY <3>1 DEF ContentOf
      <4>3. fs.final # None /\ Valid(fs.final)
        BY <2>3, <3>1 DEF Kept, Valid
      <4>4. MetaStaged(tree, row)
        BY <2>4, <2>5, <2>6, <2>9, <4>1, <4>2, <4>3 DEF MetaStaged, Settled
      <4> QED
        BY <2>5, <2>6, <2>9, <3>1, <4>3, <4>4 DEF Good, MetaTree, Settled
    <3>2. CASE ~j.metadataOnly
      <4>1. d.digest = ContentOf(j)
        BY <2>3, <3>2 DEF Drafted
      <4>2. Settled(tree, row)
        BY <2>5, <2>6 DEF Settled
      <4>3. FullStaged(tree, row)
        BY <2>4, <2>6, <2>9, <4>1, <4>2 DEF FullStaged
      <4> QED
        BY <2>6, <2>9, <3>2, <4>2, <4>3 DEF Good, FullTree, Settled
    <3> QED
      BY <3>1, <3>2
  <2>11. Fulfils(d.digest, i)
    BY <2>7, <2>9, FulfilsSame
  <2>12. Knows("journalSync", i, tree, row)
    BY <2>3, <2>6, <2>7, <2>8, <2>9, <2>11 DEF Knows
  <2> QED
    BY <2>1, <2>2, <2>10, <2>12, WriteSafe
<1> QED
  BY <1>2, <1>3, <1>4, <1>5, <1>6

\* What is flushed stays known.
LEMMA SyncSafe ==
    ASSUME Shape, Safe, NEW p \in Pullers, Sync(p)
    PROVE  Safe'
<1> DEFINE j == job[p]
           k == AfterSync[pc[p]]
<1> USE DEF Before, Deciding, StagePCs, MovePCs, Ended, CopiedMeta, KeptMeta,
        Published, Flushed
<1>1. Knows(pc[p], j, fs, row) /\ Good(fs, row) /\ job = [job EXCEPT ![p] = j]
  BY DEF Shape, TypeOK, Safe
<1>2. /\ pc[p] \in {"stageSync", "journalTmpSync", "journalSync", "asideSync",
                    "prevMetaTmpSync", "prevMetaSync", "barrier",
                    "backupSync", "doneSync"}
      /\ pc' = [pc EXCEPT ![p] = k] /\ images' \subseteq {fs}
      /\ UNCHANGED <<fs, row, noteRow, rows, job, left>>
  BY DEF Sync, AfterSync, Track, index
<1>3. Knows(k, j, fs, row) /\ k \notin Before
  <2>1. CASE pc[p] \in {"stageSync", "journalTmpSync"}
    <3>1. \/ pc[p] = "stageSync" /\ k = "digest"
          \/ pc[p] = "journalTmpSync" /\ k = "journalRename"
      BY <2>1 DEF AfterSync
    <3> HIDE DEF k
    <3> QED
      BY <1>1, <3>1 DEF Knows
  <2>2. CASE pc[p] \in {"journalSync", "asideSync", "doneSync"}
    <3>1. \/ pc[p] = "journalSync" /\ k = "recover"
          \/ pc[p] = "asideSync" /\ k = "publish"
          \/ pc[p] = "doneSync" /\ k = "clean"
      BY <2>2 DEF AfterSync
    <3> HIDE DEF k
    <3> QED
      BY <1>1, <3>1 DEF Knows
  <2>3. CASE pc[p] \in {"prevMetaTmpSync", "prevMetaSync"}
    <3>1. \/ pc[p] = "prevMetaTmpSync" /\ k = "prevMetaRename"
          \/ pc[p] = "prevMetaSync" /\ k = "metaRename"
      BY <2>3 DEF AfterSync
    <3> HIDE DEF k
    <3> QED
      BY <1>1, <3>1 DEF Knows
  <2>4. CASE pc[p] \in {"barrier", "backupSync"}
    <3>1. \/ pc[p] = "barrier" /\ k = "verify"
          \/ pc[p] = "backupSync" /\ k = "dropJournal"
      BY <2>4 DEF AfterSync
    <3> HIDE DEF k
    <3> QED
      BY <1>1, <3>1 DEF Knows
  <2> QED
    BY <1>2, <2>1, <2>2, <2>3, <2>4
<1>4. Holding(p)
  BY <1>2 DEF Holding
<1>5. left'["damage"] = 0
  BY <1>2 DEF Safe
<1> HIDE DEF k
<1> QED
  BY <1>1, <1>2, <1>3, <1>4, <1>5, HolderSafe

\* A staged journal passes the checks of a recovery.
LEMMA StagedIntact ==
    ASSUME Shape, Safe, fs.journal # None, Staged(fs.journal)
    PROVE  /\ StageIntact(fs.journal)
           /\ \A force : FinalReplaceable(fs.journal, force)
           /\ Sound(fs.journal)
           /\ fs.journal.metadataOnly =>
                 MetaTree(fs, row) /\ MetaStaged(fs, row)
           /\ ~fs.journal.metadataOnly =>
                 FullTree(fs, row) /\ FullStaged(fs, row)
<1> DEFINE d == fs.journal
<1>1. fs \in Trees /\ d \in Journals /\ Good(fs, row)
  BY DEF Shape, TypeOK, Trees, Safe
<1>2. Sound(d)
  BY <1>1 DEF Good
<1>3. CASE d.metadataOnly
  <2>1. MetaTree(fs, row)
    BY <1>1, <1>3 DEF Good
  <2>2. MetaStaged(fs, row)
    BY <1>3, <2>1 DEF MetaTree, MetaPublished, Staged
  <2>3. /\ fs.stages[d.stage].mark /\ fs.stages[d.stage].files = d.digest.meta
        /\ d.digest = [fs.final EXCEPT !.meta = d.digest.meta]
        /\ fs.final # None
    BY <2>1, <2>2 DEF MetaStaged, MetaTree
  <2>4. Replacement(d) = d.digest
    BY <1>3, <2>3 DEF Replacement
  <2>5. StageIntact(d)
    BY <1>2, <2>3, <2>4 DEF StageIntact, AsJournaled, Sound
  <2> QED
    BY <1>2, <1>3, <2>1, <2>2, <2>5 DEF FinalReplaceable
<1>4. CASE ~d.metadataOnly
  <2>1. FullTree(fs, row)
    BY <1>1, <1>4 DEF Good
  <2>2. FullStaged(fs, row)
    BY <1>4, <2>1 DEF FullTree, FullPublished, Staged
  <2>3. fs.stages[d.stage].mark /\ fs.stages[d.stage].files = d.digest
    BY <2>2 DEF FullStaged
  <2>4. Replacement(d) = d.digest
    BY <1>4, <2>3 DEF Replacement
  <2>5. StageIntact(d)
    BY <1>2, <1>4, <2>3, <2>4 DEF StageIntact, AsJournaled, Sound
  <2>6. fs.final = None \/ (Valid(fs.final) /\ fs.previous = None)
    BY <2>2 DEF FullStaged, Settled
  <2> QED
    BY <1>2, <1>4, <2>1, <2>2, <2>5, <2>6 DEF FinalReplaceable
<1> QED
  BY <1>3, <1>4

\* A journal whose stage is gone has been published.
LEMMA UnstagedInPlace ==
    ASSUME Shape, Safe, fs.journal # None, ~Staged(fs.journal)
    PROVE  InPlace(fs, row)
<1> DEFINE d == fs.journal
<1>1. fs \in Trees /\ d \in Journals /\ Good(fs, row)
  BY DEF Shape, TypeOK, Trees, Safe
<1>2. d.digest \in Copies
  BY <1>1 DEF Journals
<1>3. CASE d.metadataOnly
  <2>1. MetaTree(fs, row)
    BY <1>1, <1>3 DEF Good
  <2>2. ~MetaStaged(fs, row)
    <3> SUFFICES ASSUME MetaStaged(fs, row) PROVE FALSE
      OBVIOUS
    <3> DEFINE x == [mark |-> TRUE, files |-> d.digest.meta]
    <3>1. d.digest.meta \in Metas
      BY <1>2 DEF Copies
    <3>2. x \in Stages /\ x.files = d.digest.meta
      BY <3>1 DEF Stages
    <3>3. fs.stages[d.stage] = x
      BY DEF MetaStaged
    <3> HIDE DEF x
    <3> QED
      BY <3>1, <3>2, <3>3, NoneAssumption DEF Staged
  <2> QED
    BY <1>3, <2>1, <2>2 DEF MetaTree, InPlace
<1>4. CASE ~d.metadataOnly
  <2>1. FullTree(fs, row)
    BY <1>1, <1>4 DEF Good
  <2>2. ~FullStaged(fs, row)
    <3> SUFFICES ASSUME FullStaged(fs, row) PROVE FALSE
      OBVIOUS
    <3> DEFINE x == [mark |-> TRUE, files |-> d.digest]
    <3>1. x \in Stages
      BY <1>2 DEF Stages
    <3>2. fs.stages[d.stage] = x
      BY DEF FullStaged
    <3> HIDE DEF x
    <3> QED
      BY <1>4, <3>1, <3>2, NoneAssumption DEF Staged
  <2> QED
    BY <1>4, <2>1, <2>2 DEF FullTree, InPlace
<1> QED
  BY <1>3, <1>4

\* What is published is what was journaled.
LEMMA InPlaceMeans ==
    ASSUME Shape, Safe, InPlace(fs, row)
    PROVE  /\ fs.journal # None /\ Sound(fs.journal)
           /\ fs.final = fs.journal.digest
           /\ AsJournaled(fs.final, fs.journal)
           /\ fs.journal.metadataOnly => fs.previous = None
           /\ ~fs.journal.metadataOnly => fs.prevMeta = None
<1>1. Good(fs, row) /\ fs.journal # None
  BY DEF Safe, InPlace
<1>2. Sound(fs.journal)
  BY <1>1 DEF Good
<1>3. fs.final = fs.journal.digest
  BY DEF InPlace, MetaPublished, FullPublished
<1>4. AsJournaled(fs.final, fs.journal)
  BY <1>2, <1>3 DEF AsJournaled, Sound
<1>5. /\ fs.journal.metadataOnly => fs.previous = None
      /\ ~fs.journal.metadataOnly => fs.prevMeta = None
  BY <1>1 DEF Good, MetaTree, FullTree
<1> QED
  BY <1>1, <1>2, <1>3, <1>4, <1>5

\* The journal is carried out: the old copy is kept until the row is the new.
LEMMA MoveSafe ==
    ASSUME Shape, Safe, NEW p \in Pullers,
           \/ RecoverNothing(p) \/ RecoverPublished(p) \/ RecoverRefuses(p)
           \/ MoveAside(p) \/ NothingToMove(p) \/ Publish(p)
           \/ CopyPreviousMetadata(p) \/ RenamePreviousMetadata(p)
           \/ RenameMetadata(p)
    PROVE  Safe'
<1> DEFINE j == job[p]
           d == fs.journal
<1> USE DEF Before, Deciding, StagePCs, MovePCs, Ended, CopiedMeta, KeptMeta,
        Published, Flushed
<1>1. /\ j \in Jobs /\ Knows(pc[p], j, fs, row) /\ TreeAt(pc[p], j, fs)
      /\ fs \in Trees /\ Good(fs, row)
      /\ d # None => d \in Journals
  BY DEF Shape, TypeOK, Safe, Trees
<1>2. pc[p] \in MovePCs =>
         /\ j.recovering => ~j.metadataOnly
         /\ ~j.recovering => Fulfils(IF d = None THEN fs.final ELSE d.digest, j)
  BY <1>1 DEF Knows
<1>3. CASE RecoverNothing(p)
  <2>1. pc[p] = "recover" /\ d = None /\ Proceed(p, j, "clean") /\ Holding(p)
    BY <1>3 DEF RecoverNothing, Holding
  <2>2. Knows("clean", j, fs, row)
    BY <1>2, <2>1 DEF Knows
  <2> QED
    BY <2>1, <2>2, ProceedSafe
<1>4. CASE RecoverPublished(p)
  <2>1. pc[p] = "recover" /\ d # None /\ ~Staged(d) /\ Proceed(p, j, "barrier")
        /\ Holding(p)
    BY <1>4 DEF RecoverPublished, Holding
  <2>2. InPlace(fs, row)
    BY <2>1, UnstagedInPlace
  <2>3. Knows("barrier", j, fs, row)
    BY <1>2, <2>1, <2>2 DEF Knows
  <2> QED
    BY <2>1, <2>3, ProceedSafe
<1>5. ~RecoverRefuses(p)
  BY StagedIntact DEF RecoverRefuses
<1>6. CASE MoveAside(p)
  <2> DEFINE tree == [fs EXCEPT !.previous = fs.final, !.final = None]
  <2>1. /\ Publishable(p) /\ ~d.metadataOnly /\ fs.final # None
        /\ Write(p, tree, "asideSync") /\ UNCHANGED job
    BY <1>6 DEF MoveAside
  <2>2. pc[p] = "recover" /\ Holding(p) /\ d # None /\ Staged(d)
    BY <2>1, PublishableMeans DEF Publishable
  <2>3. FullTree(fs, row) /\ FullStaged(fs, row) /\ Sound(d)
    BY <2>1, <2>2, StagedIntact
  <2>4. Valid(fs.final) /\ row = Projection(fs.final)
    BY <2>1, <2>3 DEF FullStaged, Settled
  <2>5. /\ tree.journal = d /\ tree.stages = fs.stages /\ tree.final = None
        /\ tree.previous = fs.final /\ tree.prevMeta = fs.prevMeta
    BY <1>1 DEF Trees
  <2> HIDE DEF tree
  <2>6. FullStaged(tree, row)
    BY <2>3, <2>4, <2>5 DEF FullStaged
  <2>7. Good(tree, row)
    BY <2>1, <2>2, <2>3, <2>5, <2>6 DEF Good, FullTree
  <2>8. Knows("asideSync", j, tree, row)
    BY <1>2, <2>2, <2>5 DEF Knows
  <2> QED
    BY <2>1, <2>2, <2>7, <2>8, OnlyWritesSafe
<1>7. CASE NothingToMove(p)
  <2>1. Publishable(p) /\ Proceed(p, j, "publish")
    BY <1>7 DEF NothingToMove
  <2>2. pc[p] = "recover" /\ Holding(p)
    BY <2>1, PublishableMeans
  <2>3. Knows("publish", j, fs, row)
    BY <1>2, <2>2 DEF Knows
  <2> QED
    BY <2>1, <2>2, <2>3, ProceedSafe
<1>8. CASE Publish(p)
  <2> DEFINE f == fs.stages[d.stage].files
             tree == [fs EXCEPT !.final = f, !.stages[d.stage] = None]
  <2>1. pc[p] = "publish" /\ Write(p, tree, "barrier") /\ Holding(p)
        /\ UNCHANGED job
    BY <1>8 DEF Publish, Holding
  <2>2. /\ d # None /\ fs.stages[d.stage] # None /\ ~d.metadataOnly
        /\ fs.final = None
    BY <1>1, <2>1 DEF TreeAt, Pending, Unpublished, Aside
  <2>3. FullTree(fs, row) /\ FullStaged(fs, row) /\ Sound(d)
    BY <2>2, StagedIntact DEF Staged
  <2>4. d.stage \in Installs
    BY <1>1, <2>2 DEF Journals
  <2>5. f = d.digest
    BY <2>3 DEF FullStaged
  <2> HIDE DEF f
  <2>6. /\ tree.journal = d /\ tree.final = f /\ tree.prevMeta = fs.prevMeta
        /\ tree.previous = fs.previous /\ tree.stages[d.stage] = None
    BY <1>1, <2>4 DEF Trees
  <2> HIDE DEF tree
  <2>7. FullPublished(tree, row)
    BY <2>2, <2>3, <2>5, <2>6 DEF FullPublished, FullStaged, Settled
  <2>8. Good(tree, row) /\ InPlace(tree, row)
    BY <2>2, <2>3, <2>6, <2>7 DEF Good, FullTree, InPlace
  <2>9. Knows("barrier", j, tree, row)
    BY <1>2, <2>1, <2>2, <2>6, <2>8 DEF Knows
  <2> QED
    BY <2>1, <2>8, <2>9, OnlyWritesSafe
<1>9. CASE CopyPreviousMetadata(p)
  <2> DEFINE m == fs.final.meta
             tree == [fs EXCEPT !.prevMetaTmp = m]
  <2>1. Publishable(p) /\ d.metadataOnly /\ Write(p, tree, "prevMetaTmpSync")
        /\ UNCHANGED job
    BY <1>9 DEF CopyPreviousMetadata
  <2>2. pc[p] = "recover" /\ Holding(p) /\ d # None
    BY <2>1, PublishableMeans
  <2> HIDE DEF m
  <2>3. /\ tree.journal = d /\ tree.final = fs.final /\ tree.prevMeta = fs.prevMeta
        /\ tree.previous = fs.previous /\ tree.stages = fs.stages
        /\ tree.prevMetaTmp = m
    BY <1>1 DEF Trees
  <2> HIDE DEF tree
  <2>4. Good(tree, row)
    BY <1>1, <2>3, GoodSame
  <2>5. Knows("prevMetaTmpSync", j, tree, row)
    BY <1>2, <2>2, <2>3 DEF Knows, m
  <2> QED
    BY <2>1, <2>2, <2>4, <2>5, OnlyWritesSafe
<1>10. CASE RenamePreviousMetadata(p)
  <2> DEFINE tree == [fs EXCEPT !.prevMeta = fs.prevMetaTmp,
                                !.prevMetaTmp = None]
  <2>1. pc[p] = "prevMetaRename" /\ Write(p, tree, "prevMetaSync")
        /\ Holding(p) /\ UNCHANGED job
    BY <1>10 DEF RenamePreviousMetadata, Holding
  <2>2. /\ d # None /\ fs.stages[d.stage] # None /\ d.metadataOnly
        /\ fs.stages[d.stage].files \in Metas
    BY <1>1, <2>1 DEF TreeAt, Pending, Unpublished, Aside
  <2>3. MetaTree(fs, row) /\ MetaStaged(fs, row) /\ Sound(d)
    BY <2>2, NoneAssumption, StagedIntact DEF Staged
  <2>4. fs.prevMetaTmp = fs.final.meta
    BY <1>1, <2>1 DEF Knows
  <2>5. /\ tree.journal = d /\ tree.final = fs.final
        /\ tree.previous = fs.previous /\ tree.stages = fs.stages
        /\ tree.prevMeta = fs.prevMetaTmp
    BY <1>1 DEF Trees
  <2> HIDE DEF tree
  <2>6. MetaStaged(tree, row)
    BY <2>3, <2>4, <2>5 DEF MetaStaged
  <2>7. Good(tree, row)
    BY <2>2, <2>3, <2>5, <2>6 DEF Good, MetaTree
  <2>8. Knows("prevMetaSync", j, tree, row)
    BY <1>2, <2>1, <2>2, <2>4, <2>5 DEF Knows
  <2> QED
    BY <2>1, <2>7, <2>8, OnlyWritesSafe
<1>11. CASE RenameMetadata(p)
  <2> DEFINE f == fs.stages[d.stage].files
             tree == [fs EXCEPT !.final.meta = f, !.stages[d.stage].files = None]
  <2>1. pc[p] = "metaRename" /\ Write(p, tree, "barrier") /\ Holding(p)
        /\ UNCHANGED job
    BY <1>11 DEF RenameMetadata, Holding
  <2>2. /\ d # None /\ fs.stages[d.stage] # None /\ d.metadataOnly
        /\ f \in Metas /\ fs.final # None
    BY <1>1, <2>1 DEF TreeAt, Pending, Unpublished, Aside
  <2>3. MetaTree(fs, row) /\ MetaStaged(fs, row) /\ Sound(d)
    BY <2>2, NoneAssumption, StagedIntact DEF Staged
  <2>4. fs.prevMeta = fs.final.meta
    BY <1>1, <2>1 DEF Knows
  <2>5. d.stage \in Installs /\ fs.final \in Copies
    BY <1>1, <2>2 DEF Journals, Trees
  <2>6. fs.stages[d.stage] \in Stages
    BY <1>1, <2>2, <2>5 DEF Trees
  <2>7. f = d.digest.meta
    BY <2>3 DEF MetaStaged
  <2> HIDE DEF f
  <2>8. /\ tree.journal = d /\ tree.final = [fs.final EXCEPT !.meta = f]
        /\ tree.previous = fs.previous /\ tree.prevMeta = fs.prevMeta
    BY <1>1 DEF Trees
  <2>9. tree.stages[d.stage].files = None
    BY <1>1, <2>5, <2>6 DEF Trees, Stages
  <2> HIDE DEF tree
  <2>10. tree.final = d.digest /\ tree.final # None
    <3>1. tree.final = d.digest
      BY <2>3, <2>7, <2>8 DEF MetaStaged
    <3>2. Valid(d.digest)
      BY <2>3 DEF Sound
    <3> QED
      BY <3>1, <3>2 DEF Valid
  <2>11. fs.final.meta \in Metas /\ fs.prevMeta # None
    BY <2>4, <2>5, NoneAssumption DEF Copies
  <2>12. [tree.final EXCEPT !.meta = fs.prevMeta] = fs.final
    BY <2>4, <2>5, <2>8 DEF Copies
  <2>13. MetaPublished(tree, row)
    <3>1. row = Projection(fs.final)
      BY <2>3 DEF MetaStaged
    <3> QED
      BY <2>8, <2>9, <2>10, <2>11, <2>12, <3>1 DEF MetaPublished
  <2>14. Good(tree, row) /\ InPlace(tree, row)
    BY <2>2, <2>3, <2>8, <2>10, <2>13 DEF Good, MetaTree, InPlace
  <2>15. Knows("barrier", j, tree, row)
    BY <1>2, <2>1, <2>2, <2>8, <2>14 DEF Knows
  <2> QED
    BY <2>1, <2>14, <2>15, OnlyWritesSafe
<1> QED
  BY <1>3, <1>4, <1>5, <1>6, <1>7, <1>8, <1>9, <1>10, <1>11

\* The row is committed, and then the backup and the journal are dropped.
LEMMA EndSafe ==
    ASSUME Undisturbed, Shape, Safe, NEW p \in Pullers,
           \/ VerifyRefuses(p) \/ CommitPull(p) \/ DropBackup(p)
           \/ DropJournal(p) \/ CleanAbandonedStages(p)
    PROVE  Safe'
<1> DEFINE j == job[p]
           d == fs.journal
<1> USE DEF Before, Deciding, StagePCs, MovePCs, Ended, CopiedMeta, KeptMeta,
        Published, Flushed
<1>1. /\ j \in Jobs /\ Knows(pc[p], j, fs, row)
      /\ fs \in Trees /\ Good(fs, row)
      /\ JobAt(pc[p], j) /\ job = [job EXCEPT ![p] = j]
  BY DEF Shape, TypeOK, Safe, Trees
<1>2. pc[p] \in MovePCs =>
         /\ j.recovering => ~j.metadataOnly
         /\ ~j.recovering => Fulfils(IF d = None THEN fs.final ELSE d.digest, j)
  BY <1>1 DEF Knows
<1>3. pc[p] \in Published => InPlace(fs, row)
  BY <1>1 DEF Knows
<1>4. ~VerifyRefuses(p)
  BY <1>3, InPlaceMeans DEF VerifyRefuses
<1>5. CASE CommitPull(p)
  <2>1. /\ pc[p] = "verify" /\ pc' = [pc EXCEPT ![p] = "dropBackup"] /\ Holding(p)
        /\ UNCHANGED <<fs, images, job, left>>
        /\ row' = d.row
        /\ rows' = {[row |-> row', notes |-> noteRow']}
    BY <1>5 DEF CommitPull, Holding, Undisturbed
  <2>2. images \subseteq {fs}
    BY <2>1 DEF Safe
  <2>3. InPlace(fs, row) /\ d # None
    BY <1>3, <2>1, InPlaceMeans
  <2>4. InPlace(fs, row')
    BY <2>1, <2>3 DEF InPlace, MetaPublished, FullPublished
  <2>5. Good(fs, row')
    BY <1>1, <2>3, <2>4 DEF Good, InPlace, MetaTree, FullTree
  <2>6. Knows("dropBackup", j, fs, row')
    BY <1>2, <2>1, <2>3, <2>4 DEF Knows
  <2>7. \A q \in Pullers \ {p} : pc[q] \in Before /\ pc'[q] = pc[q]
    BY <2>1 DEF Shape, TypeOK, Exclusive, Holding
  <2>8. \A q \in Pullers \ {p} : Knows(pc[q], job[q], fs, row')
    BY <2>7, BeforeKnows DEF Safe
  <2>9. pc'[p] = "dropBackup"
    BY <2>1 DEF Shape, TypeOK
  <2>10. \A q \in Pullers : /\ Knows(pc'[q], job'[q], fs', row')
                            /\ pc'[q] \notin Flushed
    BY <2>1, <2>6, <2>7, <2>8, <2>9
  <2>11. \A t \in images' \cup {fs'} : Good(t, row')
    BY <2>1, <2>2, <2>5
  <2>12. left'["damage"] = 0
    BY <2>1 DEF Safe
  <2> QED
    BY <2>1, <2>10, <2>11, <2>12 DEF Safe
<1>6. CASE DropBackup(p)
  <2>1. pc[p] = "dropBackup" /\ Holding(p) /\ UNCHANGED job
    BY <1>6 DEF DropBackup, Holding
  <2>2. InPlace(fs, row) /\ row = d.row
    BY <1>1, <1>3, <2>1 DEF Knows
  <2>3. ASSUME NEW tree, NEW k \in {"backupSync", "dropBackup"},
               tree.journal = d, tree.final = fs.final, tree.stages = fs.stages,
               Write(p, tree, k),
               IF d.metadataOnly
               THEN tree.previous = fs.previous
               ELSE tree.prevMeta = fs.prevMeta,
               k = "backupSync" => tree.previous = None /\ tree.prevMeta = None
        PROVE  Safe'
    <3>1. InPlace(tree, row)
      BY <2>2, <2>3 DEF InPlace, MetaPublished, FullPublished
    <3>2. Good(tree, row)
      BY <1>1, <2>2, <2>3, <3>1, InPlaceMeans
         DEF Good, InPlace, MetaTree, FullTree
    <3>3. Knows(k, j, tree, row)
      BY <1>2, <2>1, <2>2, <2>3, <3>1, InPlaceMeans DEF Knows
    <3> QED
      BY <2>1, <2>3, <3>2, <3>3, OnlyWritesSafe
  <2>4. CASE d.metadataOnly
    <3> DEFINE tree == [fs EXCEPT !.prevMeta = None]
    <3>1. Write(p, tree, "backupSync")
      BY <1>6, <2>4 DEF DropBackup
    <3>2. tree.journal = d /\ tree.final = fs.final /\ tree.stages = fs.stages
          /\ tree.previous = fs.previous /\ tree.prevMeta = None
      BY <1>1 DEF Trees
    <3>3. fs.previous = None
      BY <2>2, <2>4, InPlaceMeans
    <3> HIDE DEF tree
    <3> QED
      BY <2>3, <2>4, <3>1, <3>2, <3>3
  <2>5. CASE ~d.metadataOnly
    <3> DEFINE tree(x) == [fs EXCEPT !.previous = x]
    <3>1. Write(p, tree(None), "backupSync") \/ Write(p, tree(Torn), "dropBackup")
      BY <1>6, <2>5 DEF DropBackup
    <3>2. ASSUME NEW x
          PROVE  /\ tree(x).journal = d /\ tree(x).final = fs.final
                 /\ tree(x).stages = fs.stages
                 /\ tree(x).prevMeta = fs.prevMeta /\ tree(x).previous = x
      BY <1>1 DEF Trees
    <3>3. fs.prevMeta = None
      BY <2>2, <2>5, InPlaceMeans
    <3> HIDE DEF tree
    <3> QED
      BY <2>3, <2>5, <3>1, <3>2, <3>3
  <2> QED
    BY <2>4, <2>5
<1>7. CASE DropJournal(p)
  <2> DEFINE tree == [fs EXCEPT !.journal = None]
  <2>1. pc[p] = "dropJournal" /\ Write(p, tree, "doneSync") /\ Holding(p)
        /\ UNCHANGED job
    BY <1>7 DEF DropJournal, Holding
  <2>2. InPlace(fs, row) /\ row = d.row
        /\ fs.previous = None /\ fs.prevMeta = None
    BY <1>1, <1>3, <2>1 DEF Knows
  <2>3. d # None /\ Sound(d) /\ fs.final = d.digest
    BY <2>2, InPlaceMeans
  <2>4. Valid(fs.final) /\ row = Projection(fs.final) /\ fs.final # None
    BY <2>2, <2>3 DEF Sound, ProjectionHolds, Valid
  <2>5. /\ tree.journal = None /\ tree.final = fs.final
        /\ tree.previous = fs.previous /\ tree.prevMeta = fs.prevMeta
    BY <1>1 DEF Trees
  <2> HIDE DEF tree
  <2>6. Good(tree, row)
    BY <2>2, <2>4, <2>5 DEF Good, Settled
  <2>7. Knows("doneSync", j, tree, row)
    BY <1>2, <2>1, <2>3, <2>5 DEF Knows
  <2> QED
    BY <2>1, <2>6, <2>7, OnlyWritesSafe
<1>8. CASE CleanAbandonedStages(p)
  <2> DEFINE stages == [s \in Installs |->
                           IF s \in Abandoned THEN None ELSE fs.stages[s]]
             tree == [fs EXCEPT !.journalTmp = None, !.prevMetaTmp = None,
                                !.stages = stages]
             k == IF j.recovering THEN "diff" ELSE "report"
             st == IF j.recovering THEN j.status ELSE "ok"
             i == [j EXCEPT !.status = st]
  <2>1. pc[p] = "clean" /\ Holding(p) /\ Write(p, tree, k)
    BY <1>8 DEF CleanAbandonedStages, Holding
  <2>2. job' = [job EXCEPT ![p] = i]
    BY <1>1, <1>8 DEF CleanAbandonedStages, Shape, TypeOK
  <2>3. d = None
    BY <1>1, <2>1 DEF Knows
  <2>4. \A s \in Installs : stages[s] # None => ~stages[s].mark
    BY DEF Abandoned
  <2> HIDE DEF stages
  <2>5. /\ tree.journal = d /\ tree.final = fs.final
        /\ tree.previous = fs.previous /\ tree.prevMeta = fs.prevMeta
        /\ tree.journalTmp = None /\ tree.prevMetaTmp = None
        /\ tree.stages = stages
    BY <1>1 DEF Trees
  <2>6. NoDebris(tree)
    BY <2>4, <2>5 DEF NoDebris
  <2>7. Good(tree, row)
    BY <1>1, <2>3, <2>5, GoodSame
  <2> HIDE DEF tree
  <2>8. CASE j.recovering
    <3>1. k = "diff" /\ ~j.metadataOnly
      BY <1>2, <2>1, <2>8
    <3>2. ~i.metadataOnly
      BY <1>1, <3>1 DEF Jobs
    <3> HIDE DEF k, i
    <3>3. Knows(k, i, tree, row)
      BY <2>3, <2>5, <2>6, <3>1, <3>2 DEF Knows
    <3> QED
      BY <2>1, <2>2, <2>7, <3>1, <3>3, WriteSafe
  <2>9. CASE ~j.recovering
    <3>1. k = "report" /\ st = "ok"
      BY <2>9
    <3> HIDE DEF k, st
    <3>2. i.status = "ok" /\ i.meta = j.meta /\ i.advert = j.advert
          /\ i.hash = j.hash /\ i.notes = j.notes
      BY <1>1, <3>1 DEF Jobs
    <3> HIDE DEF i
    <3>3. Fulfils(tree.final, i)
      BY <1>2, <2>1, <2>3, <2>5, <2>9, <3>2, FulfilsSame
    <3>4. Knows(k, i, tree, row)
      BY <2>3, <2>5, <2>6, <3>1, <3>2, <3>3 DEF Knows
    <3> QED
      BY <2>1, <2>2, <2>7, <3>1, <3>4, WriteSafe
  <2> QED
    BY <2>8, <2>9
<1> QED
  BY <1>4, <1>5, <1>6, <1>7, <1>8

\* Everything that is not a step of the holder of the lock.
LEMMA OtherSafe ==
    ASSUME Shape, Safe, NEW p \in Pullers,
           StartPull(p) \/ LockInstall(p) \/ Report(p) \/ Crash(p) \/ Fail(p)
    PROVE  Safe'
<1> DEFINE j == job[p]
<1>1. /\ j \in Jobs /\ JobAt(pc[p], j) /\ Knows(pc[p], j, fs, row)
      /\ fs \in Trees /\ Good(fs, row) /\ left["damage"] = 0
      /\ left \in [Kinds -> Nat]
  BY DEF Shape, TypeOK, Safe
<1>2. NewJob.recovering /\ ~NewJob.metadataOnly
  BY DEF NewJob
<1>3. ASSUME NEW i, NEW k \in Before \cup {"meta"}, Proceed(p, i, k),
             i.recovering, ~i.metadataOnly
      PROVE  Safe'
  BY <1>1, <1>3, OutsideSafe DEF Proceed
<1>4. CASE StartPull(p)
  <2>1. PICK force \in BOOLEAN :
          \/ Proceed(p, [NewJob EXCEPT !.force = force], "lock")
          \/ Proceed(p, [NewJob EXCEPT !.force = force,
                           !.meta = [title |-> srv.title,
                                     owner |-> srv.owner],
                           !.advert = srv.blob], "lock")
    BY <1>4 DEF StartPull
  <2>2. ASSUME NEW m, NEW b
        PROVE  LET i == [NewJob EXCEPT !.force = force, !.meta = m, !.advert = b]
               IN  i.recovering /\ ~i.metadataOnly
    BY DEF NewJob
  <2>3. LET i == [NewJob EXCEPT !.force = force]
        IN  i.recovering /\ ~i.metadataOnly
    BY DEF NewJob
  <2> QED
    BY <1>3, <2>1, <2>2, <2>3 DEF Before
<1>5. CASE LockInstall(p)
  <2>1. pc[p] = "lock" /\ Proceed(p, j, "meta")
    BY <1>5 DEF LockInstall
  <2>2. j.recovering /\ ~j.metadataOnly
    BY <1>1, <2>1 DEF JobAt, Knows, Before
  <2> QED
    BY <1>3, <2>1, <2>2
<1>6. CASE Report(p)
  BY <1>2, <1>3, <1>6 DEF Report, Before
<1>7. CASE Crash(p)
  <2>1. left'["damage"] = 0
    BY <1>1, <1>7 DEF Crash, Spend, Kinds
  <2> QED
    BY <1>2, <1>7, <2>1, OutsideSafe DEF Crash, Before
<1>8. CASE Fail(p)
  <2> DEFINE i == [Return(p, "error") EXCEPT !.faulted = TRUE]
  <2>1. /\ Holding(p) /\ UNCHANGED <<row, noteRow, rows>>
        /\ job' = [job EXCEPT ![p] = i] /\ pc' = [pc EXCEPT ![p] = "report"]
    BY <1>8 DEF Fail, index
  <2>2. left'["damage"] = 0
    BY <1>1, <1>8 DEF Fail, Spend, Kinds
  <2>3. images' \subseteq images \cup {fs, fs'}
    BY <1>8 DEF Fail, Track
  <2>4. i.status = "error" /\ i.faulted
    BY <1>1 DEF Jobs, Return
  <2> HIDE DEF i
  <2>5. Knows("report", i, fs', row)
    BY <2>4, FaultReported
  <2>6. Good(fs', row)
    <3>1. CASE fs' = fs
      BY <1>1, <3>1
    <3>2. CASE pc[p] \in Writing
               /\ fs' = [fs EXCEPT !.stages[j.id] = None]
      <4>1. fs.journal = None
        BY <1>1, <3>2 DEF Knows, Writing, StagePCs
      <4>2. /\ fs'.journal = fs.journal /\ fs'.final = fs.final
            /\ fs'.previous = fs.previous /\ fs'.prevMeta = fs.prevMeta
        BY <1>1, <3>2 DEF Trees
      <4> QED
        BY <1>1, <4>1, <4>2, GoodSame
    <3> QED
      BY <1>8, <3>1, <3>2 DEF Fail, Writing
  <2> QED
    BY <2>1, <2>2, <2>3, <2>5, <2>6, HolderSafe DEF Before, Flushed
<1> QED
  BY <1>4, <1>5, <1>6, <1>7, <1>8

\* A power loss leaves one of the trees, and the row there was.
LEMMA PowerLossSafe ==
    ASSUME Shape, Safe, PowerLoss
    PROVE  Safe' /\ UNCHANGED row
<1>1. PICK r \in rows : row' = r.row /\ noteRow' = r.notes
  BY DEF PowerLoss
<1>2. row' = row /\ noteRow' = noteRow
  BY <1>1 DEF Safe
<1>3. left'["damage"] = 0
  BY DEF PowerLoss, Spend, Kinds, Safe, Shape, TypeOK
<1>4. \A t \in images' \cup {fs'} : Good(t, row')
  BY <1>2 DEF PowerLoss, Safe
<1>5. ~NewJob.metadataOnly
  BY DEF NewJob
<1>6. \A q \in Pullers : pc'[q] = "idle" /\ job'[q] = NewJob
  BY DEF PowerLoss
<1>7. \A q \in Pullers : Knows(pc'[q], job'[q], fs', row') /\ pc'[q] \notin Flushed
  BY <1>5, <1>6, BeforeKnows DEF Before, Flushed
<1>8. rows' = {[row |-> row', notes |-> noteRow']}
  BY DEF PowerLoss
<1> QED
  BY <1>2, <1>3, <1>4, <1>7, <1>8 DEF Safe

\* Steps that leave the pulls, the trees and the row alone.
LEMMA StillSafe ==
    ASSUME Safe, UNCHANGED <<fs, images, row, pc, job>>, left'["damage"] = 0,
           rows' = {[row |-> row', notes |-> noteRow']}
    PROVE  Safe'
BY DEF Safe

\* No step of an undisturbed pull loses the indexed copy,
LEMMA SafeStep ==
    ASSUME Undisturbed, Shape, Safe, [Next]_vars
    PROVE  Safe'
<1>1. left["damage"] = 0 /\ left \in [Kinds -> Nat]
      /\ rows = {[row |-> row, notes |-> noteRow]}
  BY DEF Safe, Shape, TypeOK
<1>2. CASE UNCHANGED vars
  BY <1>1, <1>2, StillSafe DEF vars, index
<1>3. ASSUME NEW p \in Pullers,
             StartPull(p) \/ Step(p) \/ DownloadCorrupt(p) \/ Fail(p) \/ Crash(p)
      PROVE  Safe'
  BY <1>3, ReadSafe, StageSafe, SyncSafe, MoveSafe, EndSafe, OtherSafe DEF Step
<1>4. ASSUME NEW r \in Refreshers, RefreshFetch(r)
      PROVE  Safe'
  <2>1. left'["damage"] = 0
    BY <1>1, <1>4 DEF RefreshFetch, Spend, Kinds
  <2> QED
    BY <1>1, <1>4, <2>1, StillSafe DEF RefreshFetch, index
<1>5. ASSUME NEW r \in Refreshers, RefreshUpsert(r)
      PROVE  Safe'
  BY <1>1, <1>5, StillSafe DEF RefreshUpsert, Undisturbed
<1>6. CASE PowerLoss
  BY <1>6, PowerLossSafe
<1>7. ~Damage
  BY <1>1 DEF Damage, Spend
<1>8. CASE ServerChanges
  <2>1. left'["damage"] = 0
    BY <1>1, <1>8 DEF ServerChanges, Spend, Kinds
  <2> QED
    BY <1>1, <1>8, <2>1, StillSafe DEF ServerChanges, index
<1> QED
  BY <1>2, <1>3, <1>4, <1>5, <1>6, <1>7, <1>8 DEF Next

\* which is there at the start,
LEMMA SafeInit ==
    ASSUME Undisturbed, Init
    PROVE  Safe
<1>1. left["damage"] = 0
  BY DEF Init, Undisturbed
<1>2. \A t \in images \cup {fs} : t = EmptyTree
  BY DEF Init
<1>3. Good(EmptyTree, row)
  BY DEF Init, EmptyTree, Good, Settled
<1>4. ~NewJob.metadataOnly
  BY DEF NewJob
<1>5. \A q \in Pullers : pc[q] = "idle" /\ job[q] = NewJob
  BY DEF Init
<1>6. \A q \in Pullers : Knows(pc[q], job[q], fs, row) /\ pc[q] \notin Flushed
  BY <1>4, <1>5, BeforeKnows DEF Before, Flushed
<1> QED
  BY <1>1, <1>2, <1>3, <1>6 DEF Safe, Init

\* and hence always.
LEMMA SafeAlways ==
    ASSUME Undisturbed
    PROVE  Spec => [](Shape /\ Safe)
<1>1. Init => Shape /\ Safe
  BY ShapeInit, SafeInit
<1>2. Shape /\ Safe /\ [Next]_vars => Shape' /\ Safe'
  BY ShapeStep, SafeStep
<1> QED
  BY <1>1, <1>2, PTL DEF Spec

\* A good tree holds a complete copy of what the row describes.
LEMMA GoodKeeps ==
    ASSUME NEW t, NEW r, Good(t, r), r # None
    PROVE  r \in Views(t)
<1> DEFINE S == {c \in {t.final, t.previous} : Valid(c)} \cup
                (IF t.final # None /\ t.prevMeta # None
                 THEN {[t.final EXCEPT !.meta = t.prevMeta]} ELSE {})
<1>1. \E c \in S : r = Projection(c)
  <2>1. CASE Valid(t.final) /\ r = Projection(t.final)
    BY <2>1
  <2>2. CASE Valid(t.previous) /\ r = Projection(t.previous)
    BY <2>2
  <2>3. CASE /\ t.final # None /\ t.prevMeta # None
             /\ r = Projection([t.final EXCEPT !.meta = t.prevMeta])
    BY <2>3
  <2> QED
    BY <2>1, <2>2, <2>3 DEF Good, Settled, FullTree, FullStaged, FullPublished,
       MetaTree, MetaStaged, MetaPublished, Sound, ProjectionHolds
<1> QED
  BY <1>1 DEF Views

\* The copies of a directory are those its files hold.
LEMMA ViewsRetained == Views(fs) = {Projection(c) : c \in Retained}
BY DEF Views, Retained

\* What the index row describes is on disk at every instant of an install, a
\* death or a power loss, for any number of pulls and failures.
THEOREM CopyIsKept ==
    ASSUME Undisturbed
    PROVE  Spec => []IndexedCopyKept
<1>1. Safe => IndexedCopyKept
  BY GoodKeeps, ViewsRetained DEF Safe, IndexedCopyKept
<1> QED
  BY <1>1, SafeAlways, PTL

\* Without a journal the directory is complete and is what the row describes.
THEOREM SettledDirectory ==
    ASSUME Undisturbed
    PROVE  Spec => []SettledIsIndexed
<1>1. Safe => SettledIsIndexed
  BY DEF Safe, Good, Settled, SettledIsIndexed
<1> QED
  BY <1>1, SafeAlways, PTL

\* A pull fails only when one of its own calls fails: whatever other pulls,
\* deaths and power losses left, recovery carries it out.
THEOREM RecoveryNeverRefuses ==
    ASSUME Undisturbed
    PROVE  Spec => []OnlyOwnFailures
<1>1. ASSUME Shape, Safe, NEW p \in Pullers, job[p].status = "error"
      PROVE  job[p].faulted
  <2>1. Knows(pc[p], job[p], fs, row) /\ JobAt(pc[p], job[p])
    BY <1>1 DEF Shape, Safe
  <2>2. pc[p] = "report"
    BY <1>1, <2>1 DEF JobAt
  <2> QED
    BY <1>1, <2>1, <2>2 DEF Knows
<1>2. Shape /\ Safe => OnlyOwnFailures
  BY <1>1 DEF OnlyOwnFailures
<1> QED
  BY <1>2, SafeAlways, PTL

\* What a pull that reports success knows.
LEMMA SuccessKnows ==
    ASSUME Shape, Safe, NEW p \in Pullers, Succeeded(p)
    PROVE  /\ fs.journal = None /\ NoDebris(fs) /\ Fulfils(fs.final, job[p])
           /\ Settled(fs, row) /\ row = Projection(fs.final)
<1>1. Knows("report", job[p], fs, row) /\ Good(fs, row) /\ job[p].status = "ok"
  BY DEF Safe, Succeeded
<1>2. fs.journal = None /\ NoDebris(fs) /\ Fulfils(fs.final, job[p])
  BY <1>1 DEF Knows
<1>3. Settled(fs, row)
  BY <1>1, <1>2 DEF Good
<1> QED
  BY <1>2, <1>3 DEF Fulfils, Settled, Valid

\* A pull that reports success has left the complete copy it was asked for, and
\* the row is the one of the files.
THEOREM SuccessIsTrue ==
    ASSUME Undisturbed
    PROVE  Spec => []SuccessIsCurrent
<1>1. Shape /\ Safe => SuccessIsCurrent
  BY SuccessKnows DEF SuccessIsCurrent, Fulfils
<1> QED
  BY <1>1, SafeAlways, PTL

\* A pull that reports success has left no journal, backup, temporary file or
\* owned stage.
THEOREM SuccessIsClean ==
    ASSUME Undisturbed
    PROVE  Spec => []SuccessLeavesNoDebris
<1>1. ASSUME Shape, Safe, NEW p \in Pullers, Succeeded(p)
      PROVE  /\ fs.journal = None /\ fs.journalTmp = None
             /\ fs.previous = None
             /\ fs.prevMeta = None /\ fs.prevMetaTmp = None
             /\ Abandoned = {}
  BY <1>1, SuccessKnows DEF NoDebris, Settled, Abandoned
<1>2. Shape /\ Safe => SuccessLeavesNoDebris
  BY <1>1 DEF SuccessLeavesNoDebris
<1> QED
  BY <1>2, SafeAlways, PTL

----------------------------------------------------------------------------
(* OneOther: the refinement of RetainedCopies. *)

\* The views of a tree, one by one.
LEMMA ViewsAre ==
    ASSUME NEW t, NEW x
    PROVE  x \in Views(t) <=>
              \/ Valid(t.final) /\ x = Projection(t.final)
              \/ Valid(t.previous) /\ x = Projection(t.previous)
              \/ /\ t.final # None /\ t.prevMeta # None
                 /\ x = Projection([t.final EXCEPT !.meta = t.prevMeta])
BY DEF Views

\* They depend on the installed, the previous and the saved record only,
LEMMA ViewsSame ==
    ASSUME NEW t, NEW u, u.final = t.final, u.previous = t.previous,
           u.prevMeta = t.prevMeta
    PROVE  Views(u) = Views(t)
BY DEF Views

\* and each is a row.
LEMMA ViewsInRows ==
    ASSUME NEW t \in Trees
    PROVE  Views(t) \subseteq Rows
<1>1. \A c \in Copies : Projection(c) \in Rows
  BY DEF Copies, Manifests, Rows, Projection
<1>2. /\ Valid(t.final) => t.final \in Copies
      /\ Valid(t.previous) => t.previous \in Copies
      /\ t.final # None => t.final \in Copies
      /\ t.prevMeta # None => t.prevMeta \in Metas
  BY DEF Trees, Valid
<1>3. t.final # None /\ t.prevMeta # None =>
         [t.final EXCEPT !.meta = t.prevMeta] \in Copies
  BY <1>2 DEF Copies
<1>4. ASSUME NEW x \in Views(t) PROVE x \in Rows
  BY <1>1, <1>2, <1>3, ViewsAre
<1> QED
  BY <1>4

\* Until a journal is carried out the tree holds the indexed copy and no other.
LEMMA StagedViews ==
    ASSUME NEW t \in Trees, NEW r, Good(t, r), t.journal = None \/ ~InPlace(t, r)
    PROVE  Views(t) \subseteq {r}
<1>1. t.final # None => [t.final EXCEPT !.meta = t.final.meta] = t.final
  <2>1. t.final # None => t.final \in Copies
    BY DEF Trees
  <2> QED
    BY <2>1 DEF Copies
<1>2. ~Valid(None)
  BY DEF Valid
<1>3. \/ Settled(t, r)
      \/ /\ t.final = None
         /\ Valid(t.previous) /\ r = Projection(t.previous)
      \/ /\ t.previous = None /\ Valid(t.final) /\ r = Projection(t.final)
         /\ t.prevMeta \in {None, t.final.meta}
  BY DEF Good, InPlace, FullTree, FullStaged, MetaTree, MetaStaged
<1>4. ASSUME NEW x \in Views(t) PROVE x = r
  <2>1. \/ Valid(t.final) /\ x = Projection(t.final)
        \/ Valid(t.previous) /\ x = Projection(t.previous)
        \/ /\ t.final # None /\ t.prevMeta # None
           /\ x = Projection([t.final EXCEPT !.meta = t.prevMeta])
    BY <1>4, ViewsAre
  <2>2. CASE Settled(t, r)
    BY <1>2, <2>1, <2>2 DEF Settled
  <2>3. CASE /\ t.final = None
             /\ Valid(t.previous) /\ r = Projection(t.previous)
    BY <1>2, <2>1, <2>3
  <2>4. CASE /\ t.previous = None /\ Valid(t.final) /\ r = Projection(t.final)
             /\ t.prevMeta \in {None, t.final.meta}
    BY <1>1, <1>2, <2>1, <2>4
  <2> QED
    BY <1>3, <2>2, <2>3, <2>4
<1> QED
  BY <1>4

\* What is staged is not published.
LEMMA StagedNotInPlace ==
    ASSUME fs.journal # None, Staged(fs.journal)
    PROVE  ~InPlace(fs, row)
BY DEF Staged, InPlace, MetaPublished, FullPublished

\* Moving or copying the old copy aside changes no view.
LEMMA AsideViews ==
    ASSUME Shape, Safe, NEW p \in Pullers,
           MoveAside(p) \/ RenamePreviousMetadata(p)
    PROVE  /\ UNCHANGED row /\ images' \subseteq images \cup {fs, fs'}
           /\ fs'.journal = fs.journal /\ ~InPlace(fs, row)
           /\ Views(fs') \subseteq {row} /\ Views(fs) \subseteq {row}
           /\ fs.journal # None
<1> DEFINE d == fs.journal
<1>1. fs \in Trees /\ Good(fs, row) /\ TreeAt(pc[p], job[p], fs)
      /\ Knows(pc[p], job[p], fs, row)
  BY DEF Shape, TypeOK, Safe
<1>2. UNCHANGED row /\ images' \subseteq images \cup {fs, fs'}
  BY DEF MoveAside, RenamePreviousMetadata, Write, Track, index
<1>3. d # None /\ Staged(d) /\ fs'.journal = d
  <2>1. CASE MoveAside(p)
    BY <1>1, <2>1 DEF MoveAside, Publishable, Write, Trees
  <2>2. CASE RenamePreviousMetadata(p)
    <3>1. Pending("prevMetaRename", fs)
      BY <1>1, <2>2 DEF RenamePreviousMetadata, TreeAt, Unpublished, CopiedMeta
    <3>2. fs'.journal = d
      BY <1>1, <2>2 DEF RenamePreviousMetadata, Write, Trees
    <3> QED
      BY <3>1, <3>2, NoneAssumption DEF Pending, Staged, Aside
  <2> QED
    BY <2>1, <2>2
<1>4. ~InPlace(fs, row) /\ Views(fs) \subseteq {row}
  BY <1>1, <1>3, StagedNotInPlace, StagedViews
<1>5. ~InPlace(fs', row)
  <2>1. fs'.stages = fs.stages
    BY <1>1 DEF MoveAside, RenamePreviousMetadata, Write, Trees
  <2> QED
    BY <1>3, <2>1 DEF Staged, InPlace, MetaPublished, FullPublished
<1>6. Good(fs', row) /\ fs' \in Trees
  <2>1. Safe' /\ Shape'
    BY MoveSafe, MoveShape
  <2> QED
    BY <1>2, <2>1 DEF Safe, Shape, TypeOK
<1>7. Views(fs') \subseteq {row}
  BY <1>5, <1>6, StagedViews
<1> QED
  BY <1>2, <1>3, <1>4, <1>7

\* Publishing adds the view of the journal.
LEMMA PublishViews ==
    ASSUME Shape, Safe, NEW p \in Pullers, Publish(p) \/ RenameMetadata(p)
    PROVE  /\ UNCHANGED row /\ images' \subseteq images \cup {fs, fs'}
           /\ fs.journal \in Journals
           /\ ~InPlace(fs, row) /\ InPlace(fs', row)
           /\ Views(fs) \subseteq {row}
           /\ Views(fs') \subseteq {row, fs.journal.row}
<1> DEFINE d == fs.journal
<1>1. fs \in Trees /\ Good(fs, row) /\ TreeAt(pc[p], job[p], fs)
      /\ Knows(pc[p], job[p], fs, row)
  BY DEF Shape, TypeOK, Safe
<1>2. UNCHANGED row /\ images' \subseteq images \cup {fs, fs'}
  BY DEF Publish, RenameMetadata, Write, Track, index
<1>3. d # None /\ Staged(d) /\ (Publish(p) => ~d.metadataOnly)
      /\ (RenameMetadata(p) => d.metadataOnly)
  <2>1. CASE Publish(p)
    BY <1>1, <2>1 DEF Publish, RenameMetadata, TreeAt, Unpublished, Aside,
       Pending, Staged
  <2>2. CASE RenameMetadata(p)
    BY <1>1, <2>2, NoneAssumption DEF Publish, RenameMetadata, TreeAt,
       Unpublished, KeptMeta, Aside, Pending, Staged
  <2> QED
    BY <2>1, <2>2
<1>4. ~InPlace(fs, row) /\ Views(fs) \subseteq {row}
  BY <1>1, <1>3, StagedNotInPlace, StagedViews
<1>5. InPlace(fs', row)
  <2>1. Safe' /\ pc'[p] = "barrier"
    BY MoveSafe DEF Publish, RenameMetadata, Write, Shape, TypeOK
  <2>2. Knows("barrier", job'[p], fs', row)
    BY <1>2, <2>1 DEF Safe
  <2> QED
    BY <2>2 DEF Knows, Published
<1>6. fs'.final = fs'.journal.digest /\ fs'.journal = d /\ Sound(d)
      /\ d \in Journals
  <2>1. fs'.journal = d /\ d \in Journals
    BY <1>1, <1>3 DEF Publish, RenameMetadata, Write, Trees
  <2> QED
    BY <1>1, <1>3, <1>5, <2>1 DEF InPlace, MetaPublished, FullPublished, Good
<1>7. Projection(fs'.final) = d.row
  BY <1>6 DEF Sound, ProjectionHolds
<1>8. CASE Publish(p)
  <2>1. fs'.previous = fs.previous /\ fs'.prevMeta = fs.prevMeta
    BY <1>1, <1>8 DEF Publish, Write, Trees
  <2>2. fs.prevMeta = None
    BY <1>3, <1>8, StagedIntact DEF FullTree
  <2>3. ASSUME NEW x \in Views(fs') PROVE x \in {row, d.row}
    <3>1. x = Projection(fs'.final)
          \/ (Valid(fs.previous) /\ x = Projection(fs.previous))
      BY <2>1, <2>2, <2>3, ViewsAre
    <3> QED
      BY <1>4, <1>7, <3>1, ViewsAre
  <2> QED
    BY <1>2, <1>4, <1>5, <1>6, <2>3
<1>9. CASE RenameMetadata(p)
  <2> DEFINE f == fs.stages[d.stage].files
  <2>1. fs'.previous = fs.previous /\ fs'.prevMeta = fs.prevMeta
        /\ fs'.final = [fs.final EXCEPT !.meta = f]
    BY <1>1, <1>9 DEF RenameMetadata, Write, Trees
  <2>2. fs.previous = None /\ fs.final # None /\ row = Projection(fs.final)
    BY <1>3, <1>9, StagedIntact DEF MetaTree, MetaStaged
  <2>3. fs.prevMeta = fs.final.meta /\ fs.final \in Copies
    BY <1>1, <1>9, <2>2 DEF RenameMetadata, Knows, KeptMeta, Trees
  <2>4. [fs'.final EXCEPT !.meta = fs.prevMeta] = fs.final
    BY <2>1, <2>3 DEF Copies
  <2>5. ~Valid(fs'.previous)
    BY <2>1, <2>2 DEF Valid
  <2>6. ASSUME NEW x \in Views(fs') PROVE x \in {row, d.row}
    <3>1. \/ x = Projection(fs'.final)
          \/ x = Projection([fs'.final EXCEPT !.meta = fs.prevMeta])
      BY <2>1, <2>5, <2>6, ViewsAre, ZenonT(40)
    <3> QED
      BY <1>7, <2>2, <2>4, <3>1
  <2> QED
    BY <1>2, <1>4, <1>5, <1>6, <2>6
<1> QED
  BY <1>8, <1>9

\* Dropping the backup only gives views up.
LEMMA DropViews ==
    ASSUME Undisturbed, Shape, Safe, NEW p \in Pullers, DropBackup(p)
    PROVE  /\ UNCHANGED row /\ images' \subseteq images \cup {fs, fs'}
           /\ InPlace(fs', row) /\ Views(fs') \subseteq Views(fs)
<1>1. fs \in Trees
  BY DEF Shape, TypeOK
<1>2. UNCHANGED row /\ images' \subseteq images \cup {fs, fs'}
  BY DEF DropBackup, Write, Track, index
<1>3. Safe' /\ pc'[p] \in {"dropBackup", "backupSync"}
  BY EndSafe DEF DropBackup, Write, Shape, TypeOK
<1>4. Knows(pc'[p], job'[p], fs', row)
  BY <1>2, <1>3 DEF Safe
<1>5. InPlace(fs', row)
  BY <1>3, <1>4 DEF Knows, Published
<1>6. /\ fs'.final = fs.final
      /\ \/ fs'.previous = fs.previous /\ fs'.prevMeta = None
         \/ fs'.previous \in {None, Torn} /\ fs'.prevMeta = fs.prevMeta
  BY <1>1 DEF DropBackup, Write, Trees
<1>7. ~Valid(None) /\ ~Valid(Torn)
  BY DEF Valid
<1>8. ASSUME NEW x \in Views(fs') PROVE x \in Views(fs)
  BY <1>6, <1>7, <1>8, ViewsAre
<1> QED
  BY <1>2, <1>5, <1>8

\* Every other step of the holder, and of everybody else, leaves the directory,
\* the backups, the journal and its stage alone.
Quiet ==
    /\ UNCHANGED row /\ images' \subseteq images \cup {fs, fs'}
    /\ fs'.journal = fs.journal /\ fs'.final = fs.final
    /\ fs'.previous = fs.previous /\ fs'.prevMeta = fs.prevMeta
    /\ fs.journal # None =>
          fs'.stages[fs.journal.stage] = fs.stages[fs.journal.stage]

Loud(p) ==
    \/ RenameJournal(p) \/ MoveAside(p) \/ RenamePreviousMetadata(p)
    \/ Publish(p) \/ RenameMetadata(p) \/ CommitPull(p) \/ DropBackup(p)
    \/ DropJournal(p)

\* Only a power loss or one of eight steps touches the copies, the journal or
\* the row.
LEMMA QuietOrLoud ==
    ASSUME Undisturbed, Shape, Safe, [Next]_vars
    PROVE  Quiet \/ PowerLoss \/ \E p \in Pullers : Loud(p)
<1>1. fs \in Trees /\ left["damage"] = 0
  BY DEF Shape, TypeOK, Safe
<1>2. CASE UNCHANGED vars
  BY <1>2 DEF Quiet, vars, index
<1>3. ASSUME NEW p \in Pullers, StartPull(p) \/ Step(p) \/ DownloadCorrupt(p)
                                \/ Fail(p) \/ Crash(p)
      PROVE  Quiet \/ Loud(p)
  <2>1. Knows(pc[p], job[p], fs, row)
    BY DEF Safe
  <2>2. CASE \/ LockInstall(p) \/ FetchMeta(p) \/ Diff(p) \/ Download(p)
             \/ FetchAnnotations(p) \/ UpdateMetadata(p) \/ NoRoom(p)
             \/ DigestRefused(p) \/ Sync(p) \/ RecoverNothing(p)
             \/ RecoverPublished(p) \/ RecoverRefuses(p) \/ NothingToMove(p)
             \/ VerifyRefuses(p) \/ Report(p) \/ StartPull(p)
             \/ DownloadCorrupt(p) \/ Crash(p)
    <3>1. UNCHANGED <<fs, row>> /\ images' \subseteq images \cup {fs}
      BY <2>2 DEF LockInstall, FetchMeta, Diff, Download, FetchAnnotations,
         UpdateMetadata, NoRoom, DigestRefused, Sync, RecoverNothing,
         RecoverPublished, RecoverRefuses, NothingToMove, VerifyRefuses,
         Report, Proceed, StartPull, DownloadCorrupt, Crash, Track, index
    <3> QED
      BY <3>1 DEF Quiet
  <2>3. CASE MakeStage(p) \/ MarkStage(p) \/ BeginStageFiles(p) \/ StageFiles(p)
             \/ WriteJournal(p) \/ CleanAbandonedStages(p)
    <3>1. fs.journal = None
      BY <2>1, <2>3 DEF MakeStage, MarkStage, BeginStageFiles, StageFiles,
         WriteJournal, CleanAbandonedStages, Knows, StagePCs, Ended
    <3>2. UNCHANGED row /\ images' \subseteq images \cup {fs, fs'}
      BY <2>3 DEF MakeStage, MarkStage, BeginStageFiles, StageFiles,
         WriteJournal, CleanAbandonedStages, Write, Track, index
    <3>3. /\ fs'.journal = fs.journal /\ fs'.final = fs.final
          /\ fs'.previous = fs.previous /\ fs'.prevMeta = fs.prevMeta
      BY <1>1, <2>3 DEF MakeStage, MarkStage, BeginStageFiles, StageFiles,
         WriteJournal, CleanAbandonedStages, Write, Trees
    <3> QED
      BY <3>1, <3>2, <3>3 DEF Quiet
  <2>4. CASE CopyPreviousMetadata(p)
    BY <1>1, <2>4 DEF CopyPreviousMetadata, Write, Track, index, Trees, Quiet
  <2>5. CASE Fail(p)
    <3>1. UNCHANGED row /\ images' \subseteq images \cup {fs, fs'}
      BY <2>5 DEF Fail, Track, index
    <3>2. fs' = fs \/ (pc[p] \in Writing
                       /\ fs' = [fs EXCEPT !.stages[job[p].id] = None])
      BY <2>5 DEF Fail, Writing
    <3>3. pc[p] \in Writing => fs.journal = None
      BY <2>1 DEF Knows, Writing, StagePCs
    <3> QED
      BY <1>1, <3>1, <3>2, <3>3 DEF Quiet, Trees
  <2> QED
    BY <1>3, <2>2, <2>3, <2>4, <2>5 DEF Step, Loud
<1>4. ASSUME NEW r \in Refreshers, RefreshFetch(r) \/ RefreshUpsert(r)
      PROVE  Quiet
  BY <1>4 DEF RefreshFetch, RefreshUpsert, index, Quiet
<1>5. ~Damage
  BY <1>1 DEF Damage, Spend
<1>6. CASE ServerChanges
  BY <1>6 DEF ServerChanges, index, Quiet
<1> QED
  BY <1>2, <1>3, <1>4, <1>5, <1>6 DEF Next

\* At the start there is at most one other copy,
LEMMA OneOtherInit == Init => OneOther
<1> SUFFICES ASSUME Init PROVE OneOther
  OBVIOUS
<1> DEFINE x == [hash |-> srv.blob,
                 meta |-> [title |-> srv.title, owner |-> srv.owner],
                 noted |-> TRUE]
<1>1. x \in Rows
  BY DEF Init, Servers, Rows, Metas
<1> HIDE DEF x
<1>2. \A t \in images \cup {fs} : t = EmptyTree
  BY DEF Init
<1>3. EmptyTree.final = None /\ EmptyTree.previous = None /\ ~Valid(None)
      /\ fs.journal = None
  BY DEF EmptyTree, Valid, Init
<1>4. \A y : y \notin Views(EmptyTree)
  BY <1>3, ViewsAre
<1>5. Within(x)
  BY <1>2, <1>4 DEF Within
<1> QED
  BY <1>1, <1>3, <1>5 DEF OneOther

\* A step that adds no view.
LEMMA NoNewView ==
    ASSUME OneOther, UNCHANGED row, images' \subseteq images \cup {fs, fs'},
           Views(fs') \subseteq Views(fs),
           fs'.journal # None /\ ~InPlace(fs', row) =>
               fs'.journal = fs.journal /\ ~InPlace(fs, row)
    PROVE  OneOther'
<1>1. ASSUME NEW x, Within(x) PROVE Within(x)'
  BY <1>1 DEF Within
<1> QED
  BY <1>1 DEF OneOther

\* and it stays so.
LEMMA OneOtherStep ==
    ASSUME Undisturbed, Shape, Safe, OneOther, [Next]_vars, Shape', Safe'
    PROVE  OneOther'
<1>1. PICK x \in Rows : Within(x)
  BY DEF OneOther
<1>2. /\ fs \in Trees /\ Good(fs, row) /\ fs' \in Trees /\ Good(fs', row')
      /\ row \in Rows \cup {None}
  BY DEF Shape, TypeOK, Safe
<1>3. CASE Quiet
  <2>1. Views(fs') = Views(fs)
    BY <1>3, ViewsSame DEF Quiet
  <2>2. fs'.journal # None /\ ~InPlace(fs', row) =>
           fs'.journal = fs.journal /\ ~InPlace(fs, row)
    BY <1>3 DEF Quiet, InPlace, MetaPublished, FullPublished
  <2> QED
    BY <1>3, <2>1, <2>2, NoNewView DEF Quiet
<1>4. CASE PowerLoss
  <2>1. UNCHANGED row /\ fs' \in images /\ images' \subseteq {fs'}
    BY <1>4, PowerLossSafe DEF PowerLoss
  <2>2. Within(x)'
    BY <1>1, <2>1 DEF Within
  <2>3. fs'.journal # None /\ ~InPlace(fs', row') => Views(fs') \subseteq {row'}
    BY <1>2, StagedViews
  <2>4. (fs.journal # None /\ ~InPlace(fs, row) => Within(fs.journal.row))'
    BY <2>1, <2>3 DEF Within
  <2> QED
    BY <2>2, <2>4 DEF OneOther
<1>5. ASSUME NEW p \in Pullers, Loud(p)
      PROVE  OneOther'
  <2>1. CASE RenameJournal(p)
    <3>1. UNCHANGED row /\ images' \subseteq images \cup {fs'}
      BY <2>1 DEF RenameJournal, Write, Track, index
    <3>2. images \subseteq {fs} /\ fs.journal = None
      BY <2>1 DEF RenameJournal, Safe, Flushed, Knows, StagePCs
    <3>3. Views(fs) \subseteq {row}
      BY <1>2, <3>2, StagedViews
    <3>4. Views(fs') = Views(fs)
      <4>1. fs'.final = fs.final /\ fs'.previous = fs.previous
            /\ fs'.prevMeta = fs.prevMeta
        BY <1>2, <2>1 DEF RenameJournal, Write, Trees
      <4> QED
        BY <4>1, ViewsSame
    <3>5. \A t \in images' \cup {fs'} : Views(t) \subseteq {row'}
      BY <3>1, <3>2, <3>3, <3>4
    <3> QED
      BY <1>1, <3>5 DEF OneOther, Within
  <2>2. CASE MoveAside(p) \/ RenamePreviousMetadata(p)
    <3>1. /\ UNCHANGED row /\ images' \subseteq images \cup {fs, fs'}
          /\ fs'.journal = fs.journal /\ fs.journal # None
          /\ ~InPlace(fs, row) /\ Views(fs') \subseteq {row}
      BY <2>2, AsideViews
    <3>2. Within(x)'
      BY <1>1, <3>1 DEF Within
    <3>3. (Within(fs.journal.row))'
      BY <3>1 DEF Within, OneOther
    <3> QED
      BY <3>2, <3>3 DEF OneOther
  <2>3. CASE Publish(p) \/ RenameMetadata(p)
    <3> DEFINE y == fs.journal.row
    <3>1. /\ UNCHANGED row /\ images' \subseteq images \cup {fs, fs'}
          /\ fs.journal \in Journals /\ ~InPlace(fs, row) /\ InPlace(fs', row)
          /\ Views(fs') \subseteq {row, y}
      BY <2>3, PublishViews
    <3>2. y \in Rows /\ Within(y)
      BY <3>1, NoneAssumption DEF Journals, OneOther
    <3>3. PICK z \in Rows : z = y
      BY <3>2
    <3>4. Within(z)'
      BY <3>1, <3>2, <3>3 DEF Within
    <3> QED
      BY <3>1, <3>3, <3>4 DEF OneOther
  <2>4. CASE CommitPull(p)
    <3>1. /\ UNCHANGED <<fs, images>> /\ row' = fs.journal.row
          /\ pc[p] = "verify" /\ pc'[p] = "dropBackup"
      BY <2>4 DEF CommitPull, Shape, TypeOK
    <3>2. images \subseteq {fs} /\ InPlace(fs, row)
      BY <3>1 DEF Safe, Flushed, Knows, Published
    <3>3. InPlace(fs', row')
      BY <3>1 DEF Safe, Knows, Published
    <3>4. row' \in Views(fs)
      <4>1. Valid(fs.final) /\ row' = Projection(fs.final)
        BY <3>1, <3>2, InPlaceMeans DEF AsJournaled, ProjectionHolds
      <4> QED
        BY <4>1, ViewsAre
    <3>5. Views(fs) \subseteq Rows /\ Views(fs) \subseteq {row, x}
      BY <1>1, <1>2, ViewsInRows DEF Within
    <3>6. \E y \in Rows : Views(fs) \subseteq {row', y}
      <4>1. CASE row \in Rows
        BY <1>1, <3>4, <3>5, <4>1
      <4>2. CASE row \notin Rows
        BY <1>1, <3>4, <3>5, <4>2
      <4> QED
        BY <4>1, <4>2
    <3>7. PICK y \in Rows : Views(fs) \subseteq {row', y}
      BY <3>6
    <3>8. Within(y)'
      BY <3>1, <3>2, <3>7 DEF Within
    <3> QED
      BY <3>3, <3>8 DEF OneOther
  <2>5. CASE DropBackup(p)
    BY <2>5, DropViews, NoNewView
  <2>6. CASE DropJournal(p)
    <3>1. UNCHANGED row /\ images' \subseteq images \cup {fs, fs'}
      BY <2>6 DEF DropJournal, Write, Track, index
    <3>2. fs'.final = fs.final /\ fs'.previous = fs.previous
          /\ fs'.prevMeta = fs.prevMeta /\ fs'.journal = None
      BY <1>2, <2>6 DEF DropJournal, Write, Trees
    <3>3. Views(fs') = Views(fs)
      BY <3>2, ViewsSame
    <3> QED
      BY <3>1, <3>2, <3>3, NoNewView
  <2> QED
    BY <1>5, <2>1, <2>2, <2>3, <2>4, <2>5, <2>6 DEF Loud
<1> QED
  BY <1>3, <1>4, <1>5, QuietOrLoud

\* The complete copies of one tree are among those of the other: both hold the
\* indexed one, and there is only one more.
LEMMA Comparable ==
    ASSUME Shape, Safe, OneOther, NEW t \in images
    PROVE  Views(t) \subseteq Views(fs) \/ Views(fs) \subseteq Views(t)
<1>1. PICK x \in Rows : Within(x)
  BY DEF OneOther
<1>2. Views(t) \subseteq {row, x} /\ Views(fs) \subseteq {row, x}
  BY <1>1 DEF Within
<1>3. Views(t) \subseteq Rows /\ Views(fs) \subseteq Rows
  BY ViewsInRows DEF Shape, TypeOK
<1>4. row # None => row \in Views(t) /\ row \in Views(fs)
  BY GoodKeeps DEF Safe
<1> QED
  BY <1>2, <1>3, <1>4, NoneAssumption DEF Shape, TypeOK

\* Every step is one of RetainedCopies or changes nothing of it.
LEMMA CopiesStep ==
    ASSUME Undisturbed, Shape, Safe, OneOther, [Next]_vars, Shape', Safe'
    PROVE  \/ Views(fs') = Views(fs) /\ UNCHANGED row
           \/ Views(fs) \subseteq Views(fs') /\ UNCHANGED row
           \/ Views(fs') = Views(fs) /\ row' \in Views(fs)
           \/ Views(fs') \subseteq Views(fs) /\ UNCHANGED row
<1>1. /\ fs \in Trees /\ Good(fs, row) /\ Good(fs', row') /\ fs' \in Trees
      /\ row \in Rows \cup {None}
  BY DEF Shape, TypeOK, Safe
<1>2. Views(fs) \subseteq {row} /\ UNCHANGED row => Views(fs) \subseteq Views(fs')
  <2>1. Views(fs) \subseteq Rows
    BY <1>1, ViewsInRows
  <2>2. row' # None => row' \in Views(fs')
    BY <1>1, GoodKeeps
  <2> QED
    BY <2>1, <2>2, NoneAssumption
<1>3. CASE Quiet
  BY <1>3, ViewsSame DEF Quiet
<1>4. CASE PowerLoss
  <2>1. UNCHANGED row /\ fs' \in images
    BY <1>4, PowerLossSafe DEF PowerLoss
  <2> QED
    BY <2>1, Comparable
<1>5. ASSUME NEW p \in Pullers, Loud(p)
      PROVE  \/ Views(fs') = Views(fs) /\ UNCHANGED row
             \/ Views(fs) \subseteq Views(fs') /\ UNCHANGED row
             \/ Views(fs') = Views(fs) /\ row' \in Views(fs)
             \/ Views(fs') \subseteq Views(fs) /\ UNCHANGED row
  <2>1. CASE RenameJournal(p) \/ DropJournal(p)
    <3>1. fs'.final = fs.final /\ fs'.previous = fs.previous
          /\ fs'.prevMeta = fs.prevMeta
      BY <1>1, <2>1 DEF RenameJournal, DropJournal, Write, Trees
    <3>2. UNCHANGED row
      BY <2>1 DEF RenameJournal, DropJournal, Write, index
    <3> QED
      BY <3>1, <3>2, ViewsSame
  <2>2. CASE MoveAside(p) \/ RenamePreviousMetadata(p)
    BY <1>2, <2>2, AsideViews
  <2>3. CASE Publish(p) \/ RenameMetadata(p)
    BY <1>2, <2>3, PublishViews
  <2>4. CASE CommitPull(p)
    <3>1. UNCHANGED fs /\ row' = fs.journal.row /\ pc[p] = "verify"
      BY <2>4 DEF CommitPull
    <3>2. InPlace(fs, row)
      BY <3>1 DEF Safe, Knows, Published
    <3>3. Valid(fs.final) /\ row' = Projection(fs.final)
      BY <3>1, <3>2, InPlaceMeans DEF AsJournaled, ProjectionHolds
    <3> QED
      BY <3>1, <3>3, ViewsAre
  <2>5. CASE DropBackup(p)
    BY <2>5, DropViews
  <2> QED
    BY <1>5, <2>1, <2>2, <2>3, <2>4, <2>5 DEF Loud
<1> QED
  BY <1>3, <1>4, <1>5, QuietOrLoud

\* A pull implements RetainedCopies: the index always names a complete retained
\* copy and moves from one to another in one step.
THEOREM PullKeepsCopies ==
    ASSUME Undisturbed
    PROVE  Spec => RefinesRetainedCopies
<1> DEFINE Inv == Shape /\ Safe /\ OneOther
<1>1. Init => Inv
  BY ShapeInit, SafeInit, OneOtherInit
<1>2. Inv /\ [Next]_vars => Inv'
  BY ShapeStep, SafeStep, OneOtherStep
<1>3. Init => Copied!Init
  <2> SUFFICES ASSUME Init PROVE Copied!Init
    OBVIOUS
  <2>1. row = None /\ fs = EmptyTree
    BY DEF Init
  <2>2. fs.final = None /\ fs.previous = None /\ ~Valid(None)
    BY <2>1 DEF EmptyTree, Valid
  <2>3. \A y : y \notin Views(fs)
    BY <2>2, ViewsAre
  <2>4. {Projection(c) : c \in Retained} = {}
    BY <2>3, ViewsRetained
  <2> QED
    BY <2>1, <2>4 DEF Copied!Init
<1>4. Inv /\ Inv' /\ [Next]_vars => [Copied!Next]_(Copied!vars)
  <2> SUFFICES ASSUME Inv, Inv', [Next]_vars
               PROVE  [Copied!Next]_(Copied!vars)
    OBVIOUS
  <2> DEFINE held == {Projection(c) : c \in Retained}
  <2>1. held = Views(fs) /\ held' = Views(fs')
    BY DEF Views, Retained
  <2>2. \/ held' = held /\ UNCHANGED row
        \/ held \subseteq held' /\ UNCHANGED row
        \/ held' = held /\ row' \in held
        \/ held' \subseteq held /\ UNCHANGED row
    BY <2>1, CopiesStep
  <2>3. held' \subseteq Rows
    BY <2>1, ViewsInRows DEF Shape, TypeOK
  <2>4. row # None => row \in held
    BY <2>1, GoodKeeps DEF Safe
  <2>5. row' # None => row' \in held'
    BY <2>1, GoodKeeps DEF Safe
  <2> HIDE DEF held
  <2>6. CASE held' = held /\ UNCHANGED row
    BY <2>6 DEF Copied!vars, held
  <2>7. CASE held \subseteq held' /\ UNCHANGED row
    <3>1. Copied!Publish
      BY <2>3, <2>7 DEF Copied!Publish, held
    <3> QED
      BY <3>1 DEF Copied!Next
  <2>8. CASE held' = held /\ row' \in held
    <3>1. Copied!Switch
      BY <2>8 DEF Copied!Switch, held
    <3> QED
      BY <3>1 DEF Copied!Next
  <2>9. CASE held' \subseteq held /\ UNCHANGED row
    <3>1. Copied!Discard
      BY <2>5, <2>9 DEF Copied!Discard, held
    <3> QED
      BY <3>1 DEF Copied!Next
  <2> QED
    BY <2>2, <2>6, <2>7, <2>8, <2>9
<1> HIDE DEF Inv
<1> QED
  BY <1>1, <1>2, <1>3, <1>4, PTL DEF Spec, RefinesRetainedCopies, Copied!Spec
=============================================================================
