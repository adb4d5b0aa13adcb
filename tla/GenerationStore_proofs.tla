----------------------- MODULE GenerationStore_proofs -----------------------
(***************************************************************************)
(* Safety of the managed-generation store for every set of processes,      *)
(* identifiers, contents and objects.                                      *)
(***************************************************************************)
EXTENDS GenerationStore, TLAPS

(* Facts about the operators. *)

\* A LIMITed read returns a part of what it selects from.
LEMMA BatchesInside ==
    ASSUME NEW S, NEW b \in Batches(S)
    PROVE  b \subseteq S
BY DEF Batches

(***************************************************************************)
(* What the type invariant needs to be inductive: a process past the work  *)
(* selector holds a candidate, and the selector runs over a mirrored pair. *)
(***************************************************************************)
PastSelect == {"prestage", "stage", "verify", "activate", "skip", "repair",
               "commit"}

HoldsCandidate == \A p \in Procs : pc[p] \in PastSelect => cand[p] # None

SelectsMirrored == \A p \in Procs : pc[p] = "select" => idx.artifact # None

TypeInv == TypeOK /\ HoldsCandidate /\ SelectsMirrored

\* The part of the type invariant a process's own step can disturb.
LocalTypes ==
    /\ runLock \in Procs \cup {None}
    /\ pc \in [Procs -> PCs]
    /\ cand \in [Procs -> Candidates \cup {None}]
    /\ todo \in [Procs -> SUBSET Objects]
    /\ prepared \in [Procs -> {"no", "staging", "inline", "yes"}]
    /\ keep \in [Procs -> SUBSET GenIds]
    /\ listed \in [Procs -> SUBSET (GenIds \cup Objects)]
    /\ mode \in [Procs -> {"none", "start", "after", "reclaim", "warned"}]

\* The three ways an operation hands its process on keep the local types.
LEMMA HandOnTypes ==
    ASSUME TypeOK, NEW p \in Procs
    PROVE  /\ Finish(p) => LocalTypes'
           /\ SweepReturns(p) => LocalTypes'
           /\ SweepAfterCommit(p) => LocalTypes'
<1> USE DEF TypeOK, LocalTypes, Goto, PCs, WriterPCs
<1>1. Finish(p) => LocalTypes'
  BY DEF Finish
<1>2. SweepReturns(p) => LocalTypes'
  BY <1>1 DEF SweepReturns
<1>3. SweepAfterCommit(p) => LocalTypes'
  BY DEF SweepAfterCommit
<1> QED
  BY <1>1, <1>2, <1>3

\* What the candidate of a process past the selector is made of.
LEMMA CandidateTypes ==
    ASSUME TypeInv, NEW p \in Procs, pc[p] \in PastSelect
    PROVE  /\ cand[p] \in Candidates
           /\ cand[p].id \in GenIds
           /\ cand[p].content \in Contents
           /\ ObjectsOf[cand[p].content] \subseteq Objects
           /\ Binding(cand[p]) \in Bindings
           /\ Stamped(cand[p]) \in IndexStates
<1>1. cand[p] \in Candidates
  BY DEF TypeInv, TypeOK, HoldsCandidate
<1>2. cand[p].id \in GenIds /\ cand[p].content \in Contents
  BY <1>1 DEF Candidates
<1>3. ObjectsOf[cand[p].content] \subseteq Objects
  BY <1>2, ConstantsAssumption
<1>4. Binding(cand[p]) \in Bindings
  BY <1>2 DEF Binding, Bindings
<1>5. Stamped(cand[p]) \in IndexStates
  BY <1>2 DEF Stamped, IndexStates, TypeInv, TypeOK
<1> QED
  BY <1>1, <1>2, <1>3, <1>4, <1>5

\* The write path keeps the types of what it changes.
LEMMA WritePathTypes ==
    ASSUME TypeInv, NEW p \in Procs, pc[p] \in PastSelect, WritePath(p)
    PROVE  /\ pc' \in [Procs -> PCs]
           /\ todo' \in [Procs -> SUBSET Objects]
           /\ prepared' \in [Procs -> {"no", "staging", "inline", "yes"}]
BY CandidateTypes
   DEF TypeInv, TypeOK, WritePath, BeginStaging, Goto, PCs, WriterPCs

\* Every step keeps the type invariant.
LEMMA TypeStep ==
    ASSUME TypeInv, [Next]_vars
    PROVE  TypeOK'
<1> USE DEF TypeInv, TypeOK, Procs, Objects, Goto
<1>1. ASSUME UNCHANGED vars PROVE TypeOK'
  BY <1>1 DEF vars, store, locals
<1>2. ASSUME NEW w \in Writers, HarvestBegin(w) PROVE TypeOK'
  BY <1>2 DEF HarvestBegin, PCs, WriterPCs
<1>3. ASSUME NEW w \in Writers, PrepareArtifactInstall(w) PROVE TypeOK'
  BY <1>3 DEF PrepareArtifactInstall, PCs, WriterPCs, IndexStates, locals
<1>4. ASSUME NEW w \in Writers, SourceUnchanged(w) PROVE TypeOK'
  BY <1>4 DEF SourceUnchanged, PCs, WriterPCs, store, locals
<1>5. ASSUME NEW w \in Writers, MirrorArtifacts(w) PROVE TypeOK'
  BY <1>5, ZenonT(40) DEF MirrorArtifacts, PCs, WriterPCs, IndexStates, locals
<1>6. ASSUME NEW w \in Writers, Select(w) PROVE TypeOK'
  <2>1. idx.artifact \in Contents
    BY <1>6 DEF Select, SelectsMirrored, IndexStates
  <2>2. PICK force \in {FALSE, AllowForce}, g \in GenIds,
             out \in Outcomes[idx.artifact] :
             cand' = [cand EXCEPT ![w] =
                        [id |-> g, content |-> idx.artifact, outcome |-> out,
                         explicit |-> force, expected |-> idx]]
    BY <1>6 DEF Select
  <2>3. out \in OutcomeKinds /\ force \in BOOLEAN
    BY <2>1, ConstantsAssumption
  <2>4. [id |-> g, content |-> idx.artifact, outcome |-> out,
         explicit |-> force, expected |-> idx] \in Candidates
    BY <2>1, <2>3 DEF Candidates
  <2>5. cand' \in [Procs -> Candidates \cup {None}]
    BY <2>2, <2>4
  <2> QED
    BY <1>6, <2>5 DEF Select, PCs, WriterPCs, store
<1>7. ASSUME NEW w \in Writers, SelectNothing(w) PROVE TypeOK'
  BY <1>7 DEF SelectNothing, Finish, PCs, store
<1>8. ASSUME NEW w \in Writers, Prestage(w) PROVE TypeOK'
  BY <1>8, ConstantsAssumption DEF Prestage, BeginStaging, PCs, WriterPCs,
     Candidates, store, HoldsCandidate, PastSelect
<1>9. ASSUME NEW w \in Writers, StageBatchTxn(w) PROVE TypeOK'
  BY <1>9 DEF StageBatchTxn, PCs, WriterPCs
<1>10. ASSUME NEW w \in Writers, VerifyStagedObjects(w) PROVE TypeOK'
  BY <1>10 DEF VerifyStagedObjects, Finish, PCs, WriterPCs, store
<1>11. ASSUME NEW w \in Writers, Activate(w) PROVE TypeOK'
  <2> USE <1>11 DEF Activate
  <2>1. pc[w] \in PastSelect
    BY DEF PastSelect
  <2>2. UNCHANGED <<store, lock>>
    OBVIOUS
  <2>3. LocalTypes'
    <3>1. CASE Finish(w)
      BY <3>1, HandOnTypes
    <3>2. CASE Goto(w, "repair") /\ UNCHANGED <<runLock, locals>>
      BY <3>2 DEF LocalTypes, locals, PCs, WriterPCs
    <3>3. CASE /\ active # None
               /\ keep' = [keep EXCEPT ![w] = {active}]
               /\ Goto(w, "skip")
               /\ UNCHANGED <<runLock, cand, todo, prepared, listed, mode>>
      BY <3>3 DEF LocalTypes, PCs, WriterPCs
    <3>4. CASE WritePath(w) /\ UNCHANGED <<runLock, cand, keep, listed, mode>>
      BY <3>4, <2>1, WritePathTypes DEF LocalTypes
    <3> QED
      BY <3>1, <3>2, <3>3, <3>4 DEF EqualsActive
  <2> QED
    BY <2>2, <2>3 DEF LocalTypes, store
<1>12. ASSUME NEW w \in Writers, Skip(w) PROVE TypeOK'
  <2>1. pc[w] \in PastSelect
    BY <1>12 DEF Skip, PastSelect
  <2>2. CASE Finish(w) /\ idx' = Stamped(cand[w]) /\ attempt' = None
    BY <1>12, <2>1, <2>2, HandOnTypes, CandidateTypes DEF Skip, LocalTypes
  <2>3. CASE /\ WritePath(w)
             /\ keep' = [keep EXCEPT ![w] = {}]
             /\ UNCHANGED <<idx, attempt, runLock, cand, listed, mode>>
    BY <1>12, <2>1, <2>3, WritePathTypes DEF Skip
  <2> QED
    BY <1>12, <2>2, <2>3 DEF Skip
<1>13. ASSUME NEW w \in Writers, Repair(w) PROVE TypeOK'
  BY <1>13, ConstantsAssumption DEF Repair, SweepAfterCommit, RepairedRefs,
     Stamped, IndexStates, PCs, Candidates, HoldsCandidate, PastSelect
<1>14. ASSUME NEW w \in Writers, Commit(w) PROVE TypeOK'
  <2>1. pc[w] \in PastSelect
    BY <1>14 DEF Commit, PastSelect
  <2>2. CASE RetainLatestAttempt(w)
    <3>1. LocalTypes'
      BY <2>2, HandOnTypes DEF RetainLatestAttempt
    <3>2. CASE UNCHANGED <<catalog, refs, attempt>>
      BY <2>2, <3>1, <3>2 DEF RetainLatestAttempt, LocalTypes
    <3>3. CASE ~UNCHANGED <<catalog, refs, attempt>>
      <4>1. /\ catalog' \in [GenIds -> Bindings \cup {None}]
            /\ refs' \in [GenIds -> SUBSET Objects]
            /\ attempt' \in GenIds \cup {None}
        BY <2>1, <2>2, <3>3, CandidateTypes DEF RetainLatestAttempt
      <4> QED
        BY <2>2, <3>1, <4>1 DEF RetainLatestAttempt, LocalTypes
    <3> QED
      BY <3>2, <3>3
  <2>3. CASE InstallGeneration(w)
    <3>1. LocalTypes'
      BY <2>3, HandOnTypes DEF InstallGeneration
    <3>2. idx' \in IndexStates
      BY <2>1, <2>3, CandidateTypes DEF InstallGeneration, IndexStates
    <3>3. /\ catalog' \in [GenIds -> Bindings \cup {None}]
          /\ refs' \in [GenIds -> SUBSET Objects]
          /\ active' \in GenIds
      BY <2>1, <2>3, CandidateTypes DEF InstallGeneration
    <3> QED
      BY <2>3, <3>1, <3>2, <3>3 DEF InstallGeneration, LocalTypes
  <2>4. CASE CommitRefused(w)
    BY <2>4, HandOnTypes DEF CommitRefused, LocalTypes, store
  <2> QED
    BY <1>14, <2>2, <2>3, <2>4 DEF Commit
<1>15. ASSUME NEW r \in Reclaimers, ReclaimBegin(r) PROVE TypeOK'
  BY <1>15 DEF ReclaimBegin, PCs
<1>16. ASSUME NEW r \in Reclaimers, UnlinkDir(r) PROVE TypeOK'
  BY <1>16 DEF UnlinkDir
<1>17. ASSUME NEW r \in Reclaimers, UnlinkDone(r) PROVE TypeOK'
  BY <1>17 DEF UnlinkDone, PCs, store, locals
<1>18. ASSUME NEW r \in Reclaimers, RelockSession(r) PROVE TypeOK'
  BY <1>18 DEF RelockSession, PCs, SweepPCs, store, locals
<1>19. ASSUME NEW p \in Procs, LockSession(p) PROVE TypeOK'
  BY <1>19 DEF LockSession, PCs, SweepPCs, store, KeepSet
<1>20. ASSUME NEW p \in Procs, SweepBounded(p) PROVE TypeOK'
  <2>1. CASE BoundedApplies(keep[p])
    <3>1. LocalTypes'
      BY <1>20, <2>1, HandOnTypes DEF SweepBounded
    <3>2. /\ catalog' \in [GenIds -> Bindings \cup {None}]
          /\ refs' \in [GenIds -> SUBSET Objects]
      BY <1>20, <2>1 DEF SweepBounded
    <3>3. objs' \subseteq Objects /\ damaged' \subseteq objs'
      BY <1>20, <2>1 DEF SweepBounded
    <3> QED
      BY <1>20, <2>1, <3>1, <3>2, <3>3 DEF SweepBounded, LocalTypes
  <2>2. CASE ~BoundedApplies(keep[p])
    BY <1>20, <2>2 DEF SweepBounded, PCs, SweepPCs, locals
  <2> QED
    BY <2>1, <2>2
<1>21. ASSUME NEW p \in Procs, NEW at, NEW kind, NEW next \in PCs,
             DeleteSupersededRefs(p, at, kind, next), at \in PCs
      PROVE  TypeOK'
  BY <1>21 DEF DeleteSupersededRefs, locals
<1>22. ASSUME NEW p \in Procs, DeleteSupersededCatalog(p) PROVE TypeOK'
  BY <1>22 DEF DeleteSupersededCatalog, PCs, SweepPCs
<1>23. ASSUME NEW p \in Procs, SweepDirs(p) PROVE TypeOK'
  BY <1>23 DEF SweepDirs, PCs, SweepPCs, locals
<1>24. ASSUME NEW p \in Procs, NEW at, NEW kind, NEW drop \in PCs,
   NEW next \in PCs,
             ListUnreferenced(p, at, kind, drop, next), kind \subseteq Objects
      PROVE  TypeOK'
  <2>1. PICK batch \in Batches(Unreferenced(kind)) :
             listed' = [listed EXCEPT ![p] = batch]
             /\ Goto(p, IF batch = {} THEN next ELSE drop)
    BY <1>24 DEF ListUnreferenced
  <2>2. batch \subseteq Objects
    BY <2>1, <1>24, BatchesInside DEF Unreferenced
  <2> QED
    BY <2>1, <2>2, <1>24 DEF ListUnreferenced, store
<1>25. ASSUME NEW p \in Procs, NEW at, NEW kind, NEW next \in PCs,
             DropListed(p, at, kind, next)
      PROVE  TypeOK'
  BY <1>25 DEF DropListed
<1>26. ASSUME NEW p \in Procs, RebuildSearchIndex(p) PROVE TypeOK'
  BY <1>26 DEF RebuildSearchIndex, PCs, SweepPCs, locals
<1>27. ASSUME NEW p \in Procs, ClearSweepFlag(p) PROVE TypeOK'
  BY <1>27, HandOnTypes DEF ClearSweepFlag, LocalTypes
<1>28. ASSUME NEW p \in Procs, SweepFails(p) PROVE TypeOK'
  BY <1>28, HandOnTypes DEF SweepFails, LocalTypes, store
<1>29. ASSUME NEW p \in Procs, Crash(p) PROVE TypeOK'
  BY <1>29, HandOnTypes DEF Crash, LocalTypes, store
<1>30. ASSUME Rot PROVE TypeOK'
  BY <1>30 DEF Rot, locals
<1>31. ASSUME NEW p \in Procs, SweepStep(p) PROVE TypeOK'
  BY <1>31, <1>19, <1>20, <1>21, <1>22, <1>23, <1>24, <1>25, <1>26, <1>27
     DEF SweepStep, PCs, SweepPCs
<1>32. ASSUME NEW w \in Writers, HarvestStep(w) PROVE TypeOK'
  BY <1>32, <1>2, <1>3, <1>4, <1>5, <1>6, <1>7, <1>8, <1>9, <1>10, <1>11,
     <1>12, <1>13, <1>14, <1>31 DEF HarvestStep
<1>33. ASSUME NEW r \in Reclaimers, ReclaimStep(r) PROVE TypeOK'
  BY <1>33, <1>15, <1>16, <1>17, <1>18, <1>31 DEF ReclaimStep, ReclaimGoesOn
<1> QED
  BY <1>1, <1>28, <1>29, <1>30, <1>32, <1>33 DEF Next

\* Every step keeps the two control facts beside it.
LEMMA ControlStep ==
    ASSUME TypeInv, [Next]_vars
    PROVE  HoldsCandidate' /\ SelectsMirrored'
<1> USE DEF TypeInv, TypeOK, HoldsCandidate, SelectsMirrored, PastSelect,
   SweepPCs,
           Procs, Goto, IndexStates
<1>1. ASSUME UNCHANGED vars PROVE HoldsCandidate' /\ SelectsMirrored'
  BY <1>1 DEF vars, store, locals
<1>2. ASSUME NEW w \in Writers, HarvestBegin(w)
      PROVE  HoldsCandidate' /\ SelectsMirrored'
  BY <1>2 DEF HarvestBegin, locals
<1>3. ASSUME NEW w \in Writers, PrepareArtifactInstall(w)
      PROVE  HoldsCandidate' /\ SelectsMirrored'
  BY <1>3 DEF PrepareArtifactInstall, locals
<1>4. ASSUME NEW w \in Writers, SourceUnchanged(w)
      PROVE  HoldsCandidate' /\ SelectsMirrored'
  BY <1>4 DEF SourceUnchanged, store, locals
<1>5. ASSUME NEW w \in Writers, MirrorArtifacts(w)
      PROVE  HoldsCandidate' /\ SelectsMirrored'
  BY <1>5, ConstantsAssumption DEF MirrorArtifacts, locals
<1>6. ASSUME NEW w \in Writers, Select(w)
      PROVE  HoldsCandidate' /\ SelectsMirrored'
  <2>1. idx.artifact \in Contents
    BY <1>6 DEF Select
  <2>2. PICK force \in {FALSE, AllowForce}, g \in GenIds,
             out \in Outcomes[idx.artifact] :
             cand' = [cand EXCEPT ![w] =
                        [id |-> g, content |-> idx.artifact, outcome |-> out,
                         explicit |-> force, expected |-> idx]]
    BY <1>6 DEF Select
  <2>3. [id |-> g, content |-> idx.artifact, outcome |-> out,
         explicit |-> force, expected |-> idx] \in Candidates
    BY <2>1, <2>2, ConstantsAssumption DEF Candidates
  <2> QED
    BY <1>6, <2>2, <2>3, NoneAssumption DEF Select, store
<1>7. ASSUME NEW w \in Writers, SelectNothing(w)
      PROVE  HoldsCandidate' /\ SelectsMirrored'
  BY <1>7 DEF SelectNothing, Finish, store
<1>8. ASSUME NEW w \in Writers, Prestage(w)
      PROVE  HoldsCandidate' /\ SelectsMirrored'
  BY <1>8 DEF Prestage, BeginStaging, store
<1>9. ASSUME NEW w \in Writers, StageBatchTxn(w)
      PROVE  HoldsCandidate' /\ SelectsMirrored'
  BY <1>9 DEF StageBatchTxn
<1>10. ASSUME NEW w \in Writers, VerifyStagedObjects(w)
       PROVE  HoldsCandidate' /\ SelectsMirrored'
  BY <1>10 DEF VerifyStagedObjects, Finish, store
<1>11. ASSUME NEW w \in Writers, Activate(w)
       PROVE  HoldsCandidate' /\ SelectsMirrored'
  BY <1>11 DEF Activate, WritePath, BeginStaging, Finish, store, locals
<1>12. ASSUME NEW w \in Writers, Skip(w) PROVE HoldsCandidate' /\ SelectsMirrored'
  <2>1. idx'.artifact = idx.artifact
    BY <1>12 DEF Skip, Stamped
  <2>2. CASE Finish(w)
    BY <2>1, <2>2 DEF Finish
  <2>3. CASE WritePath(w) /\ cand' = cand
    BY <1>12, <2>1, <2>3 DEF Skip, WritePath, BeginStaging
  <2> QED
    BY <1>12, <2>2, <2>3 DEF Skip
<1>13. ASSUME NEW w \in Writers, Repair(w)
       PROVE  HoldsCandidate' /\ SelectsMirrored'
  BY <1>13 DEF Repair, SweepAfterCommit, Stamped
<1>14. ASSUME NEW w \in Writers, Commit(w)
       PROVE  HoldsCandidate' /\ SelectsMirrored'
  <2>1. idx'.artifact = idx.artifact
    BY <1>14 DEF Commit, RetainLatestAttempt, InstallGeneration, CommitRefused,
                 Stamped, store
  <2>2. CASE Finish(w)
    BY <2>1, <2>2 DEF Finish
  <2>3. CASE SweepAfterCommit(w)
    BY <2>1, <2>3 DEF SweepAfterCommit
  <2> QED
    BY <1>14, <2>2, <2>3 DEF Commit, RetainLatestAttempt, InstallGeneration,
                             CommitRefused
<1>15. ASSUME NEW r \in Reclaimers, ReclaimBegin(r)
       PROVE  HoldsCandidate' /\ SelectsMirrored'
  BY <1>15 DEF ReclaimBegin
<1>16. ASSUME NEW r \in Reclaimers, UnlinkDir(r)
       PROVE  HoldsCandidate' /\ SelectsMirrored'
  BY <1>16 DEF UnlinkDir
<1>17. ASSUME NEW r \in Reclaimers, UnlinkDone(r)
       PROVE  HoldsCandidate' /\ SelectsMirrored'
  BY <1>17 DEF UnlinkDone, store, locals
<1>18. ASSUME NEW r \in Reclaimers, RelockSession(r)
       PROVE  HoldsCandidate' /\ SelectsMirrored'
  BY <1>18 DEF RelockSession, store, locals
<1>19. ASSUME NEW p \in Procs, LockSession(p)
       PROVE  HoldsCandidate' /\ SelectsMirrored'
  BY <1>19 DEF LockSession, store
<1>20. ASSUME NEW p \in Procs, SweepBounded(p)
       PROVE  HoldsCandidate' /\ SelectsMirrored'
  BY <1>20 DEF SweepBounded, SweepReturns, Finish, locals
<1>21. ASSUME NEW p \in Procs, NEW at \in SweepPCs, NEW kind,
   NEW next \in SweepPCs,
             DeleteSupersededRefs(p, at, kind, next)
      PROVE  HoldsCandidate' /\ SelectsMirrored'
  BY <1>21 DEF DeleteSupersededRefs, locals
<1>22. ASSUME NEW p \in Procs, DeleteSupersededCatalog(p)
       PROVE  HoldsCandidate' /\ SelectsMirrored'
  BY <1>22 DEF DeleteSupersededCatalog
<1>23. ASSUME NEW p \in Procs, SweepDirs(p)
       PROVE  HoldsCandidate' /\ SelectsMirrored'
  BY <1>23 DEF SweepDirs, locals
<1>24. ASSUME NEW p \in Procs, NEW at \in SweepPCs, NEW kind,
   NEW drop \in SweepPCs,
             NEW next \in SweepPCs,
             ListUnreferenced(p, at, kind, drop, next)
      PROVE  HoldsCandidate' /\ SelectsMirrored'
  BY <1>24 DEF ListUnreferenced, store
<1>25. ASSUME NEW p \in Procs, NEW at \in SweepPCs, NEW kind,
   NEW next \in SweepPCs,
             DropListed(p, at, kind, next)
      PROVE  HoldsCandidate' /\ SelectsMirrored'
  BY <1>25 DEF DropListed
<1>26. ASSUME NEW p \in Procs, RebuildSearchIndex(p)
       PROVE  HoldsCandidate' /\ SelectsMirrored'
  BY <1>26 DEF RebuildSearchIndex, locals
<1>27. ASSUME NEW p \in Procs, ClearSweepFlag(p)
       PROVE  HoldsCandidate' /\ SelectsMirrored'
  BY <1>27 DEF ClearSweepFlag, SweepReturns, Finish
<1>28. ASSUME NEW p \in Procs, SweepFails(p)
       PROVE  HoldsCandidate' /\ SelectsMirrored'
  BY <1>28 DEF SweepFails, SweepReturns, Finish, store
<1>29. ASSUME NEW p \in Procs, Crash(p) PROVE HoldsCandidate' /\ SelectsMirrored'
  BY <1>29 DEF Crash, Finish, store
<1>30. ASSUME Rot PROVE HoldsCandidate' /\ SelectsMirrored'
  BY <1>30 DEF Rot, locals
<1>31. ASSUME NEW p \in Procs, SweepStep(p)
       PROVE  HoldsCandidate' /\ SelectsMirrored'
  BY <1>31, <1>19, <1>20, <1>21, <1>22, <1>23, <1>24, <1>25, <1>26, <1>27
     DEF SweepStep, SweepPCs
<1>32. ASSUME NEW w \in Writers, HarvestStep(w)
       PROVE  HoldsCandidate' /\ SelectsMirrored'
  BY <1>32, <1>2, <1>3, <1>4, <1>5, <1>6, <1>7, <1>8, <1>9, <1>10,
     <1>11, <1>12, <1>13, <1>14, <1>31 DEF HarvestStep
<1>33. ASSUME NEW r \in Reclaimers, ReclaimStep(r)
       PROVE  HoldsCandidate' /\ SelectsMirrored'
  BY <1>33, <1>15, <1>16, <1>17, <1>18, <1>31 DEF ReclaimStep, ReclaimGoesOn
<1> QED
  BY <1>1, <1>28, <1>29, <1>30, <1>32, <1>33 DEF Next

\* The initial state has the types.
LEMMA TypeInit == Init => TypeInv
<1> SUFFICES ASSUME Init PROVE TypeInv
  OBVIOUS
<1>1. flag \in BOOLEAN
  BY DEF Init
<1>2. idx \in IndexStates
  BY DEF Init, IndexStates
<1>3. TypeOK
  BY <1>1, <1>2, ConstantsAssumption DEF Init, TypeOK, PCs
<1>4. HoldsCandidate /\ SelectsMirrored
  BY DEF Init, HoldsCandidate, SelectsMirrored, PastSelect
<1> QED
  BY <1>3, <1>4 DEF TypeInv

\* The model is type-correct: no harvest, sweep, reclaim or crash puts a
\* value outside its domain into the session row, the catalog or the object
\* tables (in particular, a damaged object is always a stored one).
THEOREM TypeCorrect == Spec => []TypeOK
<1>1. Init => TypeInv
  BY TypeInit
<1>2. TypeInv /\ [Next]_vars => TypeInv'
  BY TypeStep, ControlStep DEF TypeInv
<1>3. TypeInv => TypeOK
  BY DEF TypeInv
<1> QED
  BY <1>1, <1>2, <1>3, PTL DEF Spec

----------------------------------------------------------------------------
(* The exclusive session lock and what it freezes. *)

\* Where a sweep deletes rows by its keep set, and where it deletes objects.
RefPCs == {"rowBodies", "rowBlobs"}
RowPCs == RefPCs \cup {"bounded", "rowCatalog", "dirs"}
ObjectPCs == {"listBodies", "dropBodies", "listBlobs", "dropBlobs", "rebuild"}

\* A sweep or a reclaim inside its row or object steps holds the lock.
HoldsLock == \A p \in Procs : pc[p] \in SweepPCs => lock = p

\* Mutual exclusion: no step takes the lock from a process inside a span.
LEMMA LockStep ==
    ASSUME TypeInv, HoldsLock, [Next]_vars
    PROVE  HoldsLock'
<1> USE DEF TypeInv, TypeOK, HoldsLock, SweepPCs, RefPCs, RowPCs, ObjectPCs,
   Procs,
           Goto
<1>1. ASSUME UNCHANGED vars PROVE HoldsLock'
  BY <1>1 DEF vars, store, locals
<1>2. ASSUME NEW w \in Writers, HarvestBegin(w) PROVE HoldsLock'
  BY <1>2 DEF HarvestBegin, locals
<1>3. ASSUME NEW w \in Writers, PrepareArtifactInstall(w) PROVE HoldsLock'
  BY <1>3 DEF PrepareArtifactInstall, locals
<1>4. ASSUME NEW w \in Writers, SourceUnchanged(w) PROVE HoldsLock'
  BY <1>4 DEF SourceUnchanged, store, locals
<1>5. ASSUME NEW w \in Writers, MirrorArtifacts(w) PROVE HoldsLock'
  BY <1>5 DEF MirrorArtifacts, locals
<1>6. ASSUME NEW w \in Writers, Select(w) PROVE HoldsLock'
  BY <1>6 DEF Select, store
<1>7. ASSUME NEW w \in Writers, SelectNothing(w) PROVE HoldsLock'
  BY <1>7 DEF SelectNothing, Finish, store
<1>8. ASSUME NEW w \in Writers, Prestage(w) PROVE HoldsLock'
  BY <1>8 DEF Prestage, BeginStaging, store
<1>9. ASSUME NEW w \in Writers, StageBatchTxn(w) PROVE HoldsLock'
  BY <1>9 DEF StageBatchTxn
<1>10. ASSUME NEW w \in Writers, VerifyStagedObjects(w) PROVE HoldsLock'
  BY <1>10 DEF VerifyStagedObjects, Finish, store
<1>11. ASSUME NEW w \in Writers, Activate(w) PROVE HoldsLock'
  BY <1>11 DEF Activate, WritePath, BeginStaging, Finish, store, locals
<1>12. ASSUME NEW w \in Writers, Skip(w) PROVE HoldsLock'
  BY <1>12, ConstantsAssumption DEF Skip, WritePath, BeginStaging, Finish, Stamped
<1>13. ASSUME NEW w \in Writers, Repair(w) PROVE HoldsLock'
  BY <1>13, ConstantsAssumption DEF Repair, SweepAfterCommit, Stamped
<1>14. ASSUME NEW w \in Writers, Commit(w) PROVE HoldsLock'
  BY <1>14, ConstantsAssumption DEF Commit, RetainLatestAttempt,
     InstallGeneration, CommitRefused, SweepAfterCommit, Finish, Stamped, store
<1>15. ASSUME NEW r \in Reclaimers, ReclaimBegin(r) PROVE HoldsLock'
  BY <1>15 DEF ReclaimBegin
<1>16. ASSUME NEW r \in Reclaimers, UnlinkDir(r) PROVE HoldsLock'
  BY <1>16, ConstantsAssumption DEF UnlinkDir
<1>17. ASSUME NEW r \in Reclaimers, UnlinkDone(r) PROVE HoldsLock'
  BY <1>17 DEF UnlinkDone, store, locals
<1>18. ASSUME NEW r \in Reclaimers, RelockSession(r) PROVE HoldsLock'
  BY <1>18, ConstantsAssumption DEF RelockSession, store, locals
<1>19. ASSUME NEW p \in Procs, LockSession(p) PROVE HoldsLock'
  BY <1>19, ConstantsAssumption DEF LockSession, store
<1>20. ASSUME NEW p \in Procs, SweepBounded(p) PROVE HoldsLock'
  BY <1>20, ConstantsAssumption DEF SweepBounded, SweepReturns, Finish, locals
<1>21. ASSUME NEW p \in Procs, NEW at \in RefPCs, NEW kind, NEW next \in RowPCs,
             DeleteSupersededRefs(p, at, kind, next)
      PROVE  HoldsLock'
  BY <1>21 DEF DeleteSupersededRefs, locals
<1>22. ASSUME NEW p \in Procs, DeleteSupersededCatalog(p) PROVE HoldsLock'
  BY <1>22, ConstantsAssumption DEF DeleteSupersededCatalog
<1>23. ASSUME NEW p \in Procs, SweepDirs(p) PROVE HoldsLock'
  BY <1>23 DEF SweepDirs, locals
<1>24. ASSUME NEW p \in Procs, NEW at \in ObjectPCs, NEW kind,
   NEW drop \in ObjectPCs,
             NEW next \in ObjectPCs,
             ListUnreferenced(p, at, kind, drop, next)
      PROVE  HoldsLock'
  BY <1>24 DEF ListUnreferenced, store
<1>25. ASSUME NEW p \in Procs, NEW at \in ObjectPCs, NEW kind,
   NEW next \in ObjectPCs,
             DropListed(p, at, kind, next)
      PROVE  HoldsLock'
  BY <1>25 DEF DropListed
<1>26. ASSUME NEW p \in Procs, RebuildSearchIndex(p) PROVE HoldsLock'
  BY <1>26 DEF RebuildSearchIndex, locals
<1>27. ASSUME NEW p \in Procs, ClearSweepFlag(p) PROVE HoldsLock'
  BY <1>27, ConstantsAssumption DEF ClearSweepFlag, SweepReturns, Finish
<1>28. ASSUME NEW p \in Procs, SweepFails(p) PROVE HoldsLock'
  BY <1>28, ConstantsAssumption DEF SweepFails, SweepReturns, Finish, store
<1>29. ASSUME NEW p \in Procs, Crash(p) PROVE HoldsLock'
  BY <1>29, ConstantsAssumption DEF Crash, Finish, store
<1>30. ASSUME Rot PROVE HoldsLock'
  BY <1>30 DEF Rot, locals
<1>31. ASSUME NEW p \in Procs, SweepStep(p) PROVE HoldsLock'
  BY <1>31, <1>19, <1>20, <1>21, <1>22, <1>23, <1>24, <1>25, <1>26, <1>27
     DEF SweepStep, RefPCs, RowPCs, ObjectPCs
<1>32. ASSUME NEW w \in Writers, HarvestStep(w) PROVE HoldsLock'
  BY <1>32, <1>2, <1>3, <1>4, <1>5, <1>6, <1>7, <1>8, <1>9, <1>10,
     <1>11, <1>12, <1>13, <1>14, <1>31 DEF HarvestStep
<1>33. ASSUME NEW r \in Reclaimers, ReclaimStep(r) PROVE HoldsLock'
  BY <1>33, <1>15, <1>16, <1>17, <1>18, <1>31 DEF ReclaimStep, ReclaimGoesOn
<1> QED
  BY <1>1, <1>28, <1>29, <1>30, <1>32, <1>33 DEF Next

\* The keep set a sweep read stays the live one until its row steps end.
LEMMA KeepStep ==
    ASSUME TypeInv, HoldsLock, KeepSetIsCurrent, [Next]_vars
    PROVE  KeepSetIsCurrent'
<1> USE DEF TypeInv, TypeOK, HoldsLock, KeepSetIsCurrent, KeepSet, SweepPCs,
   RefPCs,
           RowPCs, ObjectPCs, Procs, Goto
<1>1. ASSUME UNCHANGED vars PROVE KeepSetIsCurrent'
  BY <1>1 DEF vars, store, locals
<1>2. ASSUME NEW w \in Writers, HarvestBegin(w) PROVE KeepSetIsCurrent'
  BY <1>2 DEF HarvestBegin, locals
<1>3. ASSUME NEW w \in Writers, PrepareArtifactInstall(w) PROVE KeepSetIsCurrent'
  BY <1>3 DEF PrepareArtifactInstall, locals
<1>4. ASSUME NEW w \in Writers, SourceUnchanged(w) PROVE KeepSetIsCurrent'
  BY <1>4 DEF SourceUnchanged, store, locals
<1>5. ASSUME NEW w \in Writers, MirrorArtifacts(w) PROVE KeepSetIsCurrent'
  BY <1>5 DEF MirrorArtifacts, locals
<1>6. ASSUME NEW w \in Writers, Select(w) PROVE KeepSetIsCurrent'
  BY <1>6 DEF Select, store
<1>7. ASSUME NEW w \in Writers, SelectNothing(w) PROVE KeepSetIsCurrent'
  BY <1>7 DEF SelectNothing, Finish, store
<1>8. ASSUME NEW w \in Writers, Prestage(w) PROVE KeepSetIsCurrent'
  BY <1>8 DEF Prestage, BeginStaging, store
<1>9. ASSUME NEW w \in Writers, StageBatchTxn(w) PROVE KeepSetIsCurrent'
  BY <1>9 DEF StageBatchTxn
<1>10. ASSUME NEW w \in Writers, VerifyStagedObjects(w) PROVE KeepSetIsCurrent'
  BY <1>10 DEF VerifyStagedObjects, Finish, store
<1>11. ASSUME NEW w \in Writers, Activate(w) PROVE KeepSetIsCurrent'
  BY <1>11 DEF Activate, WritePath, BeginStaging, Finish, store, locals
<1>12. ASSUME NEW w \in Writers, Skip(w) PROVE KeepSetIsCurrent'
  BY <1>12, ConstantsAssumption DEF Skip, WritePath, BeginStaging, Finish, Stamped
<1>13. ASSUME NEW w \in Writers, Repair(w) PROVE KeepSetIsCurrent'
  BY <1>13, ConstantsAssumption DEF Repair, SweepAfterCommit, Stamped
<1>14. ASSUME NEW w \in Writers, Commit(w) PROVE KeepSetIsCurrent'
  BY <1>14, ConstantsAssumption DEF Commit, RetainLatestAttempt,
     InstallGeneration, CommitRefused, SweepAfterCommit, Finish, Stamped,
     store, MayCommit
<1>15. ASSUME NEW r \in Reclaimers, ReclaimBegin(r) PROVE KeepSetIsCurrent'
  BY <1>15 DEF ReclaimBegin
<1>16. ASSUME NEW r \in Reclaimers, UnlinkDir(r) PROVE KeepSetIsCurrent'
  BY <1>16, ConstantsAssumption DEF UnlinkDir
<1>17. ASSUME NEW r \in Reclaimers, UnlinkDone(r) PROVE KeepSetIsCurrent'
  BY <1>17 DEF UnlinkDone, store, locals
<1>18. ASSUME NEW r \in Reclaimers, RelockSession(r) PROVE KeepSetIsCurrent'
  BY <1>18, ConstantsAssumption DEF RelockSession, store, locals
<1>19. ASSUME NEW p \in Procs, LockSession(p) PROVE KeepSetIsCurrent'
  BY <1>19, ConstantsAssumption DEF LockSession, store
<1>20. ASSUME NEW p \in Procs, SweepBounded(p) PROVE KeepSetIsCurrent'
  BY <1>20, ConstantsAssumption DEF SweepBounded, SweepReturns, Finish, locals
<1>21. ASSUME NEW p \in Procs, NEW at \in RefPCs, NEW kind, NEW next \in RowPCs,
             DeleteSupersededRefs(p, at, kind, next)
      PROVE  KeepSetIsCurrent'
  BY <1>21 DEF DeleteSupersededRefs, locals
<1>22. ASSUME NEW p \in Procs, DeleteSupersededCatalog(p) PROVE KeepSetIsCurrent'
  BY <1>22, ConstantsAssumption DEF DeleteSupersededCatalog
<1>23. ASSUME NEW p \in Procs, SweepDirs(p) PROVE KeepSetIsCurrent'
  BY <1>23 DEF SweepDirs, locals
<1>24. ASSUME NEW p \in Procs, NEW at \in ObjectPCs, NEW kind,
   NEW drop \in ObjectPCs,
             NEW next \in ObjectPCs,
             ListUnreferenced(p, at, kind, drop, next)
      PROVE  KeepSetIsCurrent'
  BY <1>24 DEF ListUnreferenced, store
<1>25. ASSUME NEW p \in Procs, NEW at \in ObjectPCs, NEW kind,
   NEW next \in ObjectPCs,
             DropListed(p, at, kind, next)
      PROVE  KeepSetIsCurrent'
  BY <1>25 DEF DropListed
<1>26. ASSUME NEW p \in Procs, RebuildSearchIndex(p) PROVE KeepSetIsCurrent'
  BY <1>26 DEF RebuildSearchIndex, locals
<1>27. ASSUME NEW p \in Procs, ClearSweepFlag(p) PROVE KeepSetIsCurrent'
  BY <1>27, ConstantsAssumption DEF ClearSweepFlag, SweepReturns, Finish
<1>28. ASSUME NEW p \in Procs, SweepFails(p) PROVE KeepSetIsCurrent'
  BY <1>28, ConstantsAssumption DEF SweepFails, SweepReturns, Finish, store
<1>29. ASSUME NEW p \in Procs, Crash(p) PROVE KeepSetIsCurrent'
  BY <1>29, ConstantsAssumption DEF Crash, Finish, store
<1>30. ASSUME Rot PROVE KeepSetIsCurrent'
  BY <1>30 DEF Rot, locals
<1>31. ASSUME NEW p \in Procs, SweepStep(p) PROVE KeepSetIsCurrent'
  BY <1>31, <1>19, <1>20, <1>21, <1>22, <1>23, <1>24, <1>25, <1>26, <1>27
     DEF SweepStep, RefPCs, RowPCs, ObjectPCs
<1>32. ASSUME NEW w \in Writers, HarvestStep(w) PROVE KeepSetIsCurrent'
  BY <1>32, <1>2, <1>3, <1>4, <1>5, <1>6, <1>7, <1>8, <1>9, <1>10,
     <1>11, <1>12, <1>13, <1>14, <1>31 DEF HarvestStep
<1>33. ASSUME NEW r \in Reclaimers, ReclaimStep(r) PROVE KeepSetIsCurrent'
  BY <1>33, <1>15, <1>16, <1>17, <1>18, <1>31 DEF ReclaimStep, ReclaimGoesOn
<1> QED
  BY <1>1, <1>28, <1>29, <1>30, <1>32, <1>33 DEF Next

----------------------------------------------------------------------------
(* Which steps touch what a reader can see. *)

Quiet ==
    /\ UNCHANGED <<catalog, refs, objs, active, attempt>>
    /\ idx'.capture = idx.capture

StoreStep ==
    \/ \E w \in Writers : \/ StageBatchTxn(w)
                          \/ Skip(w)
                          \/ Repair(w)
                          \/ Commit(w)
    \/ \E p \in Procs : \/ SweepBounded(p)
                        \/ DeleteSupersededCatalog(p)
    \/ \E p \in Procs, at \in RefPCs, next \in RowPCs, kind \in SUBSET Objects :
          DeleteSupersededRefs(p, at, kind, next)
    \/ \E p \in Procs, at \in ObjectPCs, next \in ObjectPCs,
          kind \in SUBSET Objects : DropListed(p, at, kind, next)

\* Staging, the finalizations, the commit and the deletes are all there is.
LEMMA QuietSteps ==
    ASSUME TypeInv, [Next]_vars
    PROVE  Quiet \/ StoreStep
<1> USE DEF TypeInv, TypeOK, Procs, Quiet, IndexStates
<1>1. ASSUME UNCHANGED vars PROVE Quiet \/ StoreStep
  BY <1>1 DEF vars, store
<1>2. ASSUME NEW w \in Writers, HarvestBegin(w) PROVE Quiet \/ StoreStep
  BY <1>2 DEF HarvestBegin
<1>3. ASSUME NEW w \in Writers, PrepareArtifactInstall(w) PROVE Quiet \/ StoreStep
  BY <1>3 DEF PrepareArtifactInstall
<1>4. ASSUME NEW w \in Writers, SourceUnchanged(w) PROVE Quiet \/ StoreStep
  BY <1>4 DEF SourceUnchanged, store
<1>5. ASSUME NEW w \in Writers, MirrorArtifacts(w) PROVE Quiet \/ StoreStep
  BY <1>5 DEF MirrorArtifacts
<1>6. ASSUME NEW w \in Writers, Select(w) PROVE Quiet \/ StoreStep
  BY <1>6 DEF Select, store
<1>7. ASSUME NEW w \in Writers, SelectNothing(w) PROVE Quiet \/ StoreStep
  BY <1>7 DEF SelectNothing, store
<1>8. ASSUME NEW w \in Writers, Prestage(w) PROVE Quiet \/ StoreStep
  BY <1>8 DEF Prestage, store
<1>9. ASSUME NEW w \in Writers, StageBatchTxn(w) PROVE Quiet \/ StoreStep
  BY <1>9 DEF StoreStep
<1>10. ASSUME NEW w \in Writers, VerifyStagedObjects(w) PROVE Quiet \/ StoreStep
  BY <1>10 DEF VerifyStagedObjects, store
<1>11. ASSUME NEW w \in Writers, Activate(w) PROVE Quiet \/ StoreStep
  BY <1>11 DEF Activate, store
<1>12. ASSUME NEW w \in Writers, Skip(w) PROVE Quiet \/ StoreStep
  BY <1>12 DEF StoreStep
<1>13. ASSUME NEW w \in Writers, Repair(w) PROVE Quiet \/ StoreStep
  BY <1>13 DEF StoreStep
<1>14. ASSUME NEW w \in Writers, Commit(w) PROVE Quiet \/ StoreStep
  BY <1>14 DEF StoreStep
<1>15. ASSUME NEW r \in Reclaimers, ReclaimBegin(r) PROVE Quiet \/ StoreStep
  BY <1>15 DEF ReclaimBegin
<1>16. ASSUME NEW r \in Reclaimers, UnlinkDir(r) PROVE Quiet \/ StoreStep
  BY <1>16 DEF UnlinkDir
<1>17. ASSUME NEW r \in Reclaimers, UnlinkDone(r) PROVE Quiet \/ StoreStep
  BY <1>17 DEF UnlinkDone, store
<1>18. ASSUME NEW r \in Reclaimers, RelockSession(r) PROVE Quiet \/ StoreStep
  BY <1>18 DEF RelockSession, store
<1>19. ASSUME NEW p \in Procs, LockSession(p) PROVE Quiet \/ StoreStep
  BY <1>19 DEF LockSession, store
<1>20. ASSUME NEW p \in Procs, SweepBounded(p) PROVE Quiet \/ StoreStep
  BY <1>20 DEF StoreStep
<1>21. ASSUME NEW p \in Procs, NEW at \in RefPCs, NEW kind \in SUBSET Objects,
             NEW next \in RowPCs,
             DeleteSupersededRefs(p, at, kind, next)
      PROVE  Quiet \/ StoreStep
  BY <1>21 DEF StoreStep
<1>22. ASSUME NEW p \in Procs, DeleteSupersededCatalog(p) PROVE Quiet \/ StoreStep
  BY <1>22 DEF StoreStep
<1>23. ASSUME NEW p \in Procs, SweepDirs(p) PROVE Quiet \/ StoreStep
  BY <1>23 DEF SweepDirs
<1>24. ASSUME NEW p \in Procs, NEW at \in ObjectPCs, NEW kind \in SUBSET Objects,
             NEW drop \in ObjectPCs,
             NEW next \in ObjectPCs,
             ListUnreferenced(p, at, kind, drop, next)
      PROVE  Quiet \/ StoreStep
  BY <1>24 DEF ListUnreferenced, store
<1>25. ASSUME NEW p \in Procs, NEW at \in ObjectPCs, NEW kind \in SUBSET Objects,
             NEW next \in ObjectPCs,
             DropListed(p, at, kind, next)
      PROVE  Quiet \/ StoreStep
  BY <1>25 DEF StoreStep
<1>26. ASSUME NEW p \in Procs, RebuildSearchIndex(p) PROVE Quiet \/ StoreStep
  BY <1>26 DEF RebuildSearchIndex
<1>27. ASSUME NEW p \in Procs, ClearSweepFlag(p) PROVE Quiet \/ StoreStep
  BY <1>27 DEF ClearSweepFlag
<1>28. ASSUME NEW p \in Procs, SweepFails(p) PROVE Quiet \/ StoreStep
  BY <1>28 DEF SweepFails, store
<1>29. ASSUME NEW p \in Procs, Crash(p) PROVE Quiet \/ StoreStep
  BY <1>29 DEF Crash, store
<1>30. ASSUME Rot PROVE Quiet \/ StoreStep
  BY <1>30 DEF Rot, locals
<1>31. ASSUME NEW p \in Procs, SweepStep(p) PROVE Quiet \/ StoreStep
  BY <1>31, <1>19, <1>20, <1>21, <1>22, <1>23, <1>24, <1>25, <1>26, <1>27
     DEF SweepStep, RefPCs, RowPCs, ObjectPCs, Objects
<1>32. ASSUME NEW w \in Writers, HarvestStep(w) PROVE Quiet \/ StoreStep
  BY <1>32, <1>2, <1>3, <1>4, <1>5, <1>6, <1>7, <1>8, <1>9, <1>10,
     <1>11, <1>12, <1>13, <1>14, <1>31 DEF HarvestStep
<1>33. ASSUME NEW r \in Reclaimers, ReclaimStep(r) PROVE Quiet \/ StoreStep
  BY <1>33, <1>15, <1>16, <1>17, <1>18, <1>31 DEF ReclaimStep, ReclaimGoesOn
<1> QED
  BY <1>1, <1>28, <1>29, <1>30, <1>32, <1>33 DEF Next

----------------------------------------------------------------------------
(* Generation identifiers are used once. *)

\* The identifier of a pending candidate has no catalog row yet and belongs
\* to one process.
FreshCandidates ==
    /\ \A p \in Procs : cand[p] # None => catalog[cand[p].id] = None
    /\ \A p, q \in Procs :
          p # q /\ cand[p] # None /\ cand[q] # None => cand[p].id # cand[q].id

OnlyShrinks ==
    /\ \A p \in Procs : cand'[p] \in {cand[p], None}
    /\ \A g \in GenIds : catalog'[g] \in {catalog[g], None}

\* Only the selector mints a candidate and only a commit adds a row.
LEMMA OnlyShrinksSteps ==
    ASSUME TypeInv, [Next]_vars
    PROVE  OnlyShrinks \/ \E w \in Writers : Select(w) \/ Commit(w)
<1> DEFINE Goal == OnlyShrinks \/ \E w \in Writers : Select(w) \/ Commit(w)
<1> USE DEF TypeInv, TypeOK, OnlyShrinks, Procs
<1>1. ASSUME UNCHANGED vars PROVE Goal
  BY <1>1 DEF vars, store, locals
<1>2. ASSUME NEW w \in Writers, HarvestBegin(w) PROVE Goal
  BY <1>2 DEF HarvestBegin, locals
<1>3. ASSUME NEW w \in Writers, PrepareArtifactInstall(w) PROVE Goal
  BY <1>3 DEF PrepareArtifactInstall, locals
<1>4. ASSUME NEW w \in Writers, SourceUnchanged(w) PROVE Goal
  BY <1>4 DEF SourceUnchanged, store, locals
<1>5. ASSUME NEW w \in Writers, MirrorArtifacts(w) PROVE Goal
  BY <1>5 DEF MirrorArtifacts, locals
<1>6. ASSUME NEW w \in Writers, Select(w) PROVE Goal
  BY <1>6
<1>7. ASSUME NEW w \in Writers, SelectNothing(w) PROVE Goal
  BY <1>7 DEF SelectNothing, Finish, store
<1>8. ASSUME NEW w \in Writers, Prestage(w) PROVE Goal
  BY <1>8 DEF Prestage, BeginStaging, store
<1>9. ASSUME NEW w \in Writers, StageBatchTxn(w) PROVE Goal
  BY <1>9 DEF StageBatchTxn
<1>10. ASSUME NEW w \in Writers, VerifyStagedObjects(w) PROVE Goal
  BY <1>10 DEF VerifyStagedObjects, Finish, store
<1>11. ASSUME NEW w \in Writers, Activate(w) PROVE Goal
  BY <1>11 DEF Activate, WritePath, BeginStaging, Finish, store, locals
<1>12. ASSUME NEW w \in Writers, Skip(w) PROVE Goal
  BY <1>12 DEF Skip, WritePath, BeginStaging, Finish, Stamped
<1>13. ASSUME NEW w \in Writers, Repair(w) PROVE Goal
  BY <1>13 DEF Repair, SweepAfterCommit, Stamped
<1>14. ASSUME NEW w \in Writers, Commit(w) PROVE Goal
  BY <1>14
<1>15. ASSUME NEW r \in Reclaimers, ReclaimBegin(r) PROVE Goal
  BY <1>15 DEF ReclaimBegin
<1>16. ASSUME NEW r \in Reclaimers, UnlinkDir(r) PROVE Goal
  BY <1>16 DEF UnlinkDir
<1>17. ASSUME NEW r \in Reclaimers, UnlinkDone(r) PROVE Goal
  BY <1>17 DEF UnlinkDone, store, locals
<1>18. ASSUME NEW r \in Reclaimers, RelockSession(r) PROVE Goal
  BY <1>18 DEF RelockSession, store, locals
<1>19. ASSUME NEW p \in Procs, LockSession(p) PROVE Goal
  BY <1>19 DEF LockSession, store
<1>20. ASSUME NEW p \in Procs, SweepBounded(p) PROVE Goal
  BY <1>20 DEF SweepBounded, SweepReturns, Finish, locals
<1>21. ASSUME NEW p \in Procs, NEW at \in RefPCs, NEW kind \in SUBSET Objects,
             NEW next \in RowPCs,
             DeleteSupersededRefs(p, at, kind, next)
      PROVE  Goal
  BY <1>21 DEF DeleteSupersededRefs, locals
<1>22. ASSUME NEW p \in Procs, DeleteSupersededCatalog(p) PROVE Goal
  BY <1>22 DEF DeleteSupersededCatalog
<1>23. ASSUME NEW p \in Procs, SweepDirs(p) PROVE Goal
  BY <1>23 DEF SweepDirs, locals
<1>24. ASSUME NEW p \in Procs, NEW at \in ObjectPCs, NEW kind \in SUBSET Objects,
             NEW drop \in ObjectPCs,
             NEW next \in ObjectPCs,
             ListUnreferenced(p, at, kind, drop, next)
      PROVE  Goal
  BY <1>24 DEF ListUnreferenced, store
<1>25. ASSUME NEW p \in Procs, NEW at \in ObjectPCs, NEW kind \in SUBSET Objects,
             NEW next \in ObjectPCs,
             DropListed(p, at, kind, next)
      PROVE  Goal
  BY <1>25 DEF DropListed
<1>26. ASSUME NEW p \in Procs, RebuildSearchIndex(p) PROVE Goal
  BY <1>26 DEF RebuildSearchIndex, locals
<1>27. ASSUME NEW p \in Procs, ClearSweepFlag(p) PROVE Goal
  BY <1>27 DEF ClearSweepFlag, SweepReturns, Finish
<1>28. ASSUME NEW p \in Procs, SweepFails(p) PROVE Goal
  BY <1>28 DEF SweepFails, SweepReturns, Finish, store
<1>29. ASSUME NEW p \in Procs, Crash(p) PROVE Goal
  BY <1>29 DEF Crash, Finish, store
<1>30. ASSUME Rot PROVE Goal
  BY <1>30 DEF Rot, locals
<1>31. ASSUME NEW p \in Procs, SweepStep(p) PROVE Goal
  BY <1>31, <1>19, <1>20, <1>21, <1>22, <1>23, <1>24, <1>25, <1>26, <1>27
     DEF SweepStep, RefPCs, RowPCs, ObjectPCs, Objects
<1>32. ASSUME NEW w \in Writers, HarvestStep(w) PROVE Goal
  BY <1>32, <1>2, <1>3, <1>4, <1>5, <1>6, <1>7, <1>8, <1>9, <1>10,
     <1>11, <1>12, <1>13, <1>14, <1>31 DEF HarvestStep
<1>33. ASSUME NEW r \in Reclaimers, ReclaimStep(r) PROVE Goal
  BY <1>33, <1>15, <1>16, <1>17, <1>18, <1>31 DEF ReclaimStep, ReclaimGoesOn
<1> QED
  BY <1>1, <1>28, <1>29, <1>30, <1>32, <1>33 DEF Next

\* Freshness is kept: the selector takes an unused identifier, and a commit
\* gives up the candidate whose row it adds.
LEMMA FreshStep ==
    ASSUME TypeInv, FreshCandidates, [Next]_vars
    PROVE  FreshCandidates'
<1>1. CASE OnlyShrinks
  <2>1. \A p \in Procs : cand'[p] # None => cand'[p] = cand[p]
    BY <1>1 DEF OnlyShrinks
  <2>2. \A p \in Procs : cand[p] # None => cand[p].id \in GenIds
    BY DEF TypeInv, TypeOK, Candidates
  <2>3. \A p \in Procs : cand'[p] # None => catalog'[cand'[p].id] = None
    BY <1>1, <2>1, <2>2 DEF OnlyShrinks, FreshCandidates
  <2> QED
    BY <2>1, <2>3 DEF FreshCandidates
<1>2. ASSUME NEW w \in Writers, Select(w) PROVE FreshCandidates'
  <2>1. PICK g \in GenIds :
             /\ Fresh(g)
             /\ \E r : r.id = g /\ cand' = [cand EXCEPT ![w] = r]
    BY <1>2 DEF Select
  <2>2. PICK r : r.id = g /\ cand' = [cand EXCEPT ![w] = r]
    BY <2>1
  <2>3. /\ w \in Procs
        /\ cand'[w] = r
        /\ \A p \in Procs : p # w => cand'[p] = cand[p]
    BY <2>2 DEF Procs, TypeInv, TypeOK
  <2>4. catalog' = catalog
    BY <1>2 DEF Select, store
  <2>5. /\ catalog[g] = None
        /\ \A p \in Procs : cand[p] # None => cand[p].id # g
    BY <2>1 DEF Fresh
  <2> QED
    BY <2>2, <2>3, <2>4, <2>5 DEF FreshCandidates
<1>3. ASSUME NEW w \in Writers, Commit(w) PROVE FreshCandidates'
  <2>1. w \in Procs /\ pc[w] \in PastSelect /\ cand[w] # None
    BY <1>3 DEF Commit, Procs, PastSelect, TypeInv, HoldsCandidate
  <2>2. cand' = [cand EXCEPT ![w] = None]
    BY <1>3 DEF Commit, RetainLatestAttempt, InstallGeneration, CommitRefused,
                Finish, SweepAfterCommit
  <2>3. \A g \in GenIds : g # cand[w].id => catalog'[g] \in {catalog[g], None}
    BY <1>3 DEF Commit, RetainLatestAttempt, InstallGeneration, CommitRefused,
                store, TypeInv, TypeOK
  <2>4. \A p \in Procs : cand[p] # None => cand[p].id \in GenIds
    BY DEF TypeInv, TypeOK, Candidates
  <2>5. /\ cand'[w] = None
        /\ \A p \in Procs : p # w => cand'[p] = cand[p]
    BY <2>1, <2>2 DEF TypeInv, TypeOK
  <2>6. \A p \in Procs : cand'[p] # None => catalog'[cand'[p].id] = None
    BY <2>1, <2>3, <2>4, <2>5 DEF FreshCandidates
  <2> QED
    BY <2>5, <2>6 DEF FreshCandidates
<1> QED
  BY <1>1, <1>2, <1>3, OnlyShrinksSteps

----------------------------------------------------------------------------
(* What a reader can see. *)

\* A content certificate belongs to an active generation.
CaptureHasAuthority == idx.capture # None => active # None

StoreInv ==
    /\ TypeInv
    /\ HoldsLock
    /\ KeepSetIsCurrent
    /\ FreshCandidates
    /\ CaptureHasAuthority
    /\ AttemptBesideFullAuthority
    /\ LiveGenerationsIntact

\* The candidate a process commits is not the active generation.
LEMMA CandidateIsNew ==
    ASSUME StoreInv, NEW w \in Writers, pc[w] = "commit"
    PROVE  /\ w \in Procs
           /\ pc[w] \in PastSelect
           /\ cand[w].id \in GenIds
           /\ cand[w].id # None
           /\ cand[w].id # active
<1>1. w \in Procs /\ pc[w] \in PastSelect
  BY DEF Procs, PastSelect
<1>2. cand[w] # None /\ cand[w].id \in GenIds
  BY <1>1, CandidateTypes DEF StoreInv, TypeInv, HoldsCandidate
<1>3. catalog[cand[w].id] = None
  BY <1>1, <1>2 DEF StoreInv, FreshCandidates
<1>4. active # None => catalog[active] # None
  BY DEF StoreInv, LiveGenerationsIntact, KeepSet, Intact
<1> QED
  BY <1>1, <1>2, <1>3, <1>4, ConstantsAssumption

\* The pointers and the capture of the session row move together.
LEMMA PointerStep ==
    ASSUME StoreInv, [Next]_vars
    PROVE  CaptureHasAuthority' /\ AttemptBesideFullAuthority'
<1> USE DEF CaptureHasAuthority, AttemptBesideFullAuthority, StoreInv
<1>1. CASE Quiet
  BY <1>1 DEF Quiet
<1>2. ASSUME NEW w \in Writers, StageBatchTxn(w)
      PROVE  CaptureHasAuthority' /\ AttemptBesideFullAuthority'
  BY <1>2 DEF StageBatchTxn
<1>3. ASSUME NEW w \in Writers, Skip(w)
      PROVE  CaptureHasAuthority' /\ AttemptBesideFullAuthority'
  BY <1>3 DEF Skip, Stamped, TypeInv, TypeOK, IndexStates
<1>4. ASSUME NEW w \in Writers, Repair(w)
      PROVE  CaptureHasAuthority' /\ AttemptBesideFullAuthority'
  BY <1>4 DEF Repair, Stamped, TypeInv, TypeOK, IndexStates
<1>5. ASSUME NEW w \in Writers, Commit(w)
      PROVE  CaptureHasAuthority' /\ AttemptBesideFullAuthority'
  <2>1. pc[w] = "commit"
    BY <1>5 DEF Commit
  <2>2. CASE RetainLatestAttempt(w)
    <3>1. idx.capture = "full" /\ UNCHANGED <<active, idx>>
      BY <2>2 DEF RetainLatestAttempt, Eligible
    <3>2. active # None
      BY <3>1, ConstantsAssumption
    <3>3. attempt' \in {attempt, cand[w].id}
      BY <2>2 DEF RetainLatestAttempt
    <3> QED
      BY <2>1, <3>1, <3>2, <3>3, CandidateIsNew
  <2>3. CASE InstallGeneration(w)
    BY <2>1, <2>3, CandidateIsNew DEF InstallGeneration
  <2>4. CASE CommitRefused(w)
    BY <2>4 DEF CommitRefused, store
  <2> QED
    BY <1>5, <2>2, <2>3, <2>4 DEF Commit
<1>6. ASSUME NEW p \in Procs,
             SweepBounded(p) \/ DeleteSupersededCatalog(p)
      PROVE  CaptureHasAuthority' /\ AttemptBesideFullAuthority'
  BY <1>6 DEF SweepBounded, DeleteSupersededCatalog
<1>7. ASSUME NEW p \in Procs, NEW at, NEW kind, NEW next,
             DeleteSupersededRefs(p, at, kind, next) \/ DropListed(p, at, kind,
                next)
      PROVE  CaptureHasAuthority' /\ AttemptBesideFullAuthority'
  BY <1>7 DEF DeleteSupersededRefs, DropListed
<1> QED
  BY <1>1, <1>2, <1>3, <1>4, <1>5, <1>6, <1>7, QuietSteps DEF StoreStep

\* No step takes a row, a mapping or an object from a live generation.
LEMMA LiveStep ==
    ASSUME StoreInv, [Next]_vars
    PROVE  LiveGenerationsIntact'
<1> USE DEF StoreInv, LiveGenerationsIntact, Intact, KeepSet
<1>1. CASE Quiet
  BY <1>1 DEF Quiet
<1>2. ASSUME NEW w \in Writers, StageBatchTxn(w) PROVE LiveGenerationsIntact'
  BY <1>2 DEF StageBatchTxn
<1>3. ASSUME NEW w \in Writers, Skip(w) PROVE LiveGenerationsIntact'
  BY <1>3 DEF Skip
<1>4. ASSUME NEW w \in Writers, Repair(w) PROVE LiveGenerationsIntact'
  <2> DEFINE new == ObjectsOf[cand[w].content]
  <2>1. /\ active \in GenIds
        /\ Intact(active)
        /\ UNCHANGED <<catalog, active>>
        /\ attempt' = None
        /\ objs' = objs \cup new
        /\ refs'[active] = RepairedRefs(refs[active], new \cap Blobs)
    BY <1>4 DEF Repair, TypeInv, TypeOK
  <2>2. refs'[active] \subseteq objs'
    BY <2>1 DEF RepairedRefs
  <2>3. refs[active] \cap Bodies \subseteq refs'[active]
    BY <2>1 DEF RepairedRefs
  <2> QED
    BY <2>1, <2>2, <2>3
<1>5. ASSUME NEW w \in Writers, Commit(w) PROVE LiveGenerationsIntact'
  <2>1. pc[w] = "commit"
    BY <1>5 DEF Commit
  <2> DEFINE c == cand[w]
  <2>2. /\ c.id \in GenIds \ {None, active}
        /\ c.content \in Contents
        /\ Binding(c) \in Bindings
        /\ Binding(c).content = c.content
    BY <2>1, CandidateIsNew, CandidateTypes DEF Binding
  <2>3. Binding(c) # None
    BY <2>2, NoneAssumption
  <2>4. CASE RetainLatestAttempt(w)
    <3>1. CASE UNCHANGED <<catalog, refs, attempt>>
      BY <2>4, <3>1 DEF RetainLatestAttempt
    <3>2. CASE ~UNCHANGED <<catalog, refs, attempt>>
      <4>1. /\ ObjectsOf[c.content] \subseteq objs
            /\ UNCHANGED <<objs, active>>
            /\ attempt' = c.id
            /\ catalog'[c.id] = Binding(c)
            /\ refs'[c.id] = ObjectsOf[c.content]
            /\ \A g \in GenIds \ {c.id, attempt} :
                  catalog'[g] = catalog[g] /\ refs'[g] = refs[g]
        <5>1. /\ ForeignKeysHold(c)
              /\ catalog' = [g \in GenIds |-> IF g = c.id THEN Binding(c)
                                              ELSE IF g = attempt THEN None
                                              ELSE catalog[g]]
              /\ refs' = [g \in GenIds |->
                            IF g = c.id THEN ObjectsOf[c.content]
                            ELSE IF g = attempt THEN {}
                            ELSE refs[g]]
              /\ attempt' = c.id
              /\ UNCHANGED <<objs, active>>
          BY <2>4, <3>2 DEF RetainLatestAttempt
        <5> QED
          BY <2>2, <5>1 DEF ForeignKeysHold
      <4>2. /\ catalog'[c.id] # None
            /\ ObjectsOf[catalog'[c.id].content] \cap Bodies \subseteq refs'[c.id]
            /\ refs'[c.id] \subseteq objs'
        BY <2>2, <2>3, <4>1
      <4>3. active # None => Intact(active)'
        BY <2>2, <4>1 DEF AttemptBesideFullAuthority, TypeInv, TypeOK
      <4> QED
        BY <4>1, <4>2, <4>3
    <3> QED
      BY <3>1, <3>2
  <2>5. CASE InstallGeneration(w)
    <3>1. /\ ObjectsOf[c.content] \subseteq objs
          /\ UNCHANGED objs
          /\ active' = c.id
          /\ attempt' = None
          /\ catalog'[c.id] = Binding(c)
          /\ refs'[c.id] = ObjectsOf[c.content]
      BY <2>2, <2>5
         DEF InstallGeneration, Installable, ForeignKeysHold, TypeInv, TypeOK
    <3> QED
      BY <2>2, <2>3, <3>1
  <2>6. CASE CommitRefused(w)
    BY <2>6 DEF CommitRefused, store
  <2> QED
    BY <1>5, <2>4, <2>5, <2>6 DEF Commit
<1>6. ASSUME NEW p \in Procs, SweepBounded(p) PROVE LiveGenerationsIntact'
  <2>1. keep[p] = KeepSet /\ KeepSet \subseteq GenIds
    BY <1>6 DEF SweepBounded, KeepSetIsCurrent, TypeInv, TypeOK
  <2>2. CASE BoundedApplies(keep[p])
    BY <1>6, <2>1, <2>2 DEF SweepBounded, DoomedObjects
  <2>3. CASE ~BoundedApplies(keep[p])
    BY <1>6, <2>3 DEF SweepBounded
  <2> QED
    BY <2>2, <2>3
<1>7. ASSUME NEW p \in Procs, DeleteSupersededCatalog(p)
      PROVE  LiveGenerationsIntact'
  <2>1. keep[p] = KeepSet /\ KeepSet \subseteq GenIds
    BY <1>7 DEF DeleteSupersededCatalog, KeepSetIsCurrent, TypeInv, TypeOK
  <2>2. PICK batch \in Batches(SupersededRows(keep[p])) :
             /\ catalog' = [g \in GenIds |-> IF g \in batch THEN None
                                             ELSE catalog[g]]
             /\ refs' = [g \in GenIds |-> IF g \in batch THEN {} ELSE refs[g]]
    BY <1>7 DEF DeleteSupersededCatalog
  <2>3. batch \cap KeepSet = {}
    BY <2>1, <2>2, BatchesInside DEF SupersededRows
  <2> QED
    BY <1>7, <2>1, <2>2, <2>3 DEF DeleteSupersededCatalog
<1>8. ASSUME NEW p \in Procs, NEW at \in RefPCs, NEW next, NEW kind,
             DeleteSupersededRefs(p, at, kind, next)
      PROVE  LiveGenerationsIntact'
  <2>1. keep[p] = KeepSet /\ KeepSet \subseteq GenIds
    BY <1>8 DEF DeleteSupersededRefs, KeepSetIsCurrent, RefPCs, TypeInv, TypeOK
  <2>2. PICK batch \in Batches(SupersededRefs(keep[p], kind)) :
             refs' = [g \in GenIds |-> {o \in refs[g] : <<g, o>> \notin batch}]
    BY <1>8 DEF DeleteSupersededRefs
  <2>3. \A g \in KeepSet : \A o : <<g, o>> \notin batch
    <3> SUFFICES ASSUME NEW g \in KeepSet, NEW o, <<g, o>> \in batch
                 PROVE  FALSE
      OBVIOUS
    <3>1. <<g, o>> \in SupersededRefs(keep[p], kind)
      BY <2>2, BatchesInside
    <3>2. <<g, o>> \in (GenIds \ keep[p]) \X kind
      BY <3>1 DEF SupersededRefs
    <3> QED
      BY <2>1, <3>2
  <2>4. \A g \in KeepSet : refs'[g] = refs[g]
    BY <2>1, <2>2, <2>3
  <2> QED
    BY <1>8, <2>4 DEF DeleteSupersededRefs
<1>9. ASSUME NEW p \in Procs, NEW at, NEW next, NEW kind,
             DropListed(p, at, kind, next)
      PROVE  LiveGenerationsIntact'
  <2>1. KeepSet \subseteq GenIds
    BY DEF TypeInv, TypeOK
  <2> QED
    BY <1>9, <2>1 DEF DropListed, Referenced
<1> QED
  BY <1>1, <1>2, <1>3, <1>4, <1>5, <1>6, <1>7, <1>8, <1>9, QuietSteps
     DEF StoreStep

\* The initial state satisfies the inductive invariant.
LEMMA StoreInit == Init => StoreInv
BY TypeInit DEF Init, StoreInv, HoldsLock, SweepPCs, KeepSetIsCurrent,
                FreshCandidates, CaptureHasAuthority,
                AttemptBesideFullAuthority, LiveGenerationsIntact, KeepSet

\* Every step keeps the inductive invariant.
LEMMA StoreNext == StoreInv /\ [Next]_vars => StoreInv'
BY TypeStep, ControlStep, LockStep, KeepStep, FreshStep, PointerStep, LiveStep
   DEF StoreInv, TypeInv

\* The conjunction is an invariant of the store.
THEOREM StoreInvariant == Spec => []StoreInv
BY StoreInit, StoreNext, PTL DEF Spec

\* The active generation and the latest attempt stay readable: whatever
\* lock-free staging, sweeps, reclaims, failing transactions and crashes do,
\* the row, every mapped body and every mapped object are stored.
THEOREM LiveGenerationsSafe == Spec => []LiveGenerationsIntact
BY StoreInvariant, PTL DEF StoreInv

\* No pointer moves between the moment a sweep or a reclaim reads its keep
\* set and its last row delete.
THEOREM KeepSetSafe == Spec => []KeepSetIsCurrent
BY StoreInvariant, PTL DEF StoreInv

\* A retained attempt stands beside another, certified generation.
THEOREM AttemptSafe == Spec => []AttemptBesideFullAuthority
BY StoreInvariant, PTL DEF StoreInv

\* Nothing re-references a listed digest: only a commit and a repair add
\* references, and both need the lock the lister holds.
LEMMA ListedStep ==
    ASSUME StoreInv, ListedStaysUnreferenced, [Next]_vars
    PROVE  ListedStaysUnreferenced'
<1>0. /\ TypeOK /\ HoldsLock
      /\ UNCHANGED refs => Referenced' = Referenced
  BY DEF StoreInv, TypeInv, Referenced
<1> USE <1>0 DEF TypeOK, HoldsLock, ListedStaysUnreferenced, SweepPCs, RefPCs,
           RowPCs, ObjectPCs, Procs, Goto
<1>1. ASSUME UNCHANGED vars PROVE ListedStaysUnreferenced'
  BY <1>1 DEF vars, store, locals
<1>2. ASSUME NEW w \in Writers, HarvestBegin(w) PROVE ListedStaysUnreferenced'
  BY <1>2 DEF HarvestBegin, locals
<1>3. ASSUME NEW w \in Writers, PrepareArtifactInstall(w)
      PROVE  ListedStaysUnreferenced'
  BY <1>3 DEF PrepareArtifactInstall, locals
<1>4. ASSUME NEW w \in Writers, SourceUnchanged(w) PROVE ListedStaysUnreferenced'
  BY <1>4 DEF SourceUnchanged, store, locals
<1>5. ASSUME NEW w \in Writers, MirrorArtifacts(w) PROVE ListedStaysUnreferenced'
  BY <1>5 DEF MirrorArtifacts, locals
<1>6. ASSUME NEW w \in Writers, Select(w) PROVE ListedStaysUnreferenced'
  BY <1>6 DEF Select, store
<1>7. ASSUME NEW w \in Writers, SelectNothing(w) PROVE ListedStaysUnreferenced'
  BY <1>7 DEF SelectNothing, Finish, store
<1>8. ASSUME NEW w \in Writers, Prestage(w) PROVE ListedStaysUnreferenced'
  BY <1>8 DEF Prestage, BeginStaging, store
<1>9. ASSUME NEW w \in Writers, StageBatchTxn(w) PROVE ListedStaysUnreferenced'
  BY <1>9 DEF StageBatchTxn
<1>10. ASSUME NEW w \in Writers, VerifyStagedObjects(w)
       PROVE  ListedStaysUnreferenced'
  BY <1>10 DEF VerifyStagedObjects, Finish, store
<1>11. ASSUME NEW w \in Writers, Activate(w) PROVE ListedStaysUnreferenced'
  BY <1>11 DEF Activate, WritePath, BeginStaging, Finish, store, locals
<1>12. ASSUME NEW w \in Writers, Skip(w) PROVE ListedStaysUnreferenced'
  <2>1. \A p \in Procs : pc[p] \notin SweepPCs
    BY <1>12, ConstantsAssumption DEF Skip
  <2>2. \A p \in Procs : p # w => pc'[p] = pc[p]
    BY <1>12 DEF Skip, WritePath, BeginStaging, Finish
  <2>3. pc'[w] \notin {"dropBodies", "dropBlobs"}
    BY <1>12 DEF Skip, WritePath, BeginStaging, Finish
  <2> QED
    BY <2>1, <2>2, <2>3
<1>13. ASSUME NEW w \in Writers, Repair(w) PROVE ListedStaysUnreferenced'
  <2>1. \A p \in Procs : pc[p] \notin SweepPCs
    BY <1>13, ConstantsAssumption DEF Repair
  <2>2. \A p \in Procs : p # w => pc'[p] = pc[p]
    BY <1>13 DEF Repair, SweepAfterCommit
  <2>3. pc'[w] \notin {"dropBodies", "dropBlobs"}
    BY <1>13 DEF Repair, SweepAfterCommit
  <2> QED
    BY <2>1, <2>2, <2>3
<1>14. ASSUME NEW w \in Writers, Commit(w) PROVE ListedStaysUnreferenced'
  <2>1. \A p \in Procs : pc[p] \notin SweepPCs
    BY <1>14, ConstantsAssumption DEF Commit, MayCommit
  <2>2. \A p \in Procs : p # w => pc'[p] = pc[p]
    BY <1>14 DEF Commit, RetainLatestAttempt, InstallGeneration,
                CommitRefused, Finish, SweepAfterCommit
  <2>3. pc'[w] \notin {"dropBodies", "dropBlobs"}
    BY <1>14 DEF Commit, RetainLatestAttempt, InstallGeneration,
                CommitRefused, Finish, SweepAfterCommit
  <2> QED
    BY <2>1, <2>2, <2>3
<1>15. ASSUME NEW r \in Reclaimers, ReclaimBegin(r) PROVE ListedStaysUnreferenced'
  BY <1>15 DEF ReclaimBegin
<1>16. ASSUME NEW r \in Reclaimers, UnlinkDir(r) PROVE ListedStaysUnreferenced'
  BY <1>16 DEF UnlinkDir
<1>17. ASSUME NEW r \in Reclaimers, UnlinkDone(r) PROVE ListedStaysUnreferenced'
  BY <1>17 DEF UnlinkDone, store, locals
<1>18. ASSUME NEW r \in Reclaimers, RelockSession(r)
       PROVE  ListedStaysUnreferenced'
  BY <1>18 DEF RelockSession, store, locals
<1>19. ASSUME NEW p \in Procs, LockSession(p) PROVE ListedStaysUnreferenced'
  BY <1>19 DEF LockSession, store
<1>20. ASSUME NEW p \in Procs, SweepBounded(p) PROVE ListedStaysUnreferenced'
  <2>1. \A g \in GenIds : refs'[g] \subseteq refs[g]
    BY <1>20 DEF SweepBounded
  <2>2. Referenced' \subseteq Referenced
    BY <2>1 DEF Referenced
  <2>3. \A q \in Procs : q # p => pc'[q] = pc[q] /\ listed'[q] = listed[q]
    BY <1>20 DEF SweepBounded, SweepReturns, Finish, locals
  <2>4. pc'[p] \notin {"dropBodies", "dropBlobs"}
    BY <1>20 DEF SweepBounded, SweepReturns, Finish
  <2> QED
    BY <2>2, <2>3, <2>4
<1>21. ASSUME NEW p \in Procs, NEW at \in RefPCs, NEW kind \in SUBSET Objects,
             NEW next \in RowPCs,
             DeleteSupersededRefs(p, at, kind, next)
      PROVE  ListedStaysUnreferenced'
  <2>1. \A g \in GenIds : refs'[g] \subseteq refs[g]
    BY <1>21 DEF DeleteSupersededRefs
  <2>2. Referenced' \subseteq Referenced
    BY <2>1 DEF Referenced
  <2> QED
    BY <1>21, <2>2 DEF DeleteSupersededRefs, locals
<1>22. ASSUME NEW p \in Procs, DeleteSupersededCatalog(p)
       PROVE  ListedStaysUnreferenced'
  <2>1. \A g \in GenIds : refs'[g] \subseteq refs[g]
    BY <1>22 DEF DeleteSupersededCatalog
  <2>2. Referenced' \subseteq Referenced
    BY <2>1 DEF Referenced
  <2> QED
    BY <1>22, <2>2 DEF DeleteSupersededCatalog
<1>23. ASSUME NEW p \in Procs, SweepDirs(p) PROVE ListedStaysUnreferenced'
  BY <1>23 DEF SweepDirs, locals
<1>24. ASSUME NEW p \in Procs, NEW at \in ObjectPCs, NEW kind \in SUBSET Objects,
             NEW drop \in ObjectPCs,
             NEW next \in ObjectPCs,
             ListUnreferenced(p, at, kind, drop, next)
      PROVE  ListedStaysUnreferenced'
  <2>1. PICK batch \in Batches(Unreferenced(kind)) :
             listed' = [listed EXCEPT ![p] = batch]
    BY <1>24 DEF ListUnreferenced
  <2>2. batch \cap Referenced = {}
    BY <2>1, BatchesInside DEF Unreferenced
  <2> QED
    BY <1>24, <2>1, <2>2 DEF ListUnreferenced, store
<1>25. ASSUME NEW p \in Procs, NEW at \in ObjectPCs, NEW kind \in SUBSET Objects,
             NEW next \in ObjectPCs,
             DropListed(p, at, kind, next)
      PROVE  ListedStaysUnreferenced'
  BY <1>25 DEF DropListed
<1>26. ASSUME NEW p \in Procs, RebuildSearchIndex(p)
       PROVE  ListedStaysUnreferenced'
  BY <1>26 DEF RebuildSearchIndex, locals
<1>27. ASSUME NEW p \in Procs, ClearSweepFlag(p) PROVE ListedStaysUnreferenced'
  BY <1>27 DEF ClearSweepFlag, SweepReturns, Finish
<1>28. ASSUME NEW p \in Procs, SweepFails(p) PROVE ListedStaysUnreferenced'
  BY <1>28 DEF SweepFails, SweepReturns, Finish, store
<1>29. ASSUME NEW p \in Procs, Crash(p) PROVE ListedStaysUnreferenced'
  BY <1>29 DEF Crash, Finish, store
<1>30. ASSUME Rot PROVE ListedStaysUnreferenced'
  BY <1>30 DEF Rot, locals
<1>31. ASSUME NEW p \in Procs, SweepStep(p) PROVE ListedStaysUnreferenced'
  BY <1>31, <1>19, <1>20, <1>21, <1>22, <1>23, <1>24, <1>25, <1>26, <1>27
     DEF SweepStep, RefPCs, RowPCs, ObjectPCs, Objects
<1>32. ASSUME NEW w \in Writers, HarvestStep(w) PROVE ListedStaysUnreferenced'
  BY <1>32, <1>2, <1>3, <1>4, <1>5, <1>6, <1>7, <1>8, <1>9, <1>10,
     <1>11, <1>12, <1>13, <1>14, <1>31 DEF HarvestStep
<1>33. ASSUME NEW r \in Reclaimers, ReclaimStep(r) PROVE ListedStaysUnreferenced'
  BY <1>33, <1>15, <1>16, <1>17, <1>18, <1>31 DEF ReclaimStep, ReclaimGoesOn
<1> QED
  BY <1>1, <1>28, <1>29, <1>30, <1>32, <1>33 DEF Next

\* A sweep's two-transaction delete never meets its own foreign key: what it
\* listed in one transaction is still unreferenced in the next, although
\* staging runs without the lock all the while.
THEOREM ListedSafe == Spec => []ListedStaysUnreferenced
<1>1. Init => ListedStaysUnreferenced
  BY DEF Init, ListedStaysUnreferenced
<1>2. StoreInv /\ ListedStaysUnreferenced /\ [Next]_vars
        => ListedStaysUnreferenced'
  BY ListedStep
<1> QED
  BY <1>1, <1>2, StoreInvariant, PTL DEF Spec

----------------------------------------------------------------------------
(* What a step may never do. *)

\* A candidate was parsed from the pair its expected state names.
ParsedFromExpected ==
    \A p \in Procs : cand[p] # None => cand[p].content = cand[p].expected.artifact

\* The selector binds the two and nothing edits a candidate.
LEMMA ParsedStep ==
    ASSUME TypeInv, ParsedFromExpected, [Next]_vars
    PROVE  ParsedFromExpected'
<1>1. CASE OnlyShrinks
  BY <1>1 DEF OnlyShrinks, ParsedFromExpected
<1>2. ASSUME NEW w \in Writers, Select(w) PROVE ParsedFromExpected'
  <2>1. \E r : r.content = r.expected.artifact /\ cand' = [cand EXCEPT ![w] = r]
    BY <1>2 DEF Select
  <2> QED
    BY <2>1 DEF ParsedFromExpected, TypeInv, TypeOK, Procs
<1>3. ASSUME NEW w \in Writers, Commit(w) PROVE ParsedFromExpected'
  <2>1. cand' = [cand EXCEPT ![w] = None]
    BY <1>3 DEF Commit, RetainLatestAttempt, InstallGeneration, CommitRefused,
                Finish, SweepAfterCommit
  <2> QED
    BY <2>1 DEF ParsedFromExpected, TypeInv, TypeOK, Procs
<1> QED
  BY <1>1, <1>2, <1>3, OnlyShrinksSteps

\* Only the ordinary commit moves the active pointer or the capture.
LEMMA OnlyInstallMovesAuthority ==
    ASSUME TypeInv, [Next]_vars,
           active' # active \/ idx'.capture # idx.capture
    PROVE  \E w \in Writers :
              pc[w] = "commit" /\ MayCommit(w) /\ InstallGeneration(w)
<1> USE DEF TypeInv, TypeOK, IndexStates
<1>1. CASE Quiet
  BY <1>1 DEF Quiet
<1>2. CASE StoreStep
  <2>1. PICK w \in Writers : Commit(w)
    <3>1. ASSUME NEW w \in Writers, StageBatchTxn(w) \/ Skip(w) \/ Repair(w)
          PROVE  FALSE
      BY <3>1 DEF StageBatchTxn, Skip, Repair, Stamped
    <3>2. ASSUME NEW p \in Procs, SweepBounded(p) \/ DeleteSupersededCatalog(p)
          PROVE  FALSE
      BY <3>2 DEF SweepBounded, DeleteSupersededCatalog
    <3>3. ASSUME NEW p \in Procs, NEW at, NEW kind, NEW next,
                 \/ DeleteSupersededRefs(p, at, kind, next)
                 \/ DropListed(p, at, kind, next)
          PROVE  FALSE
      BY <3>3 DEF DeleteSupersededRefs, DropListed
    <3> QED
      BY <1>2, <3>1, <3>2, <3>3 DEF StoreStep
  <2>2. ~RetainLatestAttempt(w) /\ ~CommitRefused(w)
    BY DEF RetainLatestAttempt, CommitRefused, store
  <2> QED
    BY <2>1, <2>2 DEF Commit
<1> QED
  BY <1>1, <1>2, QuietSteps

\* The compare-and-swap of the commit does its work: an installed generation
\* was parsed from the pair the session row names at that moment.
THEOREM InstalledInputSafe == Spec => InstalledInputIsCurrent
<1>1. Init => ParsedFromExpected
  BY DEF Init, ParsedFromExpected
<1>2. TypeInv /\ ParsedFromExpected /\ [Next]_vars => ParsedFromExpected'
  BY ParsedStep
<1>3. TypeInv /\ ParsedFromExpected /\ [Next]_vars
        => [active' # active => catalog'[active'].content = idx.artifact]_vars
  <2> SUFFICES ASSUME TypeInv, ParsedFromExpected, [Next]_vars, active' # active
               PROVE  catalog'[active'].content = idx.artifact
    OBVIOUS
  <2>1. PICK w \in Writers :
             pc[w] = "commit" /\ MayCommit(w) /\ InstallGeneration(w)
    BY OnlyInstallMovesAuthority
  <2>2. w \in Procs /\ pc[w] \in PastSelect /\ cand[w] # None
    BY <2>1 DEF Procs, PastSelect, TypeInv, HoldsCandidate
  <2>3. cand[w].content = idx.artifact
    BY <2>1, <2>2 DEF ParsedFromExpected, MayCommit
  <2>4. catalog'[active'] = Binding(cand[w])
    BY <2>1, <2>2, CandidateTypes DEF InstallGeneration, TypeInv, TypeOK
  <2> QED
    BY <2>3, <2>4 DEF Binding
<1>4. Spec => []TypeInv
  BY StoreInvariant, PTL DEF StoreInv
<1> QED
  BY <1>1, <1>2, <1>3, <1>4, PTL DEF Spec, InstalledInputIsCurrent

\* Certified full content is replaced by a preview only by the commit of an
\* explicit rebuild.
THEOREM DowngradeSafe == Spec => FullOnlyDowngradedExplicitly
<1> DEFINE Explicit == idx.capture = "full" /\ idx'.capture # "full"
                         => \E w \in Writers : pc[w] = "commit" /\ cand[w].explicit
<1>1. TypeInv /\ [Next]_vars => [Explicit]_vars
  <2> SUFFICES ASSUME TypeInv, [Next]_vars,
                      idx.capture = "full", idx'.capture # "full"
               PROVE  \E w \in Writers : pc[w] = "commit" /\ cand[w].explicit
    OBVIOUS
  <2>1. PICK w \in Writers :
             pc[w] = "commit" /\ MayCommit(w) /\ InstallGeneration(w)
    BY OnlyInstallMovesAuthority
  <2>2. cand[w].outcome # "full"
    BY <2>1, CandidateTypes
       DEF InstallGeneration, Procs, PastSelect, IndexStates
  <2> QED
    BY <2>1, <2>2 DEF InstallGeneration, Installable
<1>2. Spec => []TypeInv
  BY StoreInvariant, PTL DEF StoreInv
<1> QED
  BY <1>1, <1>2, PTL DEF Spec, FullOnlyDowngradedExplicitly
----------------------------------------------------------------------------
(***************************************************************************)
(* Without bit rot.  A proof of the stored input is a claim about the      *)
(* active row; it is stamped by a commit or by a skip that compared the    *)
(* row before it took the lock, so the invariant has to follow what a skip *)
(* holds on to.                                                            *)
(***************************************************************************)

\* No stored object fails, so no process is on its way to a repair.
Undamaged == damaged = {} /\ \A p \in Procs : pc[p] # "repair"

\* The generation a skip compared is unchanged or gone for good: no pending
\* candidate has its identifier.
SkipsUnchanged ==
    \A p \in Procs : pc[p] = "skip" =>
        \A g \in keep[p] :
            /\ catalog[g] \in {Binding(cand[p]), None}
            /\ \A q \in Procs : cand[q] # None => cand[q].id # g

\* Only a complete generation is proved, so an incomplete one, whose commit
\* leaves the proof alone, cannot replace it.
ProofOfComplete ==
    idx.proof # None =>
        /\ active # None
        /\ catalog[active] = [content |-> idx.proof, complete |-> TRUE]

\* Without repairs a live generation maps exactly the objects of its content.
WholeViews == \A g \in KeepSet : refs[g] = ObjectsOf[catalog[g].content]

HealthyInv == StoreInv /\ ParsedFromExpected /\ Undamaged /\ SkipsUnchanged
                /\ ProofOfComplete /\ WholeViews

\* What a skip or a repair in the making holds.
RoutesStay ==
    \A p \in Procs : pc'[p] \in {"skip", "repair"} =>
        pc'[p] = pc[p] /\ keep'[p] = keep[p] /\ cand'[p] = cand[p]

\* Only the routing starts a skip or a repair, and only the three ways of
\* finishing stamp a proof.
LEMMA RouteSteps ==
    ASSUME TypeInv, [Next]_vars
    PROVE  /\ damaged' \subseteq damaged \/ Rot
           /\ RoutesStay \/ \E w \in Writers : Activate(w)
           /\ \/ idx'.proof \in {idx.proof, None}
              \/ \E w \in Writers : Skip(w) \/ Repair(w) \/ Commit(w)
<1> DEFINE Goal == /\ damaged' \subseteq damaged \/ Rot
                   /\ RoutesStay \/ \E w \in Writers : Activate(w)
                   /\ \/ idx'.proof \in {idx.proof, None}
                      \/ \E w \in Writers : Skip(w) \/ Repair(w) \/ Commit(w)
<1> USE DEF TypeInv, TypeOK, RoutesStay, Procs, Goto, IndexStates, RefPCs, RowPCs, ObjectPCs
<1>1. ASSUME UNCHANGED vars PROVE Goal
  BY <1>1 DEF vars, store, locals
<1>2. ASSUME NEW w \in Writers, HarvestBegin(w) PROVE Goal
  BY <1>2 DEF HarvestBegin
<1>3. ASSUME NEW w \in Writers, PrepareArtifactInstall(w) PROVE Goal
  BY <1>3 DEF PrepareArtifactInstall, locals
<1>4. ASSUME NEW w \in Writers, SourceUnchanged(w) PROVE Goal
  BY <1>4 DEF SourceUnchanged, store, locals
<1>5. ASSUME NEW w \in Writers, MirrorArtifacts(w) PROVE Goal
  BY <1>5 DEF MirrorArtifacts, locals
<1>6. ASSUME NEW w \in Writers, Select(w) PROVE Goal
  BY <1>6 DEF Select, store
<1>7. ASSUME NEW w \in Writers, SelectNothing(w) PROVE Goal
  BY <1>7 DEF SelectNothing, Finish, store
<1>8. ASSUME NEW w \in Writers, Prestage(w) PROVE Goal
  BY <1>8 DEF Prestage, BeginStaging, store
<1>9. ASSUME NEW w \in Writers, StageBatchTxn(w) PROVE Goal
  BY <1>9 DEF StageBatchTxn
<1>10. ASSUME NEW w \in Writers, VerifyStagedObjects(w) PROVE Goal
  BY <1>10 DEF VerifyStagedObjects, Finish, store
<1>11. ASSUME NEW w \in Writers, Activate(w) PROVE Goal
  BY <1>11 DEF Activate, WritePath, BeginStaging, Finish, store, locals
<1>12. ASSUME NEW w \in Writers, Skip(w) PROVE Goal
  BY <1>12 DEF Skip, WritePath, BeginStaging, Finish
<1>13. ASSUME NEW w \in Writers, Repair(w) PROVE Goal
  BY <1>13 DEF Repair, SweepAfterCommit
<1>14. ASSUME NEW w \in Writers, Commit(w) PROVE Goal
  BY <1>14, ZenonT(40) DEF Commit, RetainLatestAttempt, InstallGeneration, CommitRefused,
     Finish, SweepAfterCommit, store
<1>15. ASSUME NEW r \in Reclaimers, ReclaimBegin(r) PROVE Goal
  BY <1>15 DEF ReclaimBegin
<1>16. ASSUME NEW r \in Reclaimers, UnlinkDir(r) PROVE Goal
  BY <1>16 DEF UnlinkDir
<1>17. ASSUME NEW r \in Reclaimers, UnlinkDone(r) PROVE Goal
  BY <1>17 DEF UnlinkDone, store, locals
<1>18. ASSUME NEW r \in Reclaimers, RelockSession(r) PROVE Goal
  BY <1>18 DEF RelockSession, store, locals
<1>19. ASSUME NEW p \in Procs, LockSession(p) PROVE Goal
  BY <1>19 DEF LockSession, store
<1>20. ASSUME NEW p \in Procs, SweepBounded(p) PROVE Goal
  BY <1>20 DEF SweepBounded, SweepReturns, Finish, locals
<1>21. ASSUME NEW p \in Procs, NEW at \in RefPCs, NEW kind, NEW next \in RowPCs,
             DeleteSupersededRefs(p, at, kind, next)
      PROVE  Goal
  BY <1>21 DEF DeleteSupersededRefs, locals
<1>22. ASSUME NEW p \in Procs, DeleteSupersededCatalog(p) PROVE Goal
  BY <1>22 DEF DeleteSupersededCatalog
<1>23. ASSUME NEW p \in Procs, SweepDirs(p) PROVE Goal
  BY <1>23 DEF SweepDirs, locals
<1>24. ASSUME NEW p \in Procs, NEW at, NEW kind, NEW drop \in ObjectPCs,
             NEW next \in ObjectPCs, ListUnreferenced(p, at, kind, drop, next)
      PROVE  Goal
  BY <1>24 DEF ListUnreferenced, store
<1>25. ASSUME NEW p \in Procs, NEW at, NEW kind, NEW next \in ObjectPCs,
             DropListed(p, at, kind, next)
      PROVE  Goal
  BY <1>25 DEF DropListed
<1>26. ASSUME NEW p \in Procs, RebuildSearchIndex(p) PROVE Goal
  BY <1>26 DEF RebuildSearchIndex, locals
<1>27. ASSUME NEW p \in Procs, ClearSweepFlag(p) PROVE Goal
  BY <1>27 DEF ClearSweepFlag, SweepReturns, Finish
<1>28. ASSUME NEW p \in Procs, SweepFails(p) PROVE Goal
  BY <1>28 DEF SweepFails, SweepReturns, Finish, store
<1>29. ASSUME NEW p \in Procs, Crash(p) PROVE Goal
  BY <1>29 DEF Crash, Finish, store
<1>30. ASSUME Rot PROVE Goal
  BY <1>30 DEF Rot, locals
<1>31. ASSUME NEW p \in Procs, SweepStep(p) PROVE Goal
  BY <1>31, <1>19, <1>20, <1>21, <1>22, <1>23, <1>24, <1>25, <1>26, <1>27
     DEF SweepStep, RefPCs, RowPCs, ObjectPCs
<1>32. ASSUME NEW w \in Writers, HarvestStep(w) PROVE Goal
  BY <1>32, <1>2, <1>3, <1>4, <1>5, <1>6, <1>7, <1>8, <1>9, <1>10,
     <1>11, <1>12, <1>13, <1>14, <1>31 DEF HarvestStep
<1>33. ASSUME NEW r \in Reclaimers, ReclaimStep(r) PROVE Goal
  BY <1>33, <1>15, <1>16, <1>17, <1>18, <1>31 DEF ReclaimStep, ReclaimGoesOn
<1> QED
  BY <1>1, <1>28, <1>29, <1>30, <1>32, <1>33 DEF Next

\* What a reader sees stays.
Frozen ==
    /\ UNCHANGED <<active, attempt>> /\ idx'.capture = idx.capture
    /\ \A g \in KeepSet : catalog'[g] = catalog[g] /\ refs'[g] = refs[g]

\* The skip found the active pointer where it had left it.
Finalizes(w) ==
    /\ pc[w] = "skip" /\ active \in keep[w]
    /\ idx' = Stamped(cand[w]) /\ attempt' = None
    /\ UNCHANGED <<catalog, refs, objs, active>>

\* A new attempt takes the place of the previous one.
Retains(w) ==
    /\ Eligible(cand[w]) /\ attempt' = cand[w].id
    /\ ObjectsOf[cand[w].content] \subseteq objs
    /\ catalog'[cand[w].id] = Binding(cand[w])
    /\ refs'[cand[w].id] = ObjectsOf[cand[w].content]
    /\ \A g \in GenIds \ {cand[w].id, attempt} :
          catalog'[g] = catalog[g] /\ refs'[g] = refs[g]
    /\ UNCHANGED <<objs, active, idx>>

\* A reader sees a finalization, a repair, a new attempt, a new authority, and
\* nothing else.
LEMMA VisibleSteps ==
    ASSUME StoreInv, [Next]_vars
    PROVE  \/ Frozen
           \/ \E w \in Writers :
                 \/ Finalizes(w) \/ Repair(w)
                 \/ pc[w] = "commit" /\ Retains(w)
                 \/ pc[w] = "commit" /\ MayCommit(w) /\ InstallGeneration(w)
<1> DEFINE Goal == \/ Frozen
                   \/ \E w \in Writers :
                         \/ Finalizes(w) \/ Repair(w)
                         \/ pc[w] = "commit" /\ Retains(w)
                         \/ pc[w] = "commit" /\ MayCommit(w) /\ InstallGeneration(w)
<1>0. KeepSet \subseteq GenIds /\ TypeInv
  BY DEF StoreInv, TypeInv, TypeOK, KeepSet
<1>1. CASE Quiet
  BY <1>1 DEF Quiet, Frozen
<1>2. ASSUME NEW w \in Writers, StageBatchTxn(w) PROVE Goal
  BY <1>2 DEF StageBatchTxn, Frozen
<1>3. ASSUME NEW w \in Writers, Skip(w) PROVE Goal
  BY <1>3 DEF Skip, Frozen, Finalizes
<1>4. ASSUME NEW w \in Writers, Repair(w) PROVE Goal
  BY <1>4
<1>5. ASSUME NEW w \in Writers, Commit(w) PROVE Goal
  <2>1. pc[w] = "commit"
    BY <1>5 DEF Commit
  <2>2. cand[w].id \in GenIds
    BY <2>1, CandidateIsNew
  <2>3. CASE RetainLatestAttempt(w)
    <3>1. CASE UNCHANGED <<catalog, refs, attempt>>
      BY <2>3, <3>1 DEF RetainLatestAttempt, Frozen
    <3>2. CASE ~UNCHANGED <<catalog, refs, attempt>>
      <4> DEFINE c == cand[w]
      <4>1. /\ ForeignKeysHold(c) /\ Eligible(c)
            /\ catalog' = [g \in GenIds |-> IF g = c.id THEN Binding(c)
                                            ELSE IF g = attempt THEN None
                                            ELSE catalog[g]]
            /\ refs' = [g \in GenIds |-> IF g = c.id THEN ObjectsOf[c.content]
                                         ELSE IF g = attempt THEN {}
                                         ELSE refs[g]]
            /\ attempt' = c.id
            /\ UNCHANGED <<objs, active, idx>>
        BY <2>3, <3>2 DEF RetainLatestAttempt
      <4>2. Retains(w)
        BY <2>2, <4>1 DEF Retains, ForeignKeysHold
      <4> QED
        BY <2>1, <4>2
    <3> QED
      BY <3>1, <3>2
  <2>4. CASE MayCommit(w) /\ InstallGeneration(w)
    BY <2>1, <2>4
  <2>5. CASE CommitRefused(w)
    BY <2>5 DEF CommitRefused, store, Frozen
  <2> QED
    BY <1>5, <2>3, <2>4, <2>5 DEF Commit
<1>6. ASSUME NEW p \in Procs, SweepBounded(p) PROVE Goal
  <2>1. keep[p] = KeepSet
    BY <1>6 DEF SweepBounded, StoreInv, KeepSetIsCurrent
  <2> QED
    BY <1>0, <1>6, <2>1 DEF SweepBounded, Frozen
<1>7. ASSUME NEW p \in Procs, DeleteSupersededCatalog(p) PROVE Goal
  <2>1. keep[p] = KeepSet
    BY <1>7 DEF DeleteSupersededCatalog, StoreInv, KeepSetIsCurrent
  <2>2. PICK batch \in Batches(SupersededRows(keep[p])) :
             /\ catalog' = [g \in GenIds |-> IF g \in batch THEN None
                                             ELSE catalog[g]]
             /\ refs' = [g \in GenIds |-> IF g \in batch THEN {} ELSE refs[g]]
    BY <1>7 DEF DeleteSupersededCatalog
  <2>3. batch \cap KeepSet = {}
    BY <2>1, <2>2, BatchesInside DEF SupersededRows
  <2> QED
    BY <1>0, <1>7, <2>2, <2>3 DEF DeleteSupersededCatalog, Frozen
<1>8. ASSUME NEW p \in Procs, NEW at \in RefPCs, NEW next, NEW kind,
             DeleteSupersededRefs(p, at, kind, next)
      PROVE  Goal
  <2>1. keep[p] = KeepSet
    BY <1>8 DEF DeleteSupersededRefs, StoreInv, KeepSetIsCurrent, RefPCs
  <2>2. PICK batch \in Batches(SupersededRefs(keep[p], kind)) :
             refs' = [g \in GenIds |-> {o \in refs[g] : <<g, o>> \notin batch}]
    BY <1>8 DEF DeleteSupersededRefs
  <2>3. \A g \in KeepSet : \A o : <<g, o>> \notin batch
    <3> SUFFICES ASSUME NEW g \in KeepSet, NEW o, <<g, o>> \in batch
                 PROVE  FALSE
      OBVIOUS
    <3>1. <<g, o>> \in SupersededRefs(keep[p], kind)
      BY <2>2, BatchesInside
    <3>2. <<g, o>> \in (GenIds \ keep[p]) \X kind
      BY <3>1 DEF SupersededRefs
    <3> QED
      BY <2>1, <3>2
  <2>4. \A g \in KeepSet : refs'[g] = refs[g]
    BY <1>0, <2>2, <2>3
  <2> QED
    BY <1>8, <2>4 DEF DeleteSupersededRefs, Frozen
<1>9. ASSUME NEW p \in Procs, NEW at, NEW next, NEW kind,
             DropListed(p, at, kind, next)
      PROVE  Goal
  BY <1>9 DEF DropListed, Frozen
<1> QED
  BY <1>0, <1>1, <1>2, <1>3, <1>4, <1>5, <1>6, <1>7, <1>8, <1>9, QuietSteps
     DEF StoreStep

\* The active row and the one a skip compared.
LEMMA LiveRows ==
    ASSUME StoreInv
    PROVE  /\ KeepSet \subseteq GenIds
           /\ active # None => active \in KeepSet
           /\ attempt # None => attempt \in KeepSet /\ attempt # active /\ active # None
           /\ \A g \in KeepSet : /\ catalog[g] \in Bindings /\ catalog[g] # None
                                 /\ refs[g] \subseteq objs
                                 /\ refs[g] \subseteq Objects
<1>1. KeepSet \subseteq GenIds
  BY DEF StoreInv, TypeInv, TypeOK, KeepSet
<1>2. \A g \in KeepSet : catalog[g] # None /\ refs[g] \subseteq objs
  BY DEF StoreInv, LiveGenerationsIntact, Intact
<1>3. \A g \in GenIds : catalog[g] \in Bindings \cup {None} /\ refs[g] \subseteq Objects
  BY DEF StoreInv, TypeInv, TypeOK
<1>4. active # None => active \in KeepSet
  BY DEF KeepSet
<1>5. attempt # None => attempt \in KeepSet /\ attempt # active /\ active # None
  BY DEF KeepSet, StoreInv, AttemptBesideFullAuthority
<1> QED
  BY <1>1, <1>2, <1>3, <1>4, <1>5

\* Nothing fails, so nobody repairs.
LEMMA UndamagedStep ==
    ASSUME ~AllowRot, StoreInv, Undamaged, [Next]_vars
    PROVE  Undamaged' /\ \A w \in Writers : ~Repair(w)
<1>1. TypeInv
  BY DEF StoreInv
<1>2. ~NeedsRepair
  <2>1. active # None => refs[active] \subseteq objs
    BY LiveRows
  <2> QED
    BY <2>1 DEF NeedsRepair, Undamaged
<1>3. damaged' = {}
  BY <1>1, RouteSteps DEF Undamaged, Rot
<1>4. CASE RoutesStay
  BY <1>3, <1>4 DEF Undamaged, RoutesStay, Repair, Procs
<1>5. ASSUME NEW w \in Writers, Activate(w)
      PROVE  \A p \in Procs : pc'[p] # "repair"
  <2>1. \E l \in {"idle", "skip", "commit", "verify", "stage"} : pc' = [pc EXCEPT ![w] = l]
    BY <1>2, <1>5 DEF Activate, Finish, Goto, WritePath, BeginStaging
  <2> QED
    BY <1>1, <2>1 DEF Undamaged, TypeInv, TypeOK
<1> QED
  BY <1>1, <1>3, <1>4, <1>5, RouteSteps DEF Undamaged, Repair, Procs

\* What a skip compared before the lock stays unchanged or goes for good.
LEMMA SkipsStep ==
    ASSUME StoreInv, SkipsUnchanged, [Next]_vars
    PROVE  SkipsUnchanged'
<1>1. /\ TypeInv /\ FreshCandidates
      /\ \A p \in Procs : keep[p] \subseteq GenIds
      /\ \A p \in Procs : cand[p] # None => cand[p].id \in GenIds
  BY DEF StoreInv, TypeInv, TypeOK, Candidates
<1>2. CASE RoutesStay
  <2> SUFFICES ASSUME NEW p \in Procs, pc'[p] = "skip", NEW g \in keep'[p]
               PROVE  /\ catalog'[g] \in {Binding(cand[p]), None}
                      /\ \A q \in Procs : cand'[q] # None => cand'[q].id # g
    BY <1>2 DEF SkipsUnchanged, RoutesStay, Binding
  <2>1. pc[p] = "skip" /\ g \in keep[p] /\ g \in GenIds
    BY <1>1, <1>2 DEF RoutesStay
  <2>2. /\ catalog[g] \in {Binding(cand[p]), None}
        /\ \A q \in Procs : cand[q] # None => cand[q].id # g
    BY <2>1 DEF SkipsUnchanged
  <2>3. CASE OnlyShrinks
    BY <2>1, <2>2, <2>3 DEF OnlyShrinks
  <2>4. ASSUME NEW w \in Writers, Select(w)
        PROVE  /\ catalog'[g] = catalog[g]
               /\ \A q \in Procs : cand'[q] # None => cand'[q].id # g
    <3>1. PICK h \in GenIds :
               Fresh(h) /\ \E r : r.id = h /\ cand' = [cand EXCEPT ![w] = r]
      BY <2>4 DEF Select
    <3>2. h # g
      BY <2>1, <3>1 DEF Fresh
    <3>3. catalog' = catalog
      BY <2>4 DEF Select, store
    <3> QED
      BY <1>1, <2>2, <3>1, <3>2, <3>3 DEF TypeInv, TypeOK
  <2>5. ASSUME NEW w \in Writers, Commit(w)
        PROVE  /\ catalog'[g] \in {catalog[g], None}
               /\ \A q \in Procs : cand'[q] # None => cand'[q].id # g
    <3>1. w \in Procs /\ cand[w] # None
      BY <1>1, <2>5 DEF Commit, Procs, PastSelect, TypeInv, HoldsCandidate
    <3>2. cand' = [cand EXCEPT ![w] = None]
      BY <2>5 DEF Commit, RetainLatestAttempt, InstallGeneration, CommitRefused,
                  Finish, SweepAfterCommit
    <3>3. \A h \in GenIds : h # cand[w].id => catalog'[h] \in {catalog[h], None}
      BY <1>1, <2>5 DEF Commit, RetainLatestAttempt, InstallGeneration, CommitRefused,
                  store, TypeInv, TypeOK
    <3> QED
      BY <1>1, <2>1, <2>2, <3>1, <3>2, <3>3 DEF TypeInv, TypeOK
  <2> QED
    BY <1>1, <2>2, <2>3, <2>4, <2>5, OnlyShrinksSteps
<1>3. ASSUME NEW w \in Writers, Activate(w)
      PROVE  SkipsUnchanged'
  <2>1. UNCHANGED <<catalog, active>> /\ w \in Procs /\ pc[w] = "activate"
    BY <1>3 DEF Activate, store, Procs
  <2>2. CASE Finish(w)
    BY <1>1, <2>1, <2>2 DEF Finish, SkipsUnchanged, TypeInv, TypeOK, Binding
  <2>3. CASE UNCHANGED cand
    <3>1. \A p \in Procs : p # w => pc'[p] = pc[p] /\ keep'[p] = keep[p]
      BY <1>1, <1>3, <2>1 DEF Activate, Finish, Goto, WritePath, BeginStaging, locals,
         TypeInv, TypeOK
    <3>2. ASSUME pc'[w] = "skip"
          PROVE  keep'[w] = {active} /\ EqualsActive(cand[w])
      BY <1>1, <1>3, <2>1, <3>2 DEF Activate, Finish, Goto, WritePath, BeginStaging, locals,
         TypeInv, TypeOK
    <3>3. ASSUME EqualsActive(cand[w])
          PROVE  /\ catalog[active] = Binding(cand[w]) /\ active \in GenIds
                 /\ \A q \in Procs : cand[q] # None => cand[q].id # active
      BY <1>1, <3>3, LiveRows DEF EqualsActive, FreshCandidates
    <3>4. \A p \in Procs : Binding(cand[p])' = Binding(cand[p])
      BY <2>3 DEF Binding
    <3> QED
      BY <2>1, <2>3, <3>1, <3>2, <3>3, <3>4 DEF SkipsUnchanged
  <2> QED
    BY <1>3, <2>2, <2>3 DEF Activate, WritePath, BeginStaging, locals
<1> QED
  BY <1>1, <1>2, <1>3, RouteSteps

\* What an ordinary commit leaves.
LEMMA Installed ==
    ASSUME StoreInv, NEW w \in Writers, pc[w] = "commit", InstallGeneration(w)
    PROVE  /\ active' = cand[w].id /\ attempt' = None /\ cand[w].id \in GenIds
           /\ catalog'[cand[w].id] = Binding(cand[w])
           /\ refs'[cand[w].id] = ObjectsOf[cand[w].content]
           /\ ObjectsOf[cand[w].content] \subseteq objs /\ objs' = objs
           /\ cand[w] \in Candidates
           /\ idx'.proof = IF cand[w].outcome = "incomplete" THEN idx.proof
                           ELSE cand[w].content
           /\ idx'.capture = IF cand[w].outcome = "full" THEN "full" ELSE "preview"
           /\ cand[w].outcome = "incomplete" => \A g \in GenIds : ~Complete(g)
<1>1. cand[w].id \in GenIds /\ cand[w] \in Candidates
  BY CandidateIsNew, CandidateTypes DEF StoreInv
<1>2. idx \in IndexStates
  BY DEF StoreInv, TypeInv, TypeOK
<1>3. catalog \in [GenIds -> Bindings \cup {None}] /\ refs \in [GenIds -> SUBSET Objects]
  BY DEF StoreInv, TypeInv, TypeOK
<1>4. /\ idx'.proof = IF cand[w].outcome = "incomplete" THEN idx.proof
                      ELSE cand[w].content
      /\ idx'.capture = IF cand[w].outcome = "full" THEN "full" ELSE "preview"
  BY <1>2 DEF InstallGeneration, Stamped, IndexStates
<1> QED
  BY <1>1, <1>3, <1>4 DEF InstallGeneration, Installable, ForeignKeysHold

\* A proof is stamped only for a complete active row, and that row keeps it.
LEMMA ProofStep ==
    ASSUME StoreInv, SkipsUnchanged, ProofOfComplete, [Next]_vars,
           \A w \in Writers : ~Repair(w)
    PROVE  ProofOfComplete'
<1>1. TypeInv /\ idx \in IndexStates
  BY DEF StoreInv, TypeInv, TypeOK
<1>2. ASSUME NEW w \in Writers, pc[w] = "commit", InstallGeneration(w)
      PROVE  ProofOfComplete'
  <2>1. CASE cand[w].outcome = "incomplete"
    <3>1. idx.proof = None
      <4> SUFFICES ASSUME idx.proof # None PROVE FALSE
        OBVIOUS
      <4>1. active \in GenIds /\ catalog[active] = [content |-> idx.proof, complete |-> TRUE]
        BY LiveRows DEF ProofOfComplete
      <4>2. Complete(active)
        <5>1. catalog[active] # None
          BY LiveRows DEF ProofOfComplete
        <5>2. catalog[active].complete
          BY <4>1
        <5> QED
          BY <5>1, <5>2 DEF Complete
      <4> QED
        BY <1>2, <2>1, <4>1, <4>2, Installed
    <3> QED
      BY <1>2, <2>1, <3>1, Installed DEF ProofOfComplete
  <2>2. CASE cand[w].outcome # "incomplete"
    <3>1. Binding(cand[w]) = [content |-> cand[w].content, complete |-> TRUE]
      BY <2>2 DEF Binding
    <3>2. cand[w].id # None
      BY <1>2, CandidateIsNew
    <3> QED
      BY <1>2, <2>2, <3>1, <3>2, Installed DEF ProofOfComplete
  <2> QED
    BY <2>1, <2>2
<1>3. ASSUME NEW w \in Writers, Finalizes(w)
      PROVE  ProofOfComplete'
  <2>1. w \in Procs /\ pc[w] \in PastSelect /\ cand[w] \in Candidates
    BY <1>1, <1>3, CandidateTypes DEF Finalizes, Procs, PastSelect
  <2>2. active \in GenIds /\ active # None
    <3>1. active \in GenIds
      BY <1>1, <1>3, <2>1 DEF Finalizes, TypeInv, TypeOK
    <3> QED
      BY <3>1, ConstantsAssumption
  <2>3. catalog[active] = Binding(cand[w])
    BY <1>3, <2>1, <2>2, LiveRows DEF Finalizes, SkipsUnchanged
  <2>4. CASE cand[w].outcome = "incomplete"
    <3>1. idx'.proof = idx.proof
      BY <1>1, <1>3, <2>4 DEF Finalizes, Stamped, IndexStates
    <3> QED
      BY <1>3, <3>1 DEF Finalizes, ProofOfComplete
  <2>5. CASE cand[w].outcome # "incomplete"
    <3>1. idx'.proof = cand[w].content
      BY <1>1, <1>3, <2>5 DEF Finalizes, Stamped, IndexStates
    <3>2. Binding(cand[w]) = [content |-> cand[w].content, complete |-> TRUE]
      BY <2>5 DEF Binding
    <3> QED
      BY <1>3, <2>2, <2>3, <3>1, <3>2 DEF Finalizes, ProofOfComplete
  <2> QED
    BY <2>4, <2>5
<1>4. ASSUME NEW w \in Writers, Skip(w), ~Finalizes(w)
      PROVE  idx' = idx
  BY <1>4 DEF Skip, Finalizes
<1>5. ASSUME NEW w \in Writers, Commit(w), ~InstallGeneration(w)
      PROVE  idx' = idx
  BY <1>5 DEF Commit, RetainLatestAttempt, CommitRefused, store
<1>6. ASSUME idx'.proof \in {idx.proof, None}, Frozen \/ \E w \in Writers : pc[w] = "commit" /\ Retains(w)
      PROVE  ProofOfComplete'
  <2>1. active' = active
    BY <1>6 DEF Frozen, Retains
  <2>2. active # None => catalog'[active] = catalog[active]
    <3>1. CASE Frozen
      BY <3>1, LiveRows DEF Frozen
    <3>2. ASSUME NEW w \in Writers, pc[w] = "commit", Retains(w), active # None
          PROVE  catalog'[active] = catalog[active]
      <4>1. active # cand[w].id /\ active \in GenIds /\ active # attempt
        BY <3>2, CandidateIsNew, LiveRows
      <4> QED
        BY <3>2, <4>1 DEF Retains
    <3> QED
      BY <1>6, <3>1, <3>2
  <2> QED
    BY <1>6, <2>1, <2>2 DEF ProofOfComplete
<1>7. \/ idx'.proof \in {idx.proof, None}
      \/ \E w \in Writers : Skip(w) \/ Commit(w)
  BY <1>1, RouteSteps
<1>8. ASSUME NEW w \in Writers, Commit(w), InstallGeneration(w)
      PROVE  ProofOfComplete'
  BY <1>2, <1>8 DEF Commit
<1>9. CASE \E w \in Writers : Finalizes(w) \/ (Commit(w) /\ InstallGeneration(w))
  BY <1>3, <1>8, <1>9
<1>10. CASE ~\E w \in Writers : Finalizes(w) \/ (Commit(w) /\ InstallGeneration(w))
  <2>1. idx'.proof \in {idx.proof, None}
    BY <1>4, <1>5, <1>7, <1>10
  <2> QED
    BY <1>2, <1>6, <1>10, <2>1, VisibleSteps
<1> QED
  BY <1>9, <1>10

\* Every step but a repair keeps live generations whole.
LEMMA WholeStep ==
    ASSUME StoreInv, WholeViews, [Next]_vars, \A w \in Writers : ~Repair(w)
    PROVE  WholeViews'
<1>1. CASE Frozen
  BY <1>1 DEF Frozen, WholeViews, KeepSet
<1>2. ASSUME NEW w \in Writers, Finalizes(w)
      PROVE  WholeViews'
  BY <1>2 DEF Finalizes, WholeViews, KeepSet
<1>3. ASSUME NEW w \in Writers, pc[w] = "commit", Retains(w)
      PROVE  WholeViews'
  <2>1. KeepSet' = {active, cand[w].id} \ {None}
    BY <1>3 DEF Retains, KeepSet
  <2>2. catalog'[cand[w].id].content = cand[w].content
    BY <1>3 DEF Retains, Binding
  <2>3. active # None => /\ active \in KeepSet /\ active \in GenIds
                         /\ active # attempt /\ active # cand[w].id
    BY <1>3, LiveRows, CandidateIsNew
  <2>4. active # None => catalog'[active] = catalog[active] /\ refs'[active] = refs[active]
    BY <1>3, <2>3 DEF Retains
  <2>5. refs'[cand[w].id] = ObjectsOf[cand[w].content]
    BY <1>3 DEF Retains
  <2>6. \A g \in KeepSet' : refs'[g] = ObjectsOf[catalog'[g].content]
    BY <2>1, <2>2, <2>3, <2>4, <2>5 DEF WholeViews
  <2> QED
    BY <2>6 DEF WholeViews
<1>4. ASSUME NEW w \in Writers, pc[w] = "commit", InstallGeneration(w)
      PROVE  WholeViews'
  <2>1. KeepSet' \subseteq {cand[w].id}
    BY <1>4, Installed DEF KeepSet
  <2>2. /\ catalog'[cand[w].id].content = cand[w].content
        /\ refs'[cand[w].id] = ObjectsOf[cand[w].content]
    <3>1. Binding(cand[w]).content = cand[w].content
      BY DEF Binding
    <3> QED
      BY <1>4, <3>1, Installed
  <2> QED
    BY <2>1, <2>2 DEF WholeViews
<1> QED
  BY <1>1, <1>2, <1>3, <1>4, VisibleSteps

\* The empty store is healthy.
LEMMA HealthyInit == Init => HealthyInv
<1> SUFFICES ASSUME Init PROVE HealthyInv
  OBVIOUS
<1>1. StoreInv
  BY StoreInit
<1>2. ParsedFromExpected
  BY DEF Init, ParsedFromExpected
<1>3. Undamaged /\ SkipsUnchanged
  BY DEF Init, Undamaged, SkipsUnchanged
<1>4. ProofOfComplete /\ WholeViews
  BY DEF Init, ProofOfComplete, WholeViews, KeepSet
<1> QED
  BY <1>1, <1>2, <1>3, <1>4 DEF HealthyInv

\* A healthy store stays healthy while no byte rots, and nobody repairs it.
LEMMA HealthyNext ==
    ASSUME ~AllowRot, HealthyInv, [Next]_vars
    PROVE  HealthyInv' /\ \A w \in Writers : ~Repair(w)
<1>1. StoreInv /\ ParsedFromExpected /\ Undamaged /\ SkipsUnchanged
      /\ ProofOfComplete /\ WholeViews /\ TypeInv
  BY DEF HealthyInv, StoreInv
<1>2. StoreInv' /\ ParsedFromExpected' /\ SkipsUnchanged'
  BY <1>1, StoreNext, ParsedStep, SkipsStep
<1>3. Undamaged' /\ \A w \in Writers : ~Repair(w)
  BY <1>1, UndamagedStep
<1>4. ProofOfComplete' /\ WholeViews'
  BY <1>1, <1>3, ProofStep, WholeStep
<1> QED
  BY <1>2, <1>3, <1>4 DEF HealthyInv

\* Without bit rot the input proof names the input the active generation was
\* built from, whatever two harvests, skips that compared before they locked,
\* incomplete candidates, sweeps and crashes interleave.  With it a repair
\* stamps the proof over older entries: the run RepairProof shows it.
THEOREM ProofSafe ==
    ASSUME ~AllowRot
    PROVE  Spec => []ProofMatchesActive
<1>1. HealthyInv => ProofMatchesActive
  BY DEF HealthyInv, ProofOfComplete, ProofMatchesActive
<1>2. HealthyInv /\ [Next]_vars => HealthyInv'
  BY HealthyNext
<1> QED
  BY <1>1, <1>2, HealthyInit, PTL DEF Spec


\* What a reader of a live generation gets, while nothing is damaged.
LEMMA LiveViews ==
    ASSUME StoreInv, WholeViews, NEW g \in KeepSet
    PROVE  /\ Seen(g) = Authority!Whole(catalog[g].content, catalog[g].complete)
           /\ Seen(g) # None
           /\ Seen(g).complete = catalog[g].complete
           /\ catalog[g].content \in Contents /\ catalog[g].complete \in BOOLEAN
<1>1. /\ g # None /\ catalog[g] # None /\ catalog[g] \in Bindings
      /\ refs[g] \subseteq objs /\ refs[g] \subseteq Objects
  BY LiveRows DEF KeepSet
<1>2. refs[g] \cap objs = ObjectsOf[catalog[g].content]
  BY <1>1 DEF WholeViews
<1>3. catalog[g].content \in Contents /\ catalog[g].complete \in BOOLEAN
  BY <1>1 DEF Bindings
<1>4. Seen(g) = [content |-> catalog[g].content, complete |-> catalog[g].complete,
                 objects |-> ObjectsOf[catalog[g].content]]
  BY <1>1, <1>2 DEF Seen
<1>5. ObjectsOf[catalog[g].content] \subseteq Objects
  BY <1>1, <1>2
<1>6. Seen(g) \in [content : Contents, complete : BOOLEAN, objects : SUBSET Objects]
  BY <1>3, <1>4, <1>5
<1>7. Seen(g) # None
  BY <1>6, NoneAssumption
<1>8. Seen(g).complete = catalog[g].complete
  BY <1>4
<1> QED
  BY <1>3, <1>4, <1>7, <1>8 DEF Authority!Whole

\* The same after the step.
LEMMA LiveViewsNext ==
    ASSUME StoreInv', WholeViews', NEW g \in KeepSet'
    PROVE  Seen(g)' = Authority!Whole(catalog'[g].content, catalog'[g].complete)
<1>1. /\ g # None /\ catalog'[g] # None /\ refs'[g] \subseteq objs'
  <2>1. \A h \in KeepSet' : catalog'[h] # None /\ refs'[h] \subseteq objs'
    BY DEF StoreInv, LiveGenerationsIntact, Intact
  <2> QED
    BY <2>1 DEF KeepSet
<1>2. refs'[g] \cap objs' = ObjectsOf[catalog'[g].content]
  BY <1>1 DEF WholeViews
<1> QED
  BY <1>1, <1>2 DEF Seen, Authority!Whole

\* A generation whose rows stay is read as before.
LEMMA SameViews ==
    ASSUME StoreInv, WholeViews, StoreInv', WholeViews',
           NEW g \in KeepSet, g \in KeepSet', catalog'[g] = catalog[g]
    PROVE  Seen(g)' = Seen(g)
BY LiveViews, LiveViewsNext

\* Every step of a store without bit rot is invisible to a reader, or installs,
\* retains or retires one whole view.
LEMMA AuthorityStep ==
    ASSUME HealthyInv, HealthyInv', [Next]_vars, \A w \in Writers : ~Repair(w)
    PROVE  [Authority!Next]_(Authority!vars)
<1>1. StoreInv /\ WholeViews /\ StoreInv' /\ WholeViews'
  BY DEF HealthyInv
<1>2. PICK a, b : a = active /\ b = attempt
  OBVIOUS
<1>3. /\ active' = a => Seen(active)' = Seen(a)'
      /\ attempt' = b => Seen(attempt)' = Seen(b)'
      /\ Seen(active) = Seen(a) /\ Seen(attempt) = Seen(b)
      /\ attempt' = None => Seen(attempt)' = None
      /\ Seen(None) = None /\ Seen(None)' = None
  BY <1>2 DEF Seen
<1>4. ASSUME active' = a, a # None => catalog'[a] = catalog[a]
      PROVE  Seen(active)' = Seen(active)
  <2>1. CASE a = None
    BY <1>3, <1>4, <2>1
  <2>2. CASE a # None
    <3>1. a \in KeepSet /\ a \in KeepSet'
      BY <1>2, <1>4, <2>2 DEF KeepSet
    <3> QED
      BY <1>1, <1>3, <1>4, <2>2, <3>1, SameViews
  <2> QED
    BY <2>1, <2>2
<1>5. ASSUME Frozen
      PROVE  UNCHANGED Authority!vars
  <2>1. active' = a /\ attempt' = b /\ idx'.capture = idx.capture
    BY <1>2, <1>5 DEF Frozen
  <2>2. Seen(active)' = Seen(active)
    BY <1>2, <1>4, <1>5, <2>1 DEF Frozen, KeepSet
  <2>3. Seen(attempt)' = Seen(attempt)
    <3>1. CASE b = None
      BY <1>3, <2>1, <3>1
    <3>2. CASE b # None
      <4>1. b \in KeepSet /\ b \in KeepSet' /\ catalog'[b] = catalog[b]
        BY <1>2, <1>5, <2>1, <3>2 DEF KeepSet, Frozen
      <4> QED
        BY <1>1, <1>3, <2>1, <4>1, SameViews
    <3> QED
      BY <3>1, <3>2
  <2> QED
    BY <2>1, <2>2, <2>3 DEF Authority!vars
<1>6. ASSUME NEW w \in Writers, Finalizes(w)
      PROVE  Authority!Finalize
  <2>1. active' = a /\ attempt' = None /\ catalog' = catalog
    BY <1>2, <1>6 DEF Finalizes
  <2>2. a \in KeepSet
    <3>1. w \in Procs /\ keep[w] \subseteq GenIds
      BY <1>1 DEF Procs, StoreInv, TypeInv, TypeOK
    <3>2. active \in GenIds
      BY <1>6, <3>1 DEF Finalizes
    <3> QED
      BY <1>2, <3>2, ConstantsAssumption DEF KeepSet
  <2>3. idx'.capture = idx.capture
    BY <1>1, <1>6 DEF Finalizes, Stamped, StoreInv, TypeInv, TypeOK, IndexStates
  <2>4. Seen(active)' = Seen(active) /\ Seen(attempt)' = None
    BY <1>3, <1>4, <2>1
  <2>5. Seen(active) # None
    BY <1>1, <1>3, <2>2, LiveViews
  <2> QED
    BY <2>3, <2>4, <2>5 DEF Authority!Finalize
<1>7. ASSUME NEW w \in Writers, pc[w] = "commit", Retains(w)
      PROVE  [Authority!Next]_(Authority!vars)
  <2>1. PICK i : i = cand[w].id
    OBVIOUS
  <2>2. PICK c : c = cand[w].content
    OBVIOUS
  <2>3. active' = a /\ attempt' = i /\ idx' = idx /\ idx.capture = "full"
    BY <1>2, <1>7, <2>1 DEF Retains, Eligible
  <2>4. i \in KeepSet'
    BY <1>1, <1>7, <2>1, <2>3, CandidateIsNew DEF KeepSet
  <2>5. catalog'[i].content = c /\ catalog'[i].complete = TRUE
    <3>1. Binding(cand[w]) = [content |-> cand[w].content, complete |-> TRUE]
      BY <1>7 DEF Retains, Eligible, Binding
    <3> QED
      BY <1>7, <2>1, <2>2, <3>1 DEF Retains
  <2>6. c \in Contents
    BY <1>1, <1>7, <2>2, CandidateIsNew, CandidateTypes DEF StoreInv
  <2>7. Seen(attempt)' = Authority!Whole(c, TRUE)
    <3>1. Seen(i)' = Authority!Whole(catalog'[i].content, catalog'[i].complete)
      BY <1>1, <2>4, LiveViewsNext
    <3>2. Seen(attempt)' = Seen(i)'
      BY <2>3 DEF Seen
    <3> QED
      BY <2>5, <3>1, <3>2
  <2>8. a # None => catalog'[a] = catalog[a]
    <3> SUFFICES ASSUME a # None PROVE catalog'[a] = catalog[a]
      OBVIOUS
    <3>1. a \in GenIds /\ a # cand[w].id /\ a # attempt
      BY <1>1, <1>2, <1>7, CandidateIsNew, LiveRows
    <3> QED
      BY <1>7, <3>1 DEF Retains
  <2>9. Seen(active)' = Seen(active)
    BY <1>4, <2>3, <2>8
  <2>10. Seen(active) # None
    <3>1. active # None
      <4>1. attempt' # None => active' # None
        BY <1>1 DEF StoreInv, AttemptBesideFullAuthority
      <4> QED
        BY <1>2, <1>1, <1>7, <2>1, <2>3, <4>1, CandidateIsNew
    <3> QED
      BY <1>1, <1>2, <1>3, <3>1, LiveRows, LiveViews
  <2>11. Authority!Retain
    BY <2>3, <2>6, <2>7, <2>9, <2>10 DEF Authority!Retain
  <2> QED
    BY <2>11 DEF Authority!Next
<1>8. ASSUME NEW w \in Writers, pc[w] = "commit", InstallGeneration(w)
      PROVE  Authority!Install
  <2>1. PICK i : i = cand[w].id
    OBVIOUS
  <2>2. PICK c : c = cand[w].content
    OBVIOUS
  <2>3. PICK k \in BOOLEAN : k = (cand[w].outcome # "incomplete")
    OBVIOUS
  <2>4. active' = i /\ attempt' = None /\ i \in KeepSet'
    BY <1>1, <1>8, <2>1, Installed, CandidateIsNew DEF KeepSet
  <2>5. catalog'[i].content = c /\ catalog'[i].complete = k
    <3>1. Binding(cand[w]).content = c /\ Binding(cand[w]).complete = k
      BY <2>2, <2>3 DEF Binding
    <3>2. catalog'[i] = Binding(cand[w])
      BY <1>1, <1>8, <2>1, Installed
    <3> QED
      BY <3>1, <3>2
  <2>6. c \in Contents
    BY <1>1, <1>8, <2>2, CandidateIsNew, CandidateTypes DEF StoreInv
  <2>7. Seen(active)' = Authority!Whole(c, k)
    <3>1. Seen(i)' = Authority!Whole(catalog'[i].content, catalog'[i].complete)
      BY <1>1, <2>4, LiveViewsNext
    <3>2. Seen(active)' = Seen(i)'
      BY <2>4 DEF Seen
    <3> QED
      BY <2>5, <3>1, <3>2
  <2>8. Seen(attempt)' = None
    BY <1>3, <2>4
  <2>9. k \/ Seen(active) = None \/ ~Seen(active).complete
    <3> SUFFICES ASSUME ~k, a # None PROVE ~Seen(active).complete
      BY <1>3
    <3>1. a \in GenIds /\ a \in KeepSet /\ catalog[a] # None
      BY <1>1, <1>2, LiveRows
    <3>2. ~Complete(a)
      <4>1. cand[w].outcome = "incomplete"
        BY <2>3
      <4> QED
        BY <1>1, <1>8, <3>1, <4>1, Installed
    <3>3. ~catalog[a].complete
      BY <3>1, <3>2 DEF Complete
    <3>4. Seen(active).complete = catalog[a].complete
      BY <1>1, <1>3, <3>1, LiveViews
    <3> QED
      BY <3>3, <3>4
  <2>10. idx'.capture \in IF k THEN {"full", "preview"} ELSE {"preview"}
    <3>1. idx'.capture = IF cand[w].outcome = "full" THEN "full" ELSE "preview"
      BY <1>1, <1>8, Installed
    <3> QED
      BY <2>3, <3>1
  <2> QED
    BY <2>3, <2>6, <2>7, <2>8, <2>9, <2>10 DEF Authority!Install
<1> QED
  BY <1>1, <1>5, <1>6, <1>7, <1>8, VisibleSteps DEF Authority!Next

\* Without bit rot the store implements the registers a reader is promised:
\* staging, sweeping, reclaiming, refusals, crashes and interleaved harvests
\* are invisible, and what becomes visible is one whole view at a time.
THEOREM AuthorityRefined ==
    ASSUME ~AllowRot
    PROVE  Spec => AuthoritySpec
<1>1. Init => Authority!Init
  BY DEF Init, Authority!Init, Seen
<1>2. HealthyInv /\ [Next]_vars => HealthyInv' /\ [Authority!Next]_(Authority!vars)
  BY HealthyNext, AuthorityStep
<1> QED
  BY <1>1, <1>2, HealthyInit, PTL DEF Spec, AuthoritySpec, Authority!Spec
=============================================================================
