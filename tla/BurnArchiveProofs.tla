------------------------- MODULE BurnArchiveProofs -------------------------
(***************************************************************************)
(* The burn pipeline implements Archive, for every value of the constants  *)
(* under which the staging share is not edited while a disc is being       *)
(* burned.  The safety invariant SInv carries the argument: it says that   *)
(* what is about to be deleted from staging is what was just catalogued.   *)
(* And what it leaves behind, at any time, is an archive that Retrieval    *)
(* may start from: its ArchiveAssumption is what the burns establish.      *)
(***************************************************************************)
EXTENDS BurnSafetyProofs, ParityProofs, BurnArchive

RealCopies == {<<r.path, r.hash>> : r \in {x \in files : ~disks[x.disk].dry}}

(* In a truthful catalog every row of a real disc is a safe copy.          *)
LEMMA SafeIsReal ==
    CatalogTruthful => SafeCopies = RealCopies
  <1> SUFFICES ASSUME CatalogTruthful PROVE SafeCopies = RealCopies
    OBVIOUS
  <1>1. {x \in files : /\ ~disks[x.disk].dry
                       /\ <<x.path, x.hash>> \in disks[x.disk].iso.files
                       /\ disks[x.disk].iso \in media}
          = {x \in files : ~disks[x.disk].dry}
    BY DEF CatalogTruthful, OnMedium
  <1> QED
    BY <1>1 DEF SafeCopies, RealCopies

(* The archived copies do not change while no row they rest on does.       *)
LEMMA CopiesFrame ==
    ASSUME SInv, SInv', files' = files,
           \A d \in DOMAIN disks : d \in DOMAIN disks' /\ disks'[d] = disks[d]
    PROVE  SafeCopies' = SafeCopies
  <1>1. (CatalogTruthful => SafeCopies = RealCopies)'
    BY SafeIsReal, PTL
  <1>2. SafeCopies = RealCopies /\ SafeCopies' = RealCopies'
    BY <1>1, SafeIsReal DEF SInv
  <1>3. \A x \in files : disks'[x.disk] = disks[x.disk]
    BY DEF SInv, CatalogTruthful
  <1>4. {x \in files : ~disks'[x.disk].dry} = {x \in files : ~disks[x.disk].dry}
    BY <1>3
  <1> QED
    BY <1>2, <1>4 DEF RealCopies

(* A step that keeps the job claimed, with its options, keeps the disc.    *)
LEMMA DiscFrame ==
    ASSUME job \in Job, job.state \in Claimed, job' = job \/ \E s \in Claimed : SetState(s)
    PROVE  DiscInProgress' = DiscInProgress
  <1>1. job'.state \in Claimed /\ job'.opts = job.opts
    BY DEF SetState, Job
  <1> QED
    BY <1>1 DEF DiscInProgress, IsDryRun

(* While a job is claimed a disc is in progress, otherwise none is.        *)
LEMMA DiscFacts ==
    /\ job.state \in Claimed => DiscInProgress = (IF IsDryRun THEN "dry" ELSE "real")
    /\ job.state \notin Claimed => DiscInProgress = "none"
  BY DEF DiscInProgress

(* A step inside runDisc that the abstract archive does not see.           *)
LEMMA RunStutters ==
    ASSUME SInv, SInv', NEW c \in Caller, run[c].step \in Step,
           job' = job \/ \E s \in Claimed : SetState(s),
           files' = files, staging' = staging,
           \A d \in DOMAIN disks : d \in DOMAIN disks' /\ disks'[d] = disks[d]
    PROVE  UNCHANGED A!archiveVars
  <1>1. job \in Job /\ job.state \in Claimed
    BY RunnerFacts DEF SInv
  <1> QED
    BY <1>1, CopiesFrame, DiscFrame DEF A!archiveVars

(* runDisc returned an error: the disc is given up.                        *)
LEMMA FailEnds ==
    ASSUME SInv, SInv', NEW c \in Caller, run[c].step \in Step, Fail(c),
           UNCHANGED <<files, disks, staging>>
    PROVE  A!EndDisc
  <1>1. job \in Job /\ job.state \in Claimed
    BY RunnerFacts DEF SInv
  <1>2. job'.state \notin Claimed
    BY <1>1 DEF Fail, SetState, Job, Claimed
  <1>3. DiscInProgress # "none" /\ DiscInProgress' = "none"
    BY <1>1, <1>2 DEF DiscInProgress
  <1> QED
    BY <1>3, CopiesFrame DEF A!EndDisc

-----------------------------------------------------------------------------
(* ContinueNextDisc's claim begins a disc.                                 *)
LEMMA ClaimBegins ==
    ASSUME SInv, SInv', NEW c \in Caller, Claim(c)
    PROVE  A!BeginDisc
  <1>1. job \in Job /\ job.state \notin Claimed
    BY DEF SInv, TInv, TypeOK, PlannerTypeOK, NoJob, Claim, Claimed
  <1>2. job'.state \in Claimed
    BY <1>1 DEF Claim, SetState, Job, Claimed
  <1>3. DiscInProgress = "none" /\ DiscInProgress' \in {"real", "dry"}
    BY <1>1, <1>2 DEF DiscInProgress
  <1>4. SafeCopies' = SafeCopies
    BY CopiesFrame DEF Claim, catalogVars
  <1> QED
    BY <1>3, <1>4 DEF A!BeginDisc, Claim

(* From clearing the spool to the disk row nothing is archived: packing,   *)
(* parity, image, burning and verification stutter, or end the disc.       *)
LEMMA PrepareRefines ==
    ASSUME SInv, SInv', NEW c \in Caller,
           \/ ClearStale(c) \/ PackData(c) \/ PackParity(c) \/ CreateParity(c)
           \/ BuildISO(c) \/ WriteDryRun(c) \/ WriteDisc(c) \/ VerifyBurn(c)
           \/ InsertDiskRow(c) \/ HashStaged(c) \/ ConsumeMetadata(c)
    PROVE  UNCHANGED A!archiveVars \/ A!EndDisc
  <1>1. run[c].step \in Step
    BY DEF ClearStale, PackData, PackParity, CreateParity, BuildISO, WriteDryRun, WriteDisc,
           VerifyBurn, InsertDiskRow, HashStaged, ConsumeMetadata, Step
  <1>2. files' = files /\ staging' = staging
    BY DEF ClearStale, PackData, PackParity, CreateParity, BuildISO, WriteDryRun, WriteDisc,
           VerifyBurn, InsertDiskRow, HashStaged, ConsumeMetadata, catalogVars, plannerVars
  <1>3. CASE Fail(c) /\ disks' = disks
    BY <1>1, <1>2, <1>3, FailEnds
  <1>4. CASE ~(Fail(c) /\ disks' = disks)
    <2>1. job' = job \/ \E s \in Claimed : SetState(s)
      BY <1>4 DEF ClearStale, PackData, PackParity, CreateParity, BuildISO, WriteDryRun,
             WriteDisc, VerifyBurn, InsertDiskRow, HashStaged, ConsumeMetadata, Claimed,
             catalogVars, plannerVars
    <2>2. \A d \in DOMAIN disks : d \in DOMAIN disks' /\ disks'[d] = disks[d]
      BY DEF ClearStale, PackData, PackParity, CreateParity, BuildISO, WriteDryRun,
             WriteDisc, VerifyBurn, InsertDiskRow, InsertDisk, Extend, HashStaged,
             ConsumeMetadata, catalogVars
    <2> QED
      BY <1>1, <1>2, <2>1, <2>2, RunStutters
  <1> QED
    BY <1>3, <1>4

(* Inserting the file row of a real disc archives the file; that of a dry  *)
(* run archives nothing.                                                   *)
LEMMA InsertFileRowRefines ==
    ASSUME SInv, SInv', NEW c \in Caller, InsertFileRow(c)
    PROVE  UNCHANGED A!archiveVars \/ \E p \in Path : A!ArchiveFile(p)
  <1>1. /\ run[c].step \in Step /\ run[c] \in Run /\ run[c] # Idle /\ Faithful(c)
        /\ job \in Job /\ job.state \in Claimed
    BY RunnerFaithful, RunnerFacts DEF InsertFileRow, Step, SInv
  <1> DEFINE row == [disk |-> ID(c), path |-> run[c].file, hash |-> run[c].hash,
                     tagged |-> run[c].tagged]
             p == run[c].file
  <1>2. files' = files \cup {row} /\ UNCHANGED <<disks, job, staging>>
    BY DEF InsertFileRow, InsertFile, plannerVars
  <1>3. row.disk = ID(c) /\ row.path = p /\ row.hash = run[c].hash
    OBVIOUS
  <1> HIDE DEF row
  <1>4. /\ run[c].hash = staging[p] /\ p \in Path /\ run[c].hash \in Content
        /\ disks[ID(c)].dry <=> IsDryRun
    BY <1>1 DEF InsertFileRow, InsertFile, Faithful, Committing, OwnRow, SInv, TInv, RunShape
  <1>5. (CatalogTruthful => SafeCopies = RealCopies)'
    BY SafeIsReal, PTL
  <1>6. SafeCopies = RealCopies /\ SafeCopies' = RealCopies'
    BY <1>5, SafeIsReal DEF SInv
  <1>7. DiscInProgress' = DiscInProgress
    BY <1>1, <1>2, DiscFrame
  <1>8. CASE IsDryRun
    <2>1. {x \in files' : ~disks'[x.disk].dry} = {x \in files : ~disks[x.disk].dry}
      BY <1>2, <1>3, <1>4, <1>8
    <2> QED
      BY <1>2, <1>6, <1>7, <2>1 DEF RealCopies, A!archiveVars
  <1>9. CASE ~IsDryRun
    <2>1. {x \in files' : ~disks'[x.disk].dry} = {x \in files : ~disks[x.disk].dry} \cup {row}
      BY <1>2, <1>3, <1>4, <1>9
    <2>2. RealCopies' = RealCopies \cup {<<p, staging[p]>>}
      BY <1>3, <1>4, <2>1 DEF RealCopies
    <2>3. DiscInProgress = "real"
      BY <1>1, <1>9, DiscFacts
    <2>4. A!ArchiveFile(p)
      BY <1>2, <1>4, <1>6, <1>7, <2>2, <2>3, AbsentAssumption DEF A!ArchiveFile
    <2> QED
      BY <1>4, <2>4
  <1> QED
    BY <1>8, <1>9

(* os.Remove in commitDisc: what is removed is archived, or a dry run's.   *)
LEMMA RemoveStagedRefines ==
    ASSUME SInv, SInv', NEW c \in Caller, RemoveStaged(c)
    PROVE  A!EndDisc \/ \E p \in Path : A!RemoveFile(p) \/ A!DiscardFile(p)
  <1>1. /\ run[c].step \in Step /\ run[c] \in Run /\ run[c] # Idle /\ Faithful(c)
        /\ job \in Job /\ job.state \in Claimed
    BY RunnerFaithful, RunnerFacts DEF RemoveStaged, Step, SInv
  <1> DEFINE p == run[c].file
  <1>2. CASE p \in Staged
    <2>1. p \in Path
      BY <1>1 DEF RemoveStaged, SInv, TInv, RunShape
    <2>2. staging' = [staging EXCEPT ![p] = Absent] /\ UNCHANGED <<job, files, disks>>
      BY <1>2 DEF RemoveStaged, catalogVars
    <2>3. DiscInProgress' = DiscInProgress /\ SafeCopies' = SafeCopies
      BY <1>1, <2>2, DiscFrame, CopiesFrame
    <2>4. CASE IsDryRun
      <3>1. DiscInProgress = "dry"
        BY <1>1, <2>4, DiscFacts
      <3>2. A!DiscardFile(p)
        BY <2>2, <2>3, <3>1 DEF A!DiscardFile
      <3> QED
        BY <2>1, <3>2
    <2>5. CASE ~IsDryRun
      <3>1. DiscInProgress = "real"
        BY <1>1, <2>5, DiscFacts
      <3>2. PICK r \in files : r.disk = ID(c) /\ r.path = p /\ r.hash = staging[p]
        BY <1>1, <2>5 DEF RemoveStaged, Faithful
      <3>3. ~disks[r.disk].dry
        BY <1>1, <2>5, <3>2 DEF RemoveStaged, Faithful, Committing, OwnRow
      <3>4. <<p, staging[p]>> \in SafeCopies
        BY <3>2, <3>3, SafeIsReal DEF SInv, RealCopies
      <3>5. A!RemoveFile(p)
        BY <2>2, <2>3, <3>1, <3>4 DEF A!RemoveFile
      <3> QED
        BY <2>1, <3>5
    <2> QED
      BY <2>4, <2>5
  <1>3. CASE p \notin Staged
    BY <1>1, <1>3, FailEnds DEF RemoveStaged, catalogVars
  <1> QED
    BY <1>2, <1>3

(* The end of ContinueNextDisc, and an error or a fault in between, end    *)
(* the disc.                                                               *)
LEMMA ReturnEnds ==
    ASSUME SInv, SInv', NEW c \in Caller,
           FinishDisc(c) \/ StepFails(c) \/ DryRunCopyFails(c)
    PROVE  A!EndDisc
  <1>1. run[c].step \in Step
    BY ModeAssumption DEF FinishDisc, StepFails, DryRunCopyFails, Step
  <1>2. CASE StepFails(c) \/ DryRunCopyFails(c)
    BY <1>1, <1>2, FailEnds DEF StepFails, DryRunCopyFails, catalogVars
  <1>3. CASE FinishDisc(c)
    <2>1. job \in Job /\ job.state \in Claimed
      BY <1>1, RunnerFacts DEF SInv
    <2>2. job'.state \in {"DONE", "AWAITING_DISC"}
      BY <1>3, <2>1 DEF FinishDisc, Job
    <2>3. DiscInProgress # "none" /\ DiscInProgress' = "none"
      BY <2>1, <2>2 DEF DiscInProgress, Claimed
    <2>4. SafeCopies' = SafeCopies /\ staging' = staging
      BY <1>3, CopiesFrame DEF FinishDisc, catalogVars
    <2> QED
      BY <2>3, <2>4 DEF A!EndDisc
  <1> QED
    BY <1>2, <1>3

(* With the job idle before and after, a step that keeps staging and the   *)
(* rows is not seen.                                                       *)
LEMMA IdleStutters ==
    ASSUME SInv, SInv', job.state \notin Claimed, job'.state \notin Claimed,
           UNCHANGED <<files, disks, staging>>
    PROVE  UNCHANGED A!archiveVars
  <1>1. DiscInProgress = "none" /\ DiscInProgress' = "none"
    BY DEF DiscInProgress
  <1> QED
    BY <1>1, CopiesFrame DEF A!archiveVars

(* Start, planJob and Retry happen while no disc is in progress.           *)
LEMMA PlanningStutters ==
    ASSUME SInv, SInv',
           PlanStep \/ PlanningFails \/ Retry \/ \E opts \in Options : Start(opts)
    PROVE  UNCHANGED A!archiveVars
  <1>1. UNCHANGED <<files, disks, staging>>
    BY DEF PlanStep, PackFile, PackLast, PlanDisc, PlansComplete, PlanGroup, PlanParity,
           GroupsComplete, FinishStart, PlanningFails, PlanFails, Retry, Start, BeginStart,
           catalogVars
  <1>2. job.state \notin Claimed
    BY DEF PlanStep, PackFile, PackLast, PlanDisc, PlansComplete, PlanGroup, PlanParity,
           GroupsComplete, FinishStart, PlanningFails, PlanFails, Retry, Start, BeginStart,
           SInv, TInv, JobShape, Claimed
  <1>3. job'.state \notin Claimed
    <2>1. CASE Retry
      <3>1. job \in Job
        BY <2>1 DEF Retry, SInv, TInv, TypeOK, PlannerTypeOK, NoJob
      <3> QED
        BY <2>1, <3>1 DEF Retry, SetState, Job, Claimed
    <2>2. CASE FinishStart
      BY <2>2 DEF FinishStart, Claimed
    <2>3. CASE ~Retry /\ ~FinishStart
      BY <1>2, <2>3 DEF PlanStep, PackFile, PackLast, PlanDisc, PlansComplete, PlanGroup,
             PlanParity, GroupsComplete, PlanningFails, PlanFails, Start, BeginStart
    <2> QED
      BY <2>1, <2>2, <2>3
  <1> QED
    BY <1>1, <1>2, <1>3, IdleStutters

(* A crash ends the disc in progress, if there is one.                     *)
LEMMA CrashRefines ==
    ASSUME SInv, SInv', Crash
    PROVE  UNCHANGED A!archiveVars \/ A!EndDisc
  <1>1. job'.state \notin Claimed /\ UNCHANGED <<files, disks, staging>>
    BY DEF Crash, NoJob, Claimed, catalogVars
  <1>2. CASE job.state \notin Claimed
    BY <1>1, <1>2, IdleStutters
  <1>3. CASE job.state \in Claimed
    <2>1. DiscInProgress # "none" /\ DiscInProgress' = "none"
      BY <1>1, <1>3 DEF DiscInProgress
    <2>2. SafeCopies' = SafeCopies
      BY <1>1, CopiesFrame
    <2> QED
      BY <1>1, <2>1, <2>2 DEF A!EndDisc
  <1> QED
    BY <1>2, <1>3

(* The share is edited while no disc is in progress.                       *)
LEMMA EditRefines ==
    ASSUME SInv, SInv', Edit, ~EditsDuringBurn
    PROVE  A!UserEdits
  <1>1. job.state \notin Claimed /\ UNCHANGED <<job, files, disks>>
    BY DEF Edit, SInv, TInv, OneRunner, catalogVars
  <1>2. DiscInProgress = "none" /\ DiscInProgress' = "none"
    BY <1>1 DEF DiscInProgress
  <1>3. SafeCopies' = SafeCopies
    BY <1>1, CopiesFrame
  <1>4. staging' \in [Path -> Content \cup {Absent}]
    BY DEF SInv, TInv, TypeOK, PlannerTypeOK
  <1> QED
    BY <1>2, <1>3, <1>4 DEF A!UserEdits

-----------------------------------------------------------------------------
(* An initial state of the pipeline is an initial state of the archive.    *)
LEMMA ArchiveInit == Init => A!Init
  <1> SUFFICES ASSUME Init PROVE A!Init
    OBVIOUS
  <1>1. SafeCopies = {}
    BY DEF Init, CatalogInit, SafeCopies
  <1>2. DiscInProgress = "none"
    BY DEF Init, PlannerInit, NoJob, DiscInProgress, Claimed
  <1>3. staging \in [Path -> Content \cup {Absent}]
    BY StagingAssumption DEF Init
  <1> QED
    BY <1>1, <1>2, <1>3 DEF A!Init

(* Every step of the pipeline is a step of the archive or a stutter.       *)
LEMMA ArchiveNext ==
    ASSUME ~EditsDuringBurn
    PROVE  SInv /\ SInv' /\ [Next]_vars => [A!Next]_(A!archiveVars)
  <1> SUFFICES ASSUME SInv, SInv', [Next]_vars PROVE A!Next \/ UNCHANGED A!archiveVars
    OBVIOUS
  <1>1. CASE PlanStep \/ PlanningFails \/ Retry \/ \E opts \in Options : Start(opts)
    BY <1>1, PlanningStutters
  <1>2. ASSUME NEW c \in Caller, Claim(c) PROVE A!Next
    BY <1>2, ClaimBegins DEF A!Next
  <1>3. ASSUME NEW c \in Caller, RunStep(c) PROVE A!Next \/ UNCHANGED A!archiveVars
    BY <1>3, PrepareRefines, InsertFileRowRefines, RemoveStagedRefines, ReturnEnds
       DEF RunStep, A!Next
  <1>4. ASSUME NEW c \in Caller, DryRunCopyFails(c) \/ StepFails(c) PROVE A!Next
    BY <1>4, ReturnEnds DEF A!Next
  <1>5. CASE Crash
    BY <1>5, CrashRefines DEF A!Next
  <1>6. CASE Edit
    BY <1>6, EditRefines DEF A!Next
  <1>7. ASSUME NEW p \in Path, ApplyMetadata(p) PROVE UNCHANGED A!archiveVars
    <2>1. UNCHANGED <<files, disks, staging, job>>
      BY <1>7 DEF ApplyMetadata, plannerVars
    <2>2. SafeCopies' = SafeCopies
      BY <2>1, CopiesFrame
    <2> QED
      BY <2>1, <2>2 DEF A!archiveVars, DiscInProgress, IsDryRun
  <1>8. CASE UNCHANGED vars
    <2>1. UNCHANGED <<files, disks, staging, job>>
      BY <1>8 DEF vars, catalogVars, plannerVars
    <2>2. SafeCopies' = SafeCopies
      BY <2>1, CopiesFrame
    <2> QED
      BY <2>1, <2>2 DEF A!archiveVars, DiscInProgress, IsDryRun
  <1> QED
    BY <1>1, <1>2, <1>3, <1>4, <1>5, <1>6, <1>7, <1>8 DEF Next, Put, Delete, Move

(* While the share is not edited during a burn, Start, ContinueNextDisc,   *)
(* runDisc, commitDisc and Retry, with faults and crashes anywhere,        *)
(* implement the archive: a file leaves staging only after exactly what is *)
(* staged became a safe copy, and no safe copy is lost again.              *)
THEOREM PipelineImplementsArchive ==
    ASSUME ~EditsDuringBurn
    PROVE  Spec => ImplementsArchive
  <1>1. Init => A!Init
    BY ArchiveInit
  <1>2. SInv /\ SInv' /\ [Next]_vars => [A!Next]_(A!archiveVars)
    BY ArchiveNext
  <1>3. Spec => []SInv
    BY SafetyInvariant
  <1> QED
    BY <1>1, <1>2, <1>3, PTL DEF Spec, ImplementsArchive, A!Spec

-----------------------------------------------------------------------------
Catalogued == [disks |-> disks, files |-> files, groups |-> groups]

(* What the burns have left in the catalog is at every moment, in the      *)
(* middle of a commit and after any crash, an archive a retrieval can rely *)
(* on: every file row is in the one image of its disc, every parity disc   *)
(* is the XOR of its group's data discs as they are catalogued.  This is   *)
(* what Retrieval assumes of the archives it starts from.                  *)
THEOREM PipelineLeavesTruthfulArchive ==
    ASSUME ~EditsDuringBurn
    PROVE  Spec => []Truthful(Catalogued)
  <1>1. TInv /\ SInv /\ XInv /\ MadeInv => Truthful(Catalogued)
    <2> SUFFICES ASSUME TInv, SInv, XInv, MadeInv PROVE Truthful(Catalogued)
      OBVIOUS
    <2>1. CatalogTypeOK
      BY DEF TInv, TypeOK
    <2>2. \A r \in files : /\ r.disk \in DOMAIN disks
                           /\ <<r.path, r.hash>> \in disks[r.disk].iso.files
      BY DEF SInv, CatalogTruthful
    <2>3. ASSUME NEW d \in DOMAIN disks
          PROVE  /\ disks[d].iso.id = d
                 /\ OneContentPerPath(disks[d].iso.files)
                 /\ disks[d].role = "data" => disks[d].iso.xor = {}
      BY DEF MadeInv, WellMade
    <2>4. ASSUME NEW d \in DOMAIN disks, disks[d].role = "parity"
          PROVE  disks[d].iso.xor = {[id |-> e, files |-> disks[e].iso.files] :
                                       e \in GroupRows(disks[d].group)}
      BY <2>4 DEF XInv, ParityCovers
    <2>5. \A g : RowsOf(Catalogued, g) = GroupRows(g)
      BY DEF RowsOf, GroupRows, Catalogued
    <2>6. /\ Catalogued.disks = disks /\ Catalogued.files = files
          /\ Catalogued.groups = groups
      BY DEF Catalogued
    <2> HIDE DEF Catalogued
    <2>7. /\ DOMAIN disks \subseteq DiskID /\ IsFiniteSet(DOMAIN disks)
          /\ disks \in [DOMAIN disks -> DiskRow]
          /\ files \subseteq FileRow /\ groups \in Seq(Nat)
      BY <2>1 DEF CatalogTypeOK
    <2>8. ASSUME NEW d \in DOMAIN disks, disks[d].role = "parity"
          PROVE  disks[d].iso.xor = {[id |-> e, files |-> Catalogued.disks[e].iso.files] :
                                       e \in RowsOf(Catalogued, disks[d].group)}
      BY <2>4, <2>5, <2>6, <2>8
    <2> QED
      BY <2>2, <2>3, <2>6, <2>7, <2>8 DEF Truthful
  <1>2. Spec => []SInv
    BY SafetyInvariant
  <1> QED
    BY <1>1, <1>2, ControlInvariant, ParityInvariant, MadeInvariant, PTL
=============================================================================
