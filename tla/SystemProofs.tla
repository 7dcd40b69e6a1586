---------------------------- MODULE SystemProofs ----------------------------
(***************************************************************************)
(* The running program, for every value of the constants: what the burn    *)
(* pipeline and the retrieval keep true by themselves they keep true over  *)
(* one catalog, one dry-run directory and one shelf, beside each other and *)
(* beside the dry-run page.                                                *)
(*                                                                         *)
(* BP and RP are the components' proof modules, instantiated as System     *)
(* instantiates the components: every lemma proved there is available here *)
(* as BP!... and RP!..., once the assumptions of the component are shown.  *)
(***************************************************************************)
EXTENDS System, TLAPS, FiniteSetTheorems

BP == INSTANCE BurnSafetyProofs WITH
        job <- burnJob, Caller <- BurnCaller, FaultSteps <- BurnFaults

RP == INSTANCE RetrievalProofs WITH
        job <- retrieveJob, Caller <- RetrieveCaller, FaultSteps <- RetrieveFaults,
        Archives <- {[disks |-> [d \in {} |-> 0], files |-> {}, groups |-> <<>>]}

-----------------------------------------------------------------------------
(* The components' assumptions, and that the two instances of a component  *)
(* say the same.                                                           *)
LEMMA BurnAssumptions ==
    /\ BP!PathAssumption /\ BP!AbsentAssumption /\ BP!SizeAssumption
    /\ BP!BoundAssumption /\ BP!IntLimitAssumption /\ BP!OptionsAssumption
    /\ BP!CorruptAssumption /\ BP!StagingAssumption /\ BP!ModeAssumption
  BY ComponentAssumption, Zenon
     DEF B!DataImage, B!DiskID, B!FileCopy, B!Image, B!Kind, B!Step, BP!DataImage,
         BP!DiskID, BP!FileCopy, BP!Image, BP!Kind, BP!Step, B!PathAssumption,
         BP!PathAssumption, B!AbsentAssumption, BP!AbsentAssumption,
         B!SizeAssumption, BP!SizeAssumption, B!BoundAssumption,
         BP!BoundAssumption, B!IntLimitAssumption, BP!IntLimitAssumption,
         B!OptionsAssumption, BP!OptionsAssumption, B!CorruptAssumption,
         BP!CorruptAssumption, B!StagingAssumption, BP!StagingAssumption,
         B!ModeAssumption, BP!ModeAssumption, B!IsFiniteSet, BP!IsFiniteSet

LEMMA RetrieveAssumptions ==
    /\ RP!PathAssumption /\ RP!ArchiveAssumption /\ RP!CorruptAssumption
    /\ RP!PartialAssumption /\ RP!RetrievalAssumption
  <1>1. /\ RP!PathAssumption /\ RP!CorruptAssumption
        /\ RP!PartialAssumption /\ RP!RetrievalAssumption
    BY ComponentAssumption, Zenon
       DEF B!PathAssumption, RP!PathAssumption, B!CorruptAssumption, RP!CorruptAssumption,
           B!Image, RP!Image, B!DataImage, RP!DataImage, B!FileCopy, RP!FileCopy, B!DiskID,
           R!PartialAssumption, RP!PartialAssumption, R!RetrievalAssumption,
           RP!RetrievalAssumption, R!Step, RP!Step, R!DiskID, RP!DiskID, B!IsFiniteSet,
           RP!IsFiniteSet
  <1>2. RP!IsFiniteSet({})
    BY FS_EmptySet DEF IsFiniteSet, RP!IsFiniteSet
  <1>3. RP!Truthful([disks |-> [d \in {} |-> 0], files |-> {}, groups |-> <<>>])
    BY <1>2 DEF RP!Truthful
  <1>4. RP!ArchiveAssumption
    BY <1>3 DEF RP!ArchiveAssumption
  <1> QED
    BY <1>1, <1>4

LEMMA SameBurnInit == B!Init => BP!Init
  BY Zenon
     DEF B!CatalogInit, B!Idle, B!Init, B!NoJob, B!NoPlanning, B!PlannerInit,
         BP!CatalogInit, BP!Idle, BP!Init, BP!NoJob, BP!NoPlanning, BP!PlannerInit

LEMMA SameBurnNext == B!Next => BP!Next
  BY Zenon
     DEF B!AddFile, B!ApplyMetadata, B!AtBound, B!BeginStart, B!BucketPaths,
         B!BuildISO, B!Cardinality, B!Claim, B!ClearStale, B!CloseBucket,
         B!ConsumeMetadata, B!ConsumeStagedMetadata, B!Count, B!Crash,
         B!CreateParity, B!Delete, B!DiskRowOf, B!DryRunCopyFails, B!Edit,
         B!EffectiveGroupSize, B!EmptyBucket, B!Extend, B!Fail, B!Fault,
         B!FinishDisc, B!FinishStart, B!Goto, B!GroupData, B!GroupEnd,
         B!GroupsComplete, B!HashStaged, B!ID, B!Idle, B!InsertDisk,
         B!InsertDiskConflicts, B!InsertDiskGroup, B!InsertDiskRow, B!InsertFile,
         B!InsertFileRow, B!IsDryRun, B!IsFirst, B!Move, B!NewID, B!Next,
         B!NextDiskID, B!NoGroup, B!NoImage, B!NoJob, B!NoPlanning, B!PackData,
         B!PackFile, B!PackLast, B!PackParity, B!Packable, B!ParitySlot,
         B!PlanDisc, B!PlanFails, B!PlanGroup, B!PlanParity, B!PlanStep,
         B!PlanningFails, B!PlansComplete, B!Put, B!Quotient, B!RemoveStaged,
         B!Retry, B!RunStep, B!ScanStaging, B!SetState, B!Staged, B!StaleISOs,
         B!Start, B!StepFails, B!Target, B!TargetDataSize, B!UpsertStagedMetadata,
         B!VerifyBurn, B!Without, B!Wrap, B!WriteDisc, B!WriteDryRun,
         B!catalogVars, B!pipelineVars, B!plannerVars, BP!AddFile,
         BP!ApplyMetadata, BP!AtBound, BP!BeginStart, BP!BucketPaths, BP!BuildISO,
         BP!Cardinality, BP!Claim, BP!ClearStale, BP!CloseBucket,
         BP!ConsumeMetadata, BP!ConsumeStagedMetadata, BP!Count, BP!Crash,
         BP!CreateParity, BP!Delete, BP!DiskRowOf, BP!DryRunCopyFails, BP!Edit,
         BP!EffectiveGroupSize, BP!EmptyBucket, BP!Extend, BP!Fail, BP!Fault,
         BP!FinishDisc, BP!FinishStart, BP!Goto, BP!GroupData, BP!GroupEnd,
         BP!GroupsComplete, BP!HashStaged, BP!ID, BP!Idle, BP!InsertDisk,
         BP!InsertDiskConflicts, BP!InsertDiskGroup, BP!InsertDiskRow,
         BP!InsertFile, BP!InsertFileRow, BP!IsDryRun, BP!IsFirst, BP!Move,
         BP!NewID, BP!Next, BP!NextDiskID, BP!NoGroup, BP!NoImage, BP!NoJob,
         BP!NoPlanning, BP!PackData, BP!PackFile, BP!PackLast, BP!PackParity,
         BP!Packable, BP!ParitySlot, BP!PlanDisc, BP!PlanFails, BP!PlanGroup,
         BP!PlanParity, BP!PlanStep, BP!PlanningFails, BP!PlansComplete, BP!Put,
         BP!Quotient, BP!RemoveStaged, BP!Retry, BP!RunStep, BP!ScanStaging,
         BP!SetState, BP!Staged, BP!StaleISOs, BP!Start, BP!StepFails, BP!Target,
         BP!TargetDataSize, BP!UpsertStagedMetadata, BP!VerifyBurn, BP!Without,
         BP!Wrap, BP!WriteDisc, BP!WriteDryRun, BP!catalogVars, BP!pipelineVars,
         BP!plannerVars

LEMMA SameBurnType == BP!TypeOK => B!TypeOK
  BY Zenon
     DEF B!Bucket, B!CatalogTypeOK, B!DataImage, B!DiscPlan, B!DiskID, B!DiskRow,
         B!FileCopy, B!FileInfo, B!FileRow, B!Idle, B!Image, B!IsFiniteSet, B!Job,
         B!NoJob, B!NoPlanning, B!Phase, B!PlannerTypeOK, B!Planning, B!Removal,
         B!Role, B!Run, B!State, B!Step, B!TypeOK, BP!Bucket, BP!CatalogTypeOK,
         BP!DataImage, BP!DiscPlan, BP!DiskID, BP!DiskRow, BP!FileCopy,
         BP!FileInfo, BP!FileRow, BP!Idle, BP!Image, BP!IsFiniteSet, BP!Job,
         BP!NoJob, BP!NoPlanning, BP!Phase, BP!PlannerTypeOK, BP!Planning,
         BP!Removal, BP!Role, BP!Run, BP!State, BP!Step, BP!TypeOK

LEMMA SameBurnSafety ==
    /\ BP!NothingLost => B!NothingLost
    /\ BP!CatalogTruthful => B!CatalogTruthful
  BY Zenon
     DEF B!CatalogTruthful, B!NothingLost, B!OnMedium, BP!CatalogTruthful,
         BP!NothingLost, BP!OnMedium

LEMMA SameRetrieveInit == R!Init => RP!Init
  BY Zenon
     DEF R!Cardinality, R!Idle, R!Init, R!NoJob, R!NoReconstructor, R!NotDeleting,
         R!NothingDeleted, RP!Cardinality, RP!Idle, RP!Init, RP!NoJob,
         RP!NoReconstructor, RP!NotDeleting, RP!NothingDeleted

LEMMA SameRetrieveNext == R!Next => RP!Next
  BY Zenon
     DEF R!AfterFailure, R!Cardinality, R!ClaimMember, R!ClaimRead,
         R!ClaimReconstruction, R!Crash, R!CutShort, R!DeleteDisk,
         R!DeleteDiskRefused, R!DeleteDryRunDisk, R!DeleteDryRunFiles,
         R!DeleteFails, R!DeleteFiles, R!DryRunPageStep, R!Extend, R!ExtractFile,
         R!Fault, R!FoldImage, R!GetDisk, R!GroupMembers, R!Idle, R!Intact,
         R!IsDryRunDisc, R!IsoBlock, R!Label, R!LookupDisk, R!LookupMember,
         R!MemberBlock, R!MemberReadable, R!NewCall, R!NewReconstructor, R!Next,
         R!NoGroup, R!NoJob, R!NoReconstructor, R!Noise, R!NotDeleting,
         R!NothingDeleted, R!Operand, R!OperatorStep, R!PageFails, R!Payload,
         R!Present, R!RawBlocks, R!ReadMember, R!ReadPayload, R!Referenced,
         R!Remaining, R!RemoveISO, R!RequestStep, R!ResolveGroup, R!Return,
         R!SetState, R!ShareDeletes, R!ShareMoves, R!ShareStep, R!Source,
         R!SourceBlocks, R!SourceID, R!Start, R!StepFails, R!Truncated,
         R!Unreliable, R!WriteRebuilt, R!XOR, R!archiveVars, R!catalogVars,
         R!dryRunPageVars, R!retrievalVars, RP!AfterFailure, RP!Cardinality,
         RP!ClaimMember, RP!ClaimRead, RP!ClaimReconstruction, RP!Crash,
         RP!CutShort, RP!DeleteDisk, RP!DeleteDiskRefused, RP!DeleteDryRunDisk,
         RP!DeleteDryRunFiles, RP!DeleteFails, RP!DeleteFiles, RP!DryRunPageStep,
         RP!Extend, RP!ExtractFile, RP!Fault, RP!FoldImage, RP!GetDisk,
         RP!GroupMembers, RP!Idle, RP!Intact, RP!IsDryRunDisc, RP!IsoBlock,
         RP!Label, RP!LookupDisk, RP!LookupMember, RP!MemberBlock,
         RP!MemberReadable, RP!NewCall, RP!NewReconstructor, RP!Next, RP!NoGroup,
         RP!NoJob, RP!NoReconstructor, RP!Noise, RP!NotDeleting, RP!NothingDeleted,
         RP!Operand, RP!OperatorStep, RP!PageFails, RP!Payload, RP!Present,
         RP!RawBlocks, RP!ReadMember, RP!ReadPayload, RP!Referenced, RP!Remaining,
         RP!RemoveISO, RP!RequestStep, RP!ResolveGroup, RP!Return, RP!SetState,
         RP!ShareDeletes, RP!ShareMoves, RP!ShareStep, RP!Source, RP!SourceBlocks,
         RP!SourceID, RP!Start, RP!StepFails, RP!Truncated, RP!Unreliable,
         RP!WriteRebuilt, RP!XOR, RP!archiveVars, RP!catalogVars,
         RP!dryRunPageVars, RP!retrievalVars

LEMMA SameDryRunPage == R!DryRunPageStep(PageIDs) => RP!DryRunPageStep(PageIDs)
  BY Zenon
     DEF R!DryRunPageStep, R!RemoveISO, R!DeleteFiles, R!DeleteDisk,
         R!DeleteDiskRefused, R!DeleteDryRunDisk, R!DeleteDryRunFiles,
         R!IsDryRunDisc, R!NotDeleting, R!Referenced, R!catalogVars,
         R!retrievalVars, RP!DryRunPageStep, RP!RemoveISO, RP!DeleteFiles,
         RP!DeleteDisk, RP!DeleteDiskRefused, RP!DeleteDryRunDisk,
         RP!DeleteDryRunFiles, RP!IsDryRunDisc, RP!NotDeleting, RP!Referenced,
         RP!catalogVars, RP!retrievalVars

LEMMA SameCrash == R!Crash => RP!Crash
  BY Zenon
     DEF R!Crash, R!Fault, R!Idle, R!NoJob, R!NoReconstructor, R!NotDeleting, R!NothingDeleted,
         R!catalogVars, RP!Crash, RP!Fault, RP!Idle, RP!NoJob, RP!NoReconstructor,
         RP!NotDeleting, RP!NothingDeleted, RP!catalogVars

LEMMA SameRetrieveType == RP!TypeOK => R!TypeOK
  BY Zenon
     DEF R!Block, R!Call, R!CatalogTypeOK, R!DataImage, R!DeletingTypeOK,
         R!Deletion, R!DiskID, R!DiskRow, R!FileCopy, R!FileRow, R!Idle, R!Image,
         R!IsFiniteSet, R!NoJob, R!NotDeleting, R!Role, R!State, R!Step, R!TypeOK,
         RP!Block, RP!Call, RP!CatalogTypeOK, RP!DataImage, RP!DeletingTypeOK,
         RP!Deletion, RP!DiskID, RP!DiskRow, RP!FileCopy, RP!FileRow, RP!Idle,
         RP!Image, RP!IsFiniteSet, RP!NoJob, RP!NotDeleting, RP!Role, RP!State,
         RP!Step, RP!TypeOK

LEMMA SameTypes ==
    /\ BP!DiskID = RP!DiskID
    /\ BP!Image = RP!Image
    /\ BP!CatalogTypeOK => RP!CatalogTypeOK
  BY Zenon
     DEF BP!CatalogTypeOK, BP!DataImage, BP!DiskID, BP!DiskRow, BP!FileCopy,
         BP!FileRow, BP!Image, BP!IsFiniteSet, BP!Role, RP!CatalogTypeOK,
         RP!DataImage, RP!DiskID, RP!DiskRow, RP!FileCopy, RP!FileRow, RP!Image,
         RP!IsFiniteSet, RP!Role

LEMMA SameTypesNext ==
    BP!CatalogTypeOK' <=> RP!CatalogTypeOK'
  BY Zenon
     DEF BP!CatalogTypeOK, BP!DataImage, BP!DiskID, BP!DiskRow, BP!FileCopy,
         BP!FileRow, BP!Image, BP!IsFiniteSet, BP!Role, RP!CatalogTypeOK,
         RP!DataImage, RP!DiskID, RP!DiskRow, RP!FileCopy, RP!FileRow, RP!Image,
         RP!IsFiniteSet, RP!Role

-----------------------------------------------------------------------------
(* The control: what the components' type correctness rests on.  Of the    *)
(* retrieval nothing is said about the content of images: RP!IInv({}).  A  *)
(* disc on the shelf is one of the media, under the label it carries.      *)
ShelfKept ==
    /\ shelf = [d \in DOMAIN shelf |-> shelf[d]]
    /\ \A d \in DOMAIN shelf : shelf[d] \in media /\ shelf[d].id = d

Control ==
    /\ BP!TInv
    /\ RP!IInv({})
    /\ ShelfKept
    /\ starting \subseteq {"burn", "retrieve"}

LEMMA ControlInit == Init => Control
  <1> SUFFICES ASSUME Init PROVE Control
    OBVIOUS
  <1>1. BP!TInv
    BY BurnAssumptions, SameBurnInit, BP!TInvInit DEF Init
  <1>2. RP!RInv
    BY RetrieveAssumptions, SameRetrieveInit, RP!RInvInit DEF Init
  <1>3. PICK rows : RP!IInv(rows)
    BY <1>2 DEF RP!RInv
  <1>4. RP!IInv({})
    BY <1>3, RetrieveAssumptions, RP!IInvFewer
  <1>5. ShelfKept
    BY DEF Init, R!Init, ShelfKept
  <1> QED
    BY <1>1, <1>4, <1>5 DEF Control, Init

(* The burn side cannot disturb the control of the retrieval: it keeps the *)
(* types of what they share.                                               *)
LEMMA BurnBeside ==
    ASSUME Control, BP!TInv', ShelfKept', bad' \subseteq DOMAIN shelf',
           UNCHANGED <<retrieveJob, call, recon, retrieved, deleting>>
    PROVE  RP!IInv({})'
  <1>1. BP!TypeOK' /\ BP!CatalogTypeOK'
    BY DEF BP!TInv, BP!TypeOK
  <1>2. media' \subseteq RP!Image
    BY <1>1, SameTypes DEF BP!TypeOK
  <1>3. \A d \in DOMAIN shelf' : shelf'[d] \in RP!Image /\ shelf'[d].id = d
    BY <1>2 DEF ShelfKept
  <1>4. \A image \in RP!Image : image.id \in RP!DiskID
    BY DEF RP!Image
  <1>5. DOMAIN shelf' \subseteq RP!DiskID
    BY <1>3, <1>4
  <1>6. shelf' \in [DOMAIN shelf' -> RP!Image]
    BY <1>3 DEF ShelfKept
  <1>7. /\ RP!CatalogTypeOK'
        /\ DOMAIN dryRun' \subseteq RP!DiskID
        /\ dryRun' \in [DOMAIN dryRun' -> RP!Image \cup {Corrupt}]
        /\ faults' \in 0..MaxFaults
    BY <1>1, SameTypes, SameTypesNext DEF BP!TypeOK
  <1>8. RP!DeletingTypeOK'
    BY DEF Control, RP!IInv, RP!TypeOK, RP!DeletingTypeOK
  <1>9. RP!ArchiveTypeOK'
    BY <1>5, <1>6, <1>7, <1>8 DEF RP!ArchiveTypeOK
  <1>10. RP!ShelfAgrees({})'
    BY DEF RP!ShelfAgrees, RP!ImageAgrees, RP!Agrees
  <1> QED
    BY <1>7, <1>9, <1>10, RetrieveAssumptions, RP!Beside DEF Control

(* Nor the retrieval and the dry-run page that of the burns.               *)
LEMMA RetrieveBeside ==
    ASSUME Control, RP!IInv({})', UNCHANGED burnVars
    PROVE  BP!TInv'
  <1>1. /\ RP!CatalogTypeOK'
        /\ DOMAIN dryRun' \subseteq RP!DiskID
        /\ dryRun' \in [DOMAIN dryRun' -> RP!Image \cup {Corrupt}]
        /\ faults' \in 0..MaxFaults
    BY DEF RP!IInv, RP!TypeOK
  <1>2. /\ BP!CatalogTypeOK'
        /\ DOMAIN dryRun' \subseteq BP!DiskID
        /\ dryRun' \in [DOMAIN dryRun' -> BP!Image \cup {Corrupt}]
    BY <1>1, SameTypes, SameTypesNext
  <1>3. UNCHANGED BP!burnVars
    BY DEF burnVars, BP!burnVars, BP!plannerVars
  <1> QED
    BY <1>1, <1>2, <1>3, BurnAssumptions, BP!BesideType DEF Control

-----------------------------------------------------------------------------
(* Media are only added, and whatever step adds one puts it on the shelf   *)
(* under its own label.                                                    *)
LEMMA MediaStay ==
    ASSUME BurnStep
    PROVE  media \subseteq media'
  <1>1. ASSUME B!PlanStep \/ B!PlanningFails PROVE media' = media
    BY <1>1 DEF B!PlanStep, B!PlanningFails, B!PlanFails, B!pipelineVars, B!PackFile, B!PackLast,
                B!PlanDisc, B!PlansComplete, B!PlanGroup, B!PlanParity, B!GroupsComplete,
                B!FinishStart
  <1>2. ASSUME \/ \E p \in Path : B!Delete(p) \/ B!ApplyMetadata(p)
               \/ \E p \in Path, content \in Content : B!Put(p, content)
               \/ \E p, q \in Path : B!Move(p, q)
        PROVE  media' = media
    BY <1>2 DEF B!Delete, B!ApplyMetadata, B!Put, B!Move, B!Edit
  <1>3. ASSUME NEW c \in BurnCaller,
               B!Claim(c) \/ B!DryRunCopyFails(c) \/ B!StepFails(c) \/ InsertFileRefused(c)
        PROVE  media' = media
    BY <1>3 DEF B!Claim, B!DryRunCopyFails, B!StepFails, InsertFileRefused
  <1>4. ASSUME NEW c \in BurnCaller, B!RunStep(c)
        PROVE  media \subseteq media'
    BY <1>4 DEF B!RunStep, B!ClearStale, B!PackData, B!PackParity, B!CreateParity, B!BuildISO,
                B!WriteDryRun, B!WriteDisc, B!VerifyBurn, B!InsertDiskRow, B!HashStaged,
                B!ConsumeMetadata, B!InsertFileRow, B!RemoveStaged, B!FinishDisc
  <1> QED
    BY <1>1, <1>2, <1>3, <1>4 DEF BurnStep

LEMMA ShelfUntouched ==
    ASSUME RetrieveStep \/ StartRetrieve \/ R!Crash
    PROVE  shelf' = shelf
  <1>1. ASSUME NEW row \in files, R!Start(row) PROVE shelf' = shelf
    BY <1>1 DEF R!Start, R!archiveVars
  <1>2. ASSUME NEW c \in RetrieveCaller, R!OperatorStep(c) \/ R!RequestStep(c) \/ R!StepFails(c)
        PROVE  shelf' = shelf
    BY <1>2 DEF R!OperatorStep, R!ClaimRead, R!ClaimReconstruction, R!ClaimMember, R!RequestStep,
                R!LookupDisk, R!ReadPayload, R!ExtractFile, R!ResolveGroup, R!NewReconstructor,
                R!LookupMember, R!ReadMember, R!FoldImage, R!WriteRebuilt, R!StepFails,
                R!archiveVars
  <1>3. ASSUME \/ R!DryRunPageStep(PageIDs) \/ R!ShareStep
               \/ \E x \in Deleter : R!PageFails(x)
        PROVE  shelf' = shelf
    BY <1>3 DEF R!DryRunPageStep, R!ShareStep, R!PageFails, R!retrievalVars
  <1> QED
    BY <1>1, <1>2, <1>3 DEF RetrieveStep, StartRetrieve, R!Crash

LEMMA ShelfNext ==
    ASSUME ShelfKept, [Next]_vars
    PROVE  media \subseteq media' /\ DOMAIN shelf \subseteq DOMAIN shelf' /\ ShelfKept'
  <1>1. ASSUME media \subseteq media', shelf' = shelf
        PROVE  DOMAIN shelf \subseteq DOMAIN shelf' /\ ShelfKept'
    BY <1>1 DEF ShelfKept
  <1>2. ASSUME media \subseteq media', NEW m \in media', shelf' = Extend(shelf, m.id, m)
        PROVE  DOMAIN shelf \subseteq DOMAIN shelf' /\ ShelfKept'
    BY <1>2 DEF ShelfKept, Extend
  <1>3. CASE BurnStep
    <2>1. media \subseteq media'
      BY <1>3, MediaStay
    <2>2. shelf' = shelf \/ \E m \in media' : shelf' = Extend(shelf, m.id, m)
      BY <1>3 DEF BurnStep, NewDiscShelved
    <2> QED
      BY <1>1, <1>2, <2>1, <2>2
  <1>4. ASSUME NEW m \in media, OtherDiscTaken(m)
        PROVE  media' = media /\ shelf' = Extend(shelf, m.id, m)
    BY <1>4 DEF OtherDiscTaken, burnVars
  <1>5. CASE RetrieveStep \/ StartRetrieve \/ Crash
    <2>1. media' = media
      BY <1>5 DEF RetrieveStep, StartRetrieve, Crash, B!Crash, burnVars
    <2>2. shelf' = shelf
      BY <1>5, ShelfUntouched DEF Crash
    <2> QED
      BY <1>1, <2>1, <2>2
  <1>6. CASE StartBurn \/ RetryDisc
    <2>1. media' = media /\ shelf' = shelf
      BY <1>6 DEF StartBurn, RetryDisc, B!Start, B!Retry, B!pipelineVars
    <2> QED
      BY <1>1, <2>1
  <1>7. CASE \/ CheckRetrieveIdle \/ CheckBurnIdle \/ UNCHANGED vars
             \/ \E h \in {"burn", "retrieve"} : StartRefused(h)
             \/ \E d \in DOMAIN shelf : DiscDecays(d)
    <2>1. media' = media /\ shelf' = shelf
      BY <1>7 DEF CheckRetrieveIdle, CheckBurnIdle, StartRefused, DiscDecays, vars, burnVars
    <2> QED
      BY <1>1, <2>1
  <1> QED
    BY <1>2, <1>3, <1>4, <1>5, <1>6, <1>7 DEF Next

-----------------------------------------------------------------------------
(* The burn pipeline's own step, seen from its proofs.                     *)
LEMMA BurnStepIs ==
    ASSUME BurnStep
    PROVE  BP!Next \/ \E c \in BurnCaller : InsertFileRefused(c)
  BY SameBurnNext DEF BurnStep, B!Next

LEMMA SameFail == \A c \in BurnCaller : B!Fail(c) => BP!Fail(c)
  BY Zenon DEF B!Fail, B!SetState, B!Idle, BP!Fail, BP!SetState, BP!Idle

LEMMA RefusedControl ==
    ASSUME Control, NEW c \in BurnCaller, InsertFileRefused(c)
    PROVE  BP!TInv'
  <1>1. BP!Fail(c)
    BY SameFail DEF InsertFileRefused
  <1>2. UNCHANGED <<BP!catalogVars, staging, planning, isos, vols, media, dryRun,
                    removed, faults, edits>>
    BY DEF InsertFileRefused, catalogVars, BP!catalogVars
  <1> QED
    BY <1>1, <1>2, BurnAssumptions, BP!RefusedType DEF Control, InsertFileRefused

LEMMA BurnStutters ==
    ASSUME Control, UNCHANGED <<catalogVars, burnVars, dryRun, faults>>
    PROVE  BP!TInv'
  <1>1. UNCHANGED BP!vars
    BY DEF catalogVars, burnVars, BP!vars, BP!catalogVars, BP!plannerVars, BP!pipelineVars
  <1> QED
    BY <1>1, BurnAssumptions, BP!TInvNext DEF Control

(* The retrieval's own step, seen from its proofs: the page may be asked   *)
(* for more IDs than there.                                                *)
LEMMA RetrieveStepIs ==
    ASSUME RetrieveStep \/ StartRetrieve
    PROVE  UNCHANGED burnVars /\ (RP!Next \/ RP!DryRunPageStep(PageIDs))
  BY SameRetrieveNext, SameDryRunPage DEF RetrieveStep, StartRetrieve, R!Next

LEMMA RetrieveControl ==
    ASSUME Control, RetrieveStep \/ StartRetrieve
    PROVE  BP!TInv' /\ RP!IInv({})'
  <1>1. PageIDs \subseteq RP!DiskID
    BY DEF PageIDs, RP!DiskID
  <1>2. RP!IInv({})'
    BY <1>1, RetrieveStepIs, RetrieveAssumptions, RP!IInvNext, RP!DryRunPageStepKeeps DEF Control
  <1> QED
    BY <1>2, RetrieveStepIs, RetrieveBeside

LEMMA ControlNext == Control /\ [Next]_vars => Control'
  <1> SUFFICES ASSUME Control, [Next]_vars PROVE Control'
    OBVIOUS
  <1>1. starting' \subseteq {"burn", "retrieve"}
    BY DEF Control, Next, CheckRetrieveIdle, StartBurn, CheckBurnIdle, StartRetrieve, StartRefused,
           RetryDisc, BurnStep, RetrieveStep, DiscDecays, OtherDiscTaken, Crash, vars
  <1>2. ShelfKept' /\ DOMAIN shelf \subseteq DOMAIN shelf'
    BY ShelfNext DEF Control
  <1>3. bad \subseteq DOMAIN shelf
    BY DEF Control, RP!IInv, RP!TypeOK
  <1>4. ASSUME BP!TInv', UNCHANGED <<retrieveJob, call, recon, retrieved, deleting>>,
               bad' \subseteq DOMAIN shelf
        PROVE  Control'
    BY <1>1, <1>2, <1>4, BurnBeside DEF Control
  <1>5. CASE \/ CheckRetrieveIdle \/ CheckBurnIdle \/ UNCHANGED vars
             \/ \E h \in {"burn", "retrieve"} : StartRefused(h)
             \/ \E m \in media : OtherDiscTaken(m)
    <2>1. UNCHANGED <<catalogVars, burnVars, retrieveVars, dryRun, faults>>
      BY <1>5 DEF CheckRetrieveIdle, CheckBurnIdle, StartRefused, OtherDiscTaken, vars
    <2> QED
      BY <1>3, <1>4, <2>1, BurnStutters DEF retrieveVars
  <1>6. ASSUME NEW d \in DOMAIN shelf, DiscDecays(d) PROVE Control'
    BY <1>3, <1>4, <1>6, BurnStutters DEF DiscDecays
  <1>7. CASE StartBurn \/ RetryDisc \/ BurnStep
    <2>1. UNCHANGED retrieveVars
      BY <1>7 DEF StartBurn, RetryDisc, BurnStep
    <2>2. BP!Next \/ \E c \in BurnCaller : InsertFileRefused(c)
      BY <1>7, BurnStepIs, SameBurnNext DEF StartBurn, RetryDisc, B!Next
    <2>3. BP!TInv'
      BY <2>2, RefusedControl, BurnAssumptions, BP!TInvNext DEF Control
    <2> QED
      BY <1>3, <1>4, <2>1, <2>3 DEF retrieveVars
  <1>8. CASE RetrieveStep \/ StartRetrieve
    BY <1>1, <1>2, <1>8, RetrieveControl DEF Control
  <1>9. CASE Crash
    <2>1. BP!TInv'
      BY <1>9, SameBurnNext, BurnAssumptions, BP!TInvNext DEF Crash, B!Next, Control
    <2>2. RP!IInv({})'
      BY <1>9, SameCrash, RetrieveAssumptions, RP!CrashKeeps DEF Crash, Control
    <2> QED
      BY <1>1, <1>2, <2>1, <2>2 DEF Control
  <1> QED
    BY <1>5, <1>6, <1>7, <1>8, <1>9 DEF Next

LEMMA ControlInvariant == Spec => []Control
  BY ControlInit, ControlNext, PTL DEF Spec

(* Every variable of the program keeps its type, for any number of         *)
(* requests of every kind, dry runs whose copy fails half-way and deletion *)
(* of any ID: the components rely on each other for no more than they      *)
(* keep.                                                                   *)
THEOREM SystemTypeCorrect == Spec => []TypeOK
  <1>1. Control => TypeOK
    BY SameBurnType, SameRetrieveType DEF Control, TypeOK, BP!TInv, RP!IInv
  <1> QED
    BY <1>1, ControlInvariant, PTL

-----------------------------------------------------------------------------
(* One drive: a start handler that has passed its check keeps the other    *)
(* manager out until its own manager is busy.                              *)
OneJob ==
    /\ ~(BurnBusy /\ RetrieveBusy)
    /\ planning.phase # "idle" => ~RetrieveBusy /\ "retrieve" \notin starting
    /\ "burn" \in starting => ~RetrieveBusy /\ "retrieve" \notin starting
    /\ "retrieve" \in starting => ~BurnBusy /\ planning.phase = "idle"

DInv == Control /\ OneJob

(* The burn manager becomes busy only where Start ends.                    *)
LEMMA BurnBusyFrom ==
    ASSUME Control, BurnStep
    PROVE  /\ BurnBusy' => BurnBusy \/ planning.phase # "idle"
           /\ planning'.phase # "idle" => planning.phase # "idle"
  <1> DEFINE G == /\ BurnBusy' => BurnBusy \/ planning.phase # "idle"
                  /\ planning'.phase # "idle" => planning.phase # "idle"
  <1>1. ASSUME B!PlanStep \/ B!PlanningFails PROVE planning.phase # "idle"
    BY <1>1 DEF B!PlanStep, B!PlanningFails, B!PlanFails, B!PackFile, B!PackLast, B!PlanDisc,
                B!PlansComplete, B!PlanGroup, B!PlanParity, B!GroupsComplete, B!FinishStart
  <1>2. ASSUME \/ \E p \in Path : B!Delete(p) \/ B!ApplyMetadata(p)
               \/ \E p \in Path, content \in Content : B!Put(p, content)
               \/ \E p, q \in Path : B!Move(p, q)
        PROVE  UNCHANGED <<burnJob, planning>>
    BY <1>2 DEF B!Delete, B!ApplyMetadata, B!Put, B!Move, B!Edit, B!plannerVars
  <1>3. ASSUME NEW c \in BurnCaller,
               \/ B!Claim(c) \/ B!RunStep(c)
               \/ B!DryRunCopyFails(c) \/ B!StepFails(c) \/ InsertFileRefused(c)
        PROVE  UNCHANGED planning
    BY <1>3 DEF B!Claim, B!DryRunCopyFails, B!StepFails, InsertFileRefused, B!RunStep, B!ClearStale, B!PackData,
                B!PackParity, B!CreateParity, B!BuildISO, B!WriteDryRun, B!WriteDisc, B!VerifyBurn,
                B!InsertDiskRow, B!HashStaged, B!ConsumeMetadata, B!InsertFileRow, B!RemoveStaged,
                B!FinishDisc, B!plannerVars
  <1>4. ASSUME NEW c \in BurnCaller,
               \/ B!Claim(c) \/ B!RunStep(c)
               \/ B!DryRunCopyFails(c) \/ B!StepFails(c) \/ InsertFileRefused(c)
        PROVE  BurnBusy
    <2>1. CASE B!Claim(c)
      BY <2>1 DEF B!Claim, BurnBusy, Finished
    <2>2. CASE \/ B!RunStep(c) \/ B!DryRunCopyFails(c) \/ B!StepFails(c)
               \/ InsertFileRefused(c)
      <3>1. run[c].step \in BP!Step
        BY <2>2, BurnAssumptions
           DEF B!DryRunCopyFails, B!StepFails, InsertFileRefused, B!RunStep, B!ClearStale, B!PackData, B!PackParity,
               B!CreateParity, B!BuildISO, B!WriteDryRun, B!WriteDisc, B!VerifyBurn,
               B!InsertDiskRow, B!HashStaged, B!ConsumeMetadata, B!InsertFileRow,
               B!RemoveStaged, B!FinishDisc, BP!Step, BP!ModeAssumption
      <3>2. run[c] # BP!Idle
        BY <3>1 DEF BP!Idle, BP!Step
      <3>3. burnJob.state \in BP!Claimed
        BY <3>2 DEF Control, BP!TInv, BP!OneRunner
      <3> QED
        BY <3>3 DEF BP!Claimed, BurnBusy, Finished
    <2> QED
      BY <1>4, <2>1, <2>2
  <1>5. CASE B!PlanStep \/ B!PlanningFails
    BY <1>1, <1>5
  <1>6. CASE UNCHANGED <<burnJob, planning>>
    BY <1>6 DEF BurnBusy
  <1> QED
    BY <1>2, <1>3, <1>4, <1>5, <1>6 DEF BurnStep

(* The retrieval manager becomes busy only in Start.                       *)
LEMMA RetrieveBusyFrom ==
    ASSUME Control, RetrieveStep, RetrieveBusy'
    PROVE  RetrieveBusy
  <1>1. CASE UNCHANGED retrieveJob
    BY <1>1 DEF RetrieveBusy
  <1>2. ASSUME \/ R!DryRunPageStep(PageIDs)
               \/ \E x \in Deleter : R!PageFails(x)
               \/ R!ShareStep
        PROVE  UNCHANGED retrieveJob
    BY <1>2 DEF R!DryRunPageStep, R!PageFails, R!ShareStep, R!retrievalVars
  <1>3. ASSUME NEW c \in RetrieveCaller, R!OperatorStep(c) PROVE RetrieveBusy
    BY <1>3 DEF R!OperatorStep, R!ClaimRead, R!ClaimReconstruction, R!ClaimMember,
                RetrieveBusy, Finished
  <1>4. ASSUME NEW c \in RetrieveCaller, R!RequestStep(c) \/ R!StepFails(c) PROVE RetrieveBusy
    <2>1. call[c].pc # "idle" \/ call[c] # RP!Idle
      BY <1>4 DEF R!RequestStep, R!LookupDisk, R!ReadPayload, R!ExtractFile, R!ResolveGroup,
                  R!NewReconstructor, R!LookupMember, R!ReadMember, R!FoldImage, R!WriteRebuilt,
                  R!StepFails, R!Idle, RP!Idle
    <2>2. call[c] # RP!Idle
      BY <2>1 DEF RP!Idle
    <2>3. retrieveJob.state \in RP!Working
      BY <2>2 DEF Control, RP!IInv, RP!OneRequest
    <2> QED
      BY <2>3 DEF RP!Working, RetrieveBusy, Finished
  <1> QED
    BY <1>1, <1>2, <1>3, <1>4 DEF RetrieveStep

(* Retrying is the one way to become busy again that no start handler      *)
(* guards; assuming that it waits for the retrieval to end is the          *)
(* hypothesis below.                                                       *)
LEMMA OneJobNext ==
    ASSUME ~StartsOverlap, ~RetriesAnytime, Control, OneJob, [Next]_vars
    PROVE  OneJob'
  <1> USE DEF OneJob
  <1>1. CASE CheckRetrieveIdle
    BY <1>1 DEF CheckRetrieveIdle, burnVars, retrieveVars, BurnBusy, RetrieveBusy
  <1>2. CASE StartBurn
    <2>1. UNCHANGED <<burnJob, retrieveJob>>
      BY <1>2 DEF StartBurn, retrieveVars, B!Start, B!BeginStart
    <2> QED
      BY <1>2, <2>1 DEF StartBurn, BurnBusy, RetrieveBusy
  <1>3. CASE CheckBurnIdle
    BY <1>3 DEF CheckBurnIdle, burnVars, retrieveVars, BurnBusy, RetrieveBusy
  <1>4. CASE StartRetrieve
    BY <1>4 DEF StartRetrieve, burnVars, BurnBusy
  <1>5. ASSUME NEW h \in {"burn", "retrieve"}, StartRefused(h) PROVE OneJob'
    BY <1>5 DEF StartRefused, burnVars, retrieveVars, BurnBusy, RetrieveBusy
  <1>6. CASE RetryDisc
    <2>1. UNCHANGED <<retrieveJob, planning, starting>> /\ ~RetrieveBusy /\ starting = {}
      BY <1>6 DEF RetryDisc, retrieveVars, B!Retry
    <2> QED
      BY <2>1 DEF RetrieveBusy
  <1>7. CASE BurnStep
    <2>1. UNCHANGED <<retrieveJob, starting>>
      BY <1>7 DEF BurnStep, retrieveVars
    <2>2. RetrieveBusy' <=> RetrieveBusy
      BY <2>1 DEF RetrieveBusy
    <2> QED
      BY <1>7, <2>1, <2>2, BurnBusyFrom
  <1>8. CASE RetrieveStep
    <2>1. UNCHANGED <<burnJob, planning, starting>>
      BY <1>8 DEF RetrieveStep, burnVars
    <2>2. BurnBusy' <=> BurnBusy
      BY <2>1 DEF BurnBusy
    <2> QED
      BY <1>8, <2>1, <2>2, RetrieveBusyFrom
  <1>9. CASE (\E d \in DOMAIN shelf : DiscDecays(d)) \/ \E m \in media : OtherDiscTaken(m)
    BY <1>9 DEF DiscDecays, OtherDiscTaken, burnVars, retrieveVars, BurnBusy, RetrieveBusy
  <1>10. CASE Crash
    BY <1>10 DEF Crash, B!Crash, R!Crash, B!NoJob, R!NoJob, B!NoPlanning, BurnBusy, RetrieveBusy,
                 Finished
  <1>11. CASE UNCHANGED vars
    BY <1>11 DEF vars, burnVars, retrieveVars, BurnBusy, RetrieveBusy
  <1> QED
    BY <1>1, <1>2, <1>3, <1>4, <1>5, <1>6, <1>7, <1>8, <1>9, <1>10, <1>11 DEF Next

LEMMA OneJobInit == Init => OneJob
  BY DEF Init, B!Init, R!Init, B!PlannerInit, B!NoJob, B!NoPlanning, R!NoJob, OneJob, BurnBusy,
         RetrieveBusy, Finished

LEMMA OneJobInvariant ==
    ASSUME ~StartsOverlap, ~RetriesAnytime
    PROVE  Spec => []DInv
  <1>1. Init => DInv
    BY ControlInit, OneJobInit DEF DInv
  <1>2. DInv /\ [Next]_vars => DInv'
    BY ControlNext, OneJobNext DEF DInv
  <1> QED
    BY <1>1, <1>2, PTL DEF Spec

(* Where start handlers do not overlap and no disc is retried beside a     *)
(* retrieval, a disc is never read for a retrieval while the burn pipeline *)
(* has the drive: the checks in startBurn and startRetrieve suffice then.  *)
(* Without the hypothesis they do not (the violation runs).                *)
THEOREM DriveIsExclusive ==
    ASSUME ~StartsOverlap, ~RetriesAnytime
    PROVE  Spec => []DriveExclusive
  <1>1. DInv => DriveExclusive
    <2> SUFFICES ASSUME DInv, NEW b \in BurnCaller, NEW r \in RetrieveCaller,
                        run[b].step \in {"burn", "verify"}, call[r].pc \in {"read", "readMember"}
                 PROVE  FALSE
      BY DEF DriveExclusive, BurnerInUse, ReaderInUse
    <2>1. run[b] # BP!Idle /\ call[r] # RP!Idle
      BY DEF BP!Idle, RP!Idle
    <2>2. burnJob.state \in BP!Claimed /\ retrieveJob.state \in RP!Working
      BY <2>1 DEF DInv, Control, BP!TInv, BP!OneRunner, RP!IInv, RP!OneRequest
    <2>3. BurnBusy /\ RetrieveBusy
      BY <2>2 DEF BP!Claimed, RP!Working, BurnBusy, RetrieveBusy, Finished
    <2> QED
      BY <2>3 DEF DInv, OneJob
  <1>2. Spec => []DInv
    BY OneJobInvariant
  <1> QED
    BY <1>1, <1>2, PTL

-----------------------------------------------------------------------------
(* The archive beside the dry-run page: the burns' safety invariant.  Of   *)
(* the retrieval it needs the types only.                                  *)
AInv == Control /\ BP!SInv

(* The page and the retrieval drop at most rows of dry runs, and no disc   *)
(* row that a file row still references.                                   *)
Harmless ==
    /\ DOMAIN disks' \subseteq DOMAIN disks
    /\ \A d \in DOMAIN disks' : disks'[d] = disks[d]
    /\ \A d \in DOMAIN disks \ DOMAIN disks' : disks[d].dry
    /\ files' \subseteq files
    /\ \A r \in files \ files' : r.disk \in DOMAIN disks => disks[r.disk].dry
    /\ \A r \in files' : r.disk \in DOMAIN disks'

LEMMA PageHarmless ==
    ASSUME AInv, NEW x \in Deleter, R!DeleteFiles(x) \/ R!DeleteDisk(x)
    PROVE  Harmless
  <1>1. \A r \in files : r.disk \in DOMAIN disks
    BY DEF AInv, BP!SInv, BP!CatalogTruthful
  <1>2. CASE R!DeleteFiles(x)
    BY <1>1, <1>2 DEF R!DeleteFiles, R!DeleteDryRunFiles, R!IsDryRunDisc, Harmless
  <1>3. CASE R!DeleteDisk(x)
    <2>1. CASE R!DeleteDryRunDisk(deleting[x].disk)
      BY <1>1, <1>3, <2>1
         DEF R!DeleteDisk, R!DeleteDryRunDisk, R!IsDryRunDisc, R!Referenced, Harmless
    <2>2. CASE R!DeleteDiskRefused(deleting[x].disk)
      BY <1>1, <1>3, <2>2 DEF R!DeleteDisk, R!DeleteDiskRefused, R!catalogVars, Harmless
    <2> QED
      BY <1>3, <2>1, <2>2 DEF R!DeleteDisk
  <1> QED
    BY <1>2, <1>3

LEMMA RetrieveHarmless ==
    ASSUME AInv, RetrieveStep \/ StartRetrieve
    PROVE  Harmless
  <1>1. \A r \in files : r.disk \in DOMAIN disks
    BY DEF AInv, BP!SInv, BP!CatalogTruthful
  <1>2. UNCHANGED <<disks, files>> => Harmless
    BY <1>1 DEF Harmless
  <1>3. ASSUME NEW row \in files, R!Start(row) PROVE UNCHANGED <<disks, files>>
    BY <1>3 DEF R!Start, R!archiveVars, R!catalogVars
  <1>4. ASSUME NEW c \in RetrieveCaller, R!OperatorStep(c) \/ R!RequestStep(c) \/ R!StepFails(c)
        PROVE  UNCHANGED <<disks, files>>
    BY <1>4 DEF R!OperatorStep, R!ClaimRead, R!ClaimReconstruction, R!ClaimMember, R!RequestStep,
                R!LookupDisk, R!ReadPayload, R!ExtractFile, R!ResolveGroup, R!NewReconstructor,
                R!LookupMember, R!ReadMember, R!FoldImage, R!WriteRebuilt, R!StepFails,
                R!archiveVars, R!catalogVars
  <1>5. ASSUME R!ShareStep \/ \E x \in Deleter : R!PageFails(x)
        PROVE  UNCHANGED <<disks, files>>
    BY <1>5 DEF R!ShareStep, R!ShareDeletes, R!ShareMoves, R!PageFails, R!DeleteFails, R!catalogVars
  <1>6. ASSUME R!DryRunPageStep(PageIDs) PROVE Harmless
    <2>1. PICK x \in Deleter :
            (\E d \in PageIDs : R!RemoveISO(x, d)) \/ R!DeleteFiles(x) \/ R!DeleteDisk(x)
      BY <1>6 DEF R!DryRunPageStep
    <2>2. CASE \E d \in PageIDs : R!RemoveISO(x, d)
      BY <1>2, <2>2 DEF R!RemoveISO, R!catalogVars
    <2> QED
      BY <2>1, <2>2, PageHarmless
  <1> QED
    BY <1>2, <1>3, <1>4, <1>5, <1>6 DEF RetrieveStep, StartRetrieve

LEMMA RetrieveSafe ==
    ASSUME AInv, RetrieveStep \/ StartRetrieve
    PROVE  BP!Safe'
  <1>1. UNCHANGED BP!burnVars
    BY DEF RetrieveStep, StartRetrieve, burnVars, BP!burnVars, BP!plannerVars
  <1> QED
    BY <1>1, RetrieveHarmless, BurnAssumptions, BP!BesideSafe DEF AInv, Harmless

(* A commit whose disc row the page deleted fails; only a dry run's can.   *)
LEMMA RefusedKeeps ==
    ASSUME AInv, NEW c \in BurnCaller, InsertFileRefused(c)
    PROVE  BP!Safe'
  <1>1. BP!Fail(c)
    BY SameFail DEF InsertFileRefused
  <1>2. UNCHANGED <<BP!catalogVars, planning, media, removed>> /\ run[c].step = "insert"
    BY DEF InsertFileRefused, catalogVars, BP!catalogVars
  <1> QED
    BY <1>1, <1>2, BurnAssumptions, BP!RefusedSafe DEF AInv

LEMMA BurnSideIs ==
    ASSUME [Next]_vars
    PROVE  \/ [BP!Next]_(BP!vars)
           \/ \E c \in BurnCaller : InsertFileRefused(c)
           \/ RetrieveStep \/ StartRetrieve
  <1>1. UNCHANGED <<catalogVars, burnVars, dryRun, faults>> => UNCHANGED BP!vars
    BY DEF catalogVars, burnVars, BP!vars, BP!catalogVars, BP!plannerVars, BP!pipelineVars
  <1>2. StartBurn \/ RetryDisc \/ Crash => BP!Next
    BY SameBurnNext DEF StartBurn, RetryDisc, Crash, B!Next
  <1> QED
    BY <1>1, <1>2, BurnStepIs
       DEF Next, CheckRetrieveIdle, CheckBurnIdle, StartRefused, DiscDecays, OtherDiscTaken, vars

LEMMA AInvInit == Init => AInv
  BY ControlInit, BurnAssumptions, SameBurnInit, BP!SInvInit DEF AInv, Init

LEMMA AInvNext ==
    ASSUME ~EditsDuringBurn
    PROVE  AInv /\ [Next]_vars => AInv'
  <1> SUFFICES ASSUME AInv, [Next]_vars PROVE AInv'
    OBVIOUS
  <1>1. Control'
    BY ControlNext DEF AInv
  <1>2. BP!Safe' => BP!SInv'
    BY <1>1 DEF BP!Safe, BP!SInv, Control
  <1>3. CASE [BP!Next]_(BP!vars)
    BY <1>1, <1>3, BurnAssumptions, BP!SInvNext DEF AInv
  <1>4. CASE RetrieveStep \/ StartRetrieve \/ \E c \in BurnCaller : InsertFileRefused(c)
    BY <1>1, <1>2, <1>4, RetrieveSafe, RefusedKeeps DEF AInv
  <1> QED
    BY <1>3, <1>4, BurnSideIs

LEMMA ArchiveInvariant ==
    ASSUME ~EditsDuringBurn
    PROVE  Spec => []AInv
  BY AInvInit, AInvNext, PTL DEF Spec

(* Whatever a real burn removed from staging stays catalogued on a medium  *)
(* that holds it, for any number of requests of the dry-run page and of    *)
(* retrievals beside the burns, and through crashes: the page's DELETEs    *)
(* reach rows of dry runs only.                                            *)
THEOREM SystemLosesNothing ==
    ASSUME ~EditsDuringBurn
    PROVE  Spec => []NothingLost
  <1>1. AInv => NothingLost
    BY SameBurnSafety DEF AInv, BP!SInv, NothingLost
  <1> QED
    BY <1>1, ArchiveInvariant, PTL

(* However the page's two DELETEs and the inserts of a commit interleave,  *)
(* a file row names an existing disc row whose image holds the file, and a *)
(* real disc's image is on a medium.                                       *)
THEOREM SystemCatalogTruthful ==
    ASSUME ~EditsDuringBurn
    PROVE  Spec => []CatalogTruthful
  <1>1. AInv => CatalogTruthful
    BY SameBurnSafety DEF AInv, BP!SInv, CatalogTruthful
  <1> QED
    BY <1>1, ArchiveInvariant, PTL

-----------------------------------------------------------------------------
(* From staging to disc and back.  A request that reads a real disc has    *)
(* found its row in the catalog, and real rows stay; what it goes on to    *)
(* extract from is a disc that was burned with that row's label.           *)
IsReal(d) == d \in DOMAIN disks /\ ~disks[d].dry

FromDisc(c) == ~call[c].dry /\ ~call[c].rebuilt

Direct(c) ==
    LET d == retrieveJob.row.disk IN
    /\ call[c].pc = "lookup" => call[c].disk = d
    /\ call[c].pc \in {"read", "extract"} /\ FromDisc(c) => IsReal(d)
    /\ call[c].pc = "extract" /\ FromDisc(c) =>
         \E m \in media : m.id = d /\ call[c].image = {R!IsoBlock(m)}

DirectInv == \A c \in RetrieveCaller : Direct(c)

EInv == AInv /\ BP!MadeInv /\ DirectInv

RealRowsStay == \A d \in DOMAIN disks : IsReal(d) => d \in DOMAIN disks' /\ disks'[d] = disks[d]

LEMMA RealStays ==
    ASSUME AInv, [Next]_vars
    PROVE  RealRowsStay
  <1>1. CASE [BP!Next]_(BP!vars)
    BY <1>1, BurnAssumptions, BP!RowsStay DEF RealRowsStay
  <1>2. CASE \E c \in BurnCaller : InsertFileRefused(c)
    BY <1>2 DEF InsertFileRefused, catalogVars, RealRowsStay
  <1>3. CASE RetrieveStep \/ StartRetrieve
    BY <1>3, RetrieveHarmless DEF Harmless, RealRowsStay, IsReal
  <1> QED
    BY <1>1, <1>2, <1>3, BurnSideIs

LEMMA MadeKept ==
    ASSUME AInv, BP!MadeInv, [Next]_vars
    PROVE  BP!MadeInv'
  <1>1. CASE [BP!Next]_(BP!vars)
    BY <1>1, BurnAssumptions, BP!MadeNext DEF AInv, Control
  <1>2. ASSUME NEW c \in BurnCaller, InsertFileRefused(c) PROVE BP!MadeInv'
    <2>1. BP!Fail(c) /\ disks' = disks
      BY <1>2, SameFail DEF InsertFileRefused, catalogVars
    <2> QED
      BY <2>1, BurnAssumptions, BP!FailMade DEF AInv, Control
  <1>3. CASE RetrieveStep \/ StartRetrieve
    <2>1. Harmless /\ run' = run
      BY <1>3, RetrieveHarmless DEF RetrieveStep, StartRetrieve, burnVars
    <2> QED
      BY <2>1 DEF Harmless, BP!MadeInv, BP!ID
  <1> QED
    BY <1>1, <1>2, <1>3, BurnSideIs

(* A request past its claim is the only one, and the job is its own.       *)
LEMMA Requesting ==
    ASSUME Control, NEW c \in RetrieveCaller, call[c] # RP!Idle
    PROVE  /\ call[c] \in RP!Call
           /\ retrieveJob \in RP!Job
           /\ retrieveJob.state \in RP!Working
           /\ \A e \in RetrieveCaller : e # c => call[e] = RP!Idle
  BY RetrieveAssumptions, RP!Claimed DEF Control

(* A step of caller c that keeps the catalog and the job's row.            *)
LEMMA DirectStep ==
    ASSUME DirectInv, NEW c \in RetrieveCaller, disks' = disks, media \subseteq media',
           retrieveJob'.row = retrieveJob.row,
           \A e \in RetrieveCaller : e # c => call'[e] = call[e],
           Direct(c)'
    PROVE  DirectInv'
  BY DEF DirectInv, Direct, FromDisc, IsReal, R!IsoBlock

(* readFrom accepts the disc in the drive because its TOC names the row's  *)
(* disc.                                                                   *)
LEMMA DirectRead ==
    ASSUME Control, NEW c \in RetrieveCaller, FromDisc(c), R!Intact(c)
    PROVE  \E m \in media : /\ m.id = retrieveJob.row.disk
                            /\ R!SourceBlocks(c) = {R!IsoBlock(m)}
  <1> DEFINE m == shelf[call[c].medium]
  <1>1. PICK b \in R!SourceBlocks(c) :
               R!SourceBlocks(c) = {b} /\ b.kind = "data" /\ b.id = retrieveJob.row.disk
    BY DEF R!Intact
  <1>2. call[c].medium \in DOMAIN shelf /\ R!SourceBlocks(c) = R!RawBlocks(c)
    BY <1>1 DEF R!SourceBlocks, R!Present, R!Source, R!SourceID, FromDisc
  <1>3. m \in media
    BY <1>2 DEF Control, ShelfKept
  <1>4. ~R!CutShort(c)
    BY <1>1, <1>2 DEF R!RawBlocks, R!Noise
  <1>5. R!SourceBlocks(c) = {R!IsoBlock(m)}
    BY <1>2, <1>4 DEF R!RawBlocks, R!Source, R!SourceID, FromDisc
  <1>6. m.id = retrieveJob.row.disk
    BY <1>1, <1>5 DEF R!IsoBlock
  <1> QED
    BY <1>3, <1>5, <1>6

LEMMA RequestDirect ==
    ASSUME EInv, UNCHANGED burnVars,
           NEW c \in RetrieveCaller, R!RequestStep(c) \/ R!StepFails(c)
    PROVE  DirectInv'
  <1>1. call[c] # RP!Idle
    <2>1. call[c].pc # "idle" \/ call[c] # RP!Idle
      BY DEF R!RequestStep, R!LookupDisk, R!ReadPayload, R!ExtractFile, R!ResolveGroup,
             R!NewReconstructor, R!LookupMember, R!ReadMember, R!FoldImage, R!WriteRebuilt,
             R!StepFails, R!Idle, RP!Idle
    <2> QED
      BY <2>1 DEF RP!Idle
  <1>2. call[c] \in RP!Call /\ retrieveJob \in RP!Job
    BY <1>1, Requesting DEF EInv, AInv
  <1>3. call \in [RetrieveCaller -> RP!Call \cup {RP!Idle}]
    BY DEF EInv, AInv, Control, RP!IInv, RP!TypeOK
  <1>4. disks' = disks /\ media \subseteq media'
    BY DEF burnVars, R!RequestStep, R!LookupDisk, R!ReadPayload, R!ExtractFile, R!ResolveGroup,
           R!NewReconstructor, R!LookupMember, R!ReadMember, R!FoldImage, R!WriteRebuilt,
           R!StepFails, R!archiveVars, R!catalogVars
  <1>5. ASSUME NEW s, R!Return(c, s) PROVE DirectInv'
    <2>1. /\ retrieveJob'.row = retrieveJob.row
          /\ call'[c].pc = "idle" /\ \A e \in RetrieveCaller : e # c => call'[e] = call[e]
      BY <1>2, <1>3, <1>5 DEF R!Return, R!SetState, R!Idle, RP!Job
    <2>2. Direct(c)'
      BY <2>1 DEF Direct
    <2> QED
      BY <1>4, <2>1, <2>2, DirectStep DEF EInv
  <1>6. ASSUME retrieveJob' = retrieveJob, Direct(c)',
               \A e \in RetrieveCaller : e # c => call'[e] = call[e]
        PROVE  DirectInv'
    BY <1>4, <1>6, DirectStep DEF EInv
  <1>7. CASE R!LookupDisk(c) /\ ~(\E s : R!Return(c, s))
    <2>1. PICK row \in R!GetDisk(call[c].disk) :
            call' = [call EXCEPT ![c].pc = "read", ![c].dry = row.dry] /\ retrieveJob' = retrieveJob
      BY <1>7 DEF R!LookupDisk
    <2>2. /\ call'[c].pc = "read" /\ call'[c].dry = row.dry
          /\ \A e \in RetrieveCaller : e # c => call'[e] = call[e]
      BY <1>2, <1>3, <2>1 DEF RP!Call
    <2>3. call[c].disk = retrieveJob.row.disk
      BY <1>7 DEF EInv, DirectInv, Direct, R!LookupDisk
    <2>4. call[c].disk \in DOMAIN disks /\ row = disks[call[c].disk]
      BY <2>1 DEF R!GetDisk
    <2>5. Direct(c)'
      BY <1>4, <2>1, <2>2, <2>3, <2>4 DEF Direct, FromDisc, IsReal
    <2> QED
      BY <1>6, <2>1, <2>2, <2>5
  <1>8. CASE R!ReadPayload(c) /\ ~(\E s : R!Return(c, s))
    <2>1. /\ R!Intact(c) /\ call[c].pc = "read" /\ retrieveJob' = retrieveJob
          /\ call' = [call EXCEPT ![c].pc = "extract", ![c].image = R!SourceBlocks(c)]
      BY <1>8 DEF R!ReadPayload
    <2>2. /\ call'[c].pc = "extract" /\ call'[c].image = R!SourceBlocks(c)
          /\ call'[c].dry = call[c].dry /\ call'[c].rebuilt = call[c].rebuilt
          /\ \A e \in RetrieveCaller : e # c => call'[e] = call[e]
      BY <1>2, <1>3, <2>1 DEF RP!Call
    <2>3. FromDisc(c) => IsReal(retrieveJob.row.disk)
      BY <2>1 DEF EInv, DirectInv, Direct
    <2>4. FromDisc(c) => \E m \in media : /\ m.id = retrieveJob.row.disk
                                         /\ R!SourceBlocks(c) = {R!IsoBlock(m)}
      BY <2>1, DirectRead DEF EInv, AInv
    <2>5. Direct(c)'
      BY <1>4, <2>1, <2>2, <2>3, <2>4 DEF Direct, FromDisc, IsReal, R!IsoBlock
    <2> QED
      BY <1>6, <2>1, <2>2, <2>5
  <1>9. CASE R!WriteRebuilt(c)
    <2>1. /\ call'[c].pc = "read" /\ call'[c].rebuilt /\ retrieveJob' = retrieveJob
          /\ \A e \in RetrieveCaller : e # c => call'[e] = call[e]
      BY <1>2, <1>3, <1>9 DEF R!WriteRebuilt, RP!Call
    <2>2. Direct(c)'
      BY <2>1 DEF Direct, FromDisc
    <2> QED
      BY <1>6, <2>1, <2>2
  <1>10. ASSUME NEW s \in {"members", "readMember", "fold", "write"},
                call'[c].pc = s, \A e \in RetrieveCaller : e # c => call'[e] = call[e],
                retrieveJob' = retrieveJob
         PROVE  DirectInv'
    <2>1. Direct(c)'
      BY <1>10 DEF Direct
    <2> QED
      BY <1>6, <1>10, <2>1
  <1>11. CASE (\/ R!ResolveGroup(c) \/ R!LookupMember(c) \/ R!ReadMember(c) \/ R!FoldImage(c))
              /\ ~(\E s : R!Return(c, s))
    <2>1. CASE R!ResolveGroup(c)
      <3>1. PICK g : call' = [call EXCEPT ![c].pc = "members", ![c].group = g]
        BY <1>11, <2>1 DEF R!ResolveGroup
      <3>2. retrieveJob' = retrieveJob
        BY <1>11, <2>1 DEF R!ResolveGroup
      <3> QED
        BY <1>2, <1>3, <1>10, <3>1, <3>2 DEF RP!Call
    <2>2. CASE R!LookupMember(c)
      <3>1. PICK x, y : call' = [call EXCEPT ![c].pc = "readMember", ![c].dry = x, ![c].parity = y]
        BY <1>11, <2>2 DEF R!LookupMember
      <3>2. retrieveJob' = retrieveJob
        BY <1>11, <2>2 DEF R!LookupMember
      <3> QED
        BY <1>2, <1>3, <1>10, <3>1, <3>2 DEF RP!Call
    <2>3. CASE R!ReadMember(c)
      <3>1. PICK x : call' = [call EXCEPT ![c].pc = "fold", ![c].image = x]
        BY <1>11, <2>3 DEF R!ReadMember
      <3>2. retrieveJob' = retrieveJob
        BY <1>11, <2>3 DEF R!ReadMember
      <3> QED
        BY <1>2, <1>3, <1>10, <3>1, <3>2 DEF RP!Call
    <2>4. CASE R!FoldImage(c)
      <3>1. PICK x : call' = [call EXCEPT ![c].pc = "write", ![c].image = x]
        BY <1>11, <2>4 DEF R!FoldImage
      <3>2. retrieveJob' = retrieveJob
        BY <1>11, <2>4 DEF R!FoldImage
      <3> QED
        BY <1>2, <1>3, <1>10, <3>1, <3>2 DEF RP!Call
    <2> QED
      BY <1>11, <2>1, <2>2, <2>3, <2>4
  <1>12. CASE \E s : R!Return(c, s)
    BY <1>5, <1>12
  <1>13. CASE R!ExtractFile(c) \/ R!NewReconstructor(c) \/ R!StepFails(c)
    BY <1>5, <1>13 DEF R!ExtractFile, R!NewReconstructor, R!StepFails
  <1> QED
    BY <1>7, <1>8, <1>9, <1>11, <1>12, <1>13 DEF R!RequestStep

LEMMA OperatorDirect ==
    ASSUME EInv, UNCHANGED burnVars, NEW c \in RetrieveCaller, R!OperatorStep(c)
    PROVE  DirectInv'
  <1>1. call \in [RetrieveCaller -> RP!Call \cup {RP!Idle}]
    BY DEF EInv, AInv, Control, RP!IInv, RP!TypeOK
  <1>2. retrieveJob.state # "NONE" /\ disks' = disks /\ media \subseteq media'
    BY DEF burnVars, R!OperatorStep, R!ClaimRead, R!ClaimReconstruction, R!ClaimMember, R!archiveVars,
           R!catalogVars
  <1>3. retrieveJob \in RP!Job
    BY <1>2 DEF EInv, AInv, Control, RP!IInv, RP!TypeOK, RP!NoJob, RP!Job
  <1>4. ASSUME NEW s, R!SetState(s),
               NEW pc \in {"lookup", "resolve", "lookupMember"}, NEW d, NEW m,
               call' = [call EXCEPT ![c] = R!NewCall(pc, d, m)],
               pc = "lookup" => d = retrieveJob.row.disk
        PROVE  DirectInv'
    <2>1. /\ retrieveJob'.row = retrieveJob.row
          /\ call'[c] = R!NewCall(pc, d, m)
          /\ \A e \in RetrieveCaller : e # c => call'[e] = call[e]
      BY <1>1, <1>3, <1>4 DEF R!SetState, RP!Job
    <2>2. Direct(c)'
      BY <1>4, <2>1 DEF Direct, R!NewCall
    <2> QED
      BY <1>2, <2>1, <2>2, DirectStep DEF EInv
  <1>5. ASSUME NEW m \in R!Label, R!ClaimRead(c, m) PROVE DirectInv'
    BY <1>4, <1>5 DEF R!ClaimRead
  <1>6. ASSUME R!ClaimReconstruction(c) PROVE DirectInv'
    BY <1>4, <1>6 DEF R!ClaimReconstruction
  <1>7. ASSUME NEW d \in R!Label, NEW m \in R!Label, R!ClaimMember(c, d, m)
        PROVE  DirectInv'
    BY <1>4, <1>7 DEF R!ClaimMember
  <1> QED
    BY <1>5, <1>6, <1>7 DEF R!OperatorStep

(* What leaves the requests and the job alone.                             *)
LEMMA DirectBeside ==
    ASSUME EInv, [Next]_vars, UNCHANGED <<retrieveJob, call>>
    PROVE  DirectInv'
  <1>1. RealRowsStay /\ media \subseteq media'
    BY RealStays, ShelfNext DEF EInv, AInv, Control
  <1> QED
    BY <1>1 DEF EInv, DirectInv, Direct, FromDisc, IsReal, RealRowsStay, R!IsoBlock

(* The steps of the program that concern a request.                        *)
LEMMA RequestSide ==
    ASSUME [Next]_vars
    PROVE  \/ UNCHANGED <<retrieveJob, call>>
           \/ \E row \in files : R!Start(row)
           \/ R!Crash
           \/ /\ UNCHANGED burnVars
              /\ \E c \in RetrieveCaller : R!OperatorStep(c) \/ R!RequestStep(c) \/ R!StepFails(c)
  <1>1. CASE RetrieveStep
    <2>1. ASSUME \/ R!DryRunPageStep(PageIDs)
                 \/ \E x \in Deleter : R!PageFails(x)
                 \/ R!ShareStep
          PROVE  UNCHANGED <<retrieveJob, call>>
      BY <2>1 DEF R!DryRunPageStep, R!PageFails, R!ShareStep, R!retrievalVars
    <2> QED
      BY <1>1, <2>1 DEF RetrieveStep
  <1>2. CASE StartRetrieve \/ Crash
    BY <1>2 DEF StartRetrieve, Crash
  <1> QED
    BY <1>1, <1>2 DEF Next, CheckRetrieveIdle, StartBurn, CheckBurnIdle, StartRefused, RetryDisc,
                      BurnStep, DiscDecays, OtherDiscTaken, vars, retrieveVars

LEMMA DirectNext ==
    ASSUME EInv, [Next]_vars
    PROVE  DirectInv'
  <1>1. ASSUME \A c \in RetrieveCaller : call'[c] = RP!Idle PROVE DirectInv'
    BY <1>1 DEF DirectInv, Direct, RP!Idle
  <1>2. ASSUME NEW row \in files, R!Start(row) PROVE DirectInv'
    <2>1. retrieveJob.state \notin RP!Working /\ call' = call
      BY <1>2 DEF R!Start, RP!Working
    <2>2. \A c \in RetrieveCaller : call[c] = RP!Idle
      BY <2>1 DEF EInv, AInv, Control, RP!IInv, RP!OneRequest
    <2> QED
      BY <1>1, <2>1, <2>2
  <1>3. CASE R!Crash
    BY <1>1, <1>3 DEF R!Crash, R!Idle, RP!Idle
  <1> QED
    BY <1>2, <1>3, RequestSide, DirectBeside, RequestDirect, OperatorDirect

LEMMA EInvInit == Init => EInv
  <1> SUFFICES ASSUME Init PROVE EInv
    OBVIOUS
  <1>1. AInv
    BY AInvInit
  <1>2. BP!MadeInv
    BY SameBurnInit DEF Init, BP!Init, BP!CatalogInit, BP!MadeInv
  <1>3. DirectInv
    BY DEF Init, R!Init, R!Idle, DirectInv, Direct
  <1> QED
    BY <1>1, <1>2, <1>3 DEF EInv

LEMMA EInvNext ==
    ASSUME ~EditsDuringBurn
    PROVE  EInv /\ [Next]_vars => EInv'
  BY AInvNext, MadeKept, DirectNext DEF EInv

LEMMA EndToEndInvariant ==
    ASSUME ~EditsDuringBurn
    PROVE  Spec => []EInv
  BY EInvInit, EInvNext, PTL DEF Spec

(* Only ExtractFile turns the job of a request that extracts into DONE.    *)
LEMMA OnlyExtractFile ==
    ASSUME Control, [Next]_vars, NEW c \in RetrieveCaller, call[c].pc = "extract",
           retrieveJob'.state = "DONE"
    PROVE  R!ExtractFile(c)
  <1>1. call[c] # RP!Idle
    BY DEF RP!Idle
  <1>2. /\ retrieveJob.state \in RP!Working
        /\ \A e \in RetrieveCaller : e # c => call[e] = RP!Idle
        /\ retrieveJob \in RP!Job
    BY <1>1, Requesting
  <1>3. ~UNCHANGED retrieveJob
    BY <1>2 DEF RP!Working
  <1>4. ~(\E row \in files : R!Start(row)) /\ ~R!Crash
    BY <1>2 DEF R!Start, R!Crash, R!NoJob, RP!Working
  <1>5. ASSUME NEW e \in RetrieveCaller, R!OperatorStep(e) PROVE FALSE
    BY <1>2, <1>5 DEF R!OperatorStep, R!ClaimRead, R!ClaimReconstruction, R!ClaimMember, RP!Working
  <1>6. ASSUME NEW e \in RetrieveCaller, R!RequestStep(e) \/ R!StepFails(e) PROVE e = c
    <2>1. call[e].pc # "idle" \/ call[e] # RP!Idle
      BY <1>6 DEF R!RequestStep, R!LookupDisk, R!ReadPayload, R!ExtractFile, R!ResolveGroup,
             R!NewReconstructor, R!LookupMember, R!ReadMember, R!FoldImage, R!WriteRebuilt,
             R!StepFails, R!Idle, RP!Idle
    <2> QED
      BY <1>2, <2>1 DEF RP!Idle
  <1>7. ~R!StepFails(c)
    <2>1. R!StepFails(c) => retrieveJob'.state # "DONE"
      BY <1>2 DEF R!StepFails, R!Return, R!SetState, R!AfterFailure, RP!Job
    <2> QED
      BY <2>1
  <1>8. R!RequestStep(c) => R!ExtractFile(c)
    BY DEF R!RequestStep, R!LookupDisk, R!ReadPayload, R!ResolveGroup, R!NewReconstructor,
           R!LookupMember, R!ReadMember, R!FoldImage, R!WriteRebuilt
  <1> QED
    BY <1>3, <1>4, <1>5, <1>6, <1>7, <1>8, RequestSide

LEMMA ExtractsTruth ==
    ASSUME EInv, [Next]_vars, NEW c \in RetrieveCaller, ReadsRealDisc(c),
           OnlyDiscOf(retrieveJob.row.disk), retrieveJob'.state = "DONE"
    PROVE  R!RetrievedTruthful'
  <1> DEFINE row == retrieveJob.row
             iso == disks[row.disk].iso
  <1>1. row \in files /\ call[c].pc = "extract" /\ FromDisc(c)
    BY DEF ReadsRealDisc, FromDisc
  <1>2. R!ExtractFile(c)
    BY <1>1, OnlyExtractFile DEF EInv, AInv
  <1>3. retrieveJob \in RP!Job
    <2>1. call[c] # RP!Idle
      BY <1>1 DEF RP!Idle
    <2> QED
      BY <2>1, Requesting DEF EInv, AInv
  <1>4. ~R!Return(c, "FAILED")
    BY <1>3 DEF R!Return, R!SetState, RP!Job
  <1>5. PICK x \in Content : /\ \E b \in call[c].image : <<row.path, x>> \in b.files
                             /\ retrieved' = R!Extend(retrieved, Base[row.path], x)
                             /\ R!Return(c, "DONE")
    BY <1>2, <1>4 DEF R!ExtractFile
  <1>6. PICK m \in media : m.id = row.disk /\ call[c].image = {R!IsoBlock(m)}
    BY <1>1 DEF EInv, DirectInv, Direct
  <1>7. IsReal(row.disk)
    BY <1>1 DEF EInv, DirectInv, Direct
  <1>8. iso \in media /\ <<row.path, row.hash>> \in iso.files
    BY <1>1, <1>7 DEF EInv, AInv, BP!SInv, BP!CatalogTruthful, BP!OnMedium, IsReal
  <1>9. iso.id = row.disk /\ BP!OneContentPerPath(iso.files)
    BY <1>7 DEF IsReal, EInv, BP!MadeInv, BP!WellMade
  <1>10. m = iso
    BY <1>6, <1>8, <1>9 DEF OnlyDiscOf
  <1>11. <<row.path, x>> \in iso.files
    BY <1>5, <1>6, <1>10 DEF R!IsoBlock
  <1>12. x = row.hash
    BY <1>8, <1>9, <1>11 DEF BP!OneContentPerPath
  <1>13. retrieveJob'.row = row
    BY <1>3, <1>5 DEF R!Return, R!SetState, RP!Job
  <1> QED
    BY <1>5, <1>12, <1>13 DEF R!RetrievedTruthful, R!Extend

(* From staging to disc and back, while the share is not edited during a   *)
(* burn: whatever burns, requests of the dry-run page, decay, wrong discs  *)
(* and crashes come between, a retrieval that extracts a file from a real  *)
(* disc, for a row that is still catalogued, delivers the content          *)
(* catalogued, if no second disc was burned with that disc's label.        *)
(* Nothing in the code excludes a second one: readFrom compares the label  *)
(* only (the run that violates WrongDiscRejected).                         *)
THEOREM DiscReadsAreTruthful ==
    ASSUME ~EditsDuringBurn
    PROVE  Spec => EndToEnd
  <1>1. EInv /\ [Next]_vars =>
          [\A c \in RetrieveCaller :
             (/\ ReadsRealDisc(c) /\ OnlyDiscOf(retrieveJob.row.disk)
              /\ retrieveJob'.state = "DONE") => (R!RetrievedTruthful)']_vars
    BY ExtractsTruth
  <1> QED
    BY <1>1, EndToEndInvariant, PTL DEF Spec, EndToEnd
=============================================================================
