--------------------------- MODULE BurnTypeProofs ---------------------------
(***************************************************************************)
(* Type correctness of the burn pipeline and mutual exclusion of its       *)
(* callers, for every value of the constants.                              *)
(***************************************************************************)
EXTENDS BurnPipeline, TLAPS, FiniteSetTheorems, SequenceTheorems

(* How far the locals of planJob have come in each phase.                  *)
PlanShape ==
    /\ planning.phase = "pack" => planning.plans = <<>>
    /\ planning.phase \in {"pack", "ids"} =>
         planning.withGroups = <<>> /\ planning.start = 0
    /\ planning.phase = "ids" =>
         /\ Len(planning.buckets) >= 1
         /\ Len(planning.plans) <= Len(planning.buckets)
    /\ planning.phase \in {"group", "parity"} => Len(planning.plans) >= 1
    /\ planning.phase = "group" /\ planning.start > 0 => Len(planning.withGroups) >= 1
    /\ planning.phase = "parity" => planning.start < Len(planning.plans)
    /\ planning.phase = "done" => Len(planning.withGroups) >= 1

(* There is a current disc unless the job is done, and Start plans only    *)
(* over a finished job.                                                    *)
JobShape ==
    /\ job.state \notin {"NONE", "DONE"} => job.idx <= Len(job.plans)
    /\ planning.phase # "idle" => job.state \in {"NONE", "DONE", "FAILED"}

WithImage == {"burn", "verify", "disk", "hash", "consume", "insert", "remove"}

RunShape ==
    \A c \in Caller : run[c] # Idle =>
        /\ run[c].step \in WithImage => ID(c) \in DOMAIN isos
        /\ run[c].step \in {"consume", "insert", "remove"} =>
             run[c].file \in Path /\ run[c].hash \in Content

TInv == TypeOK /\ PlanShape /\ JobShape /\ RunShape /\ OneRunner

-----------------------------------------------------------------------------
(* Dropping images keeps a partial function's type.                        *)
LEMMA WithoutType ==
    ASSUME NEW D, NEW R, NEW f, DOMAIN f \subseteq D, f \in [DOMAIN f -> R], NEW ids
    PROVE  /\ DOMAIN Without(f, ids) = DOMAIN f \ ids
           /\ DOMAIN Without(f, ids) \subseteq D
           /\ Without(f, ids) \in [DOMAIN Without(f, ids) -> R]
           /\ \A y \in DOMAIN f \ ids : Without(f, ids)[y] = f[y]
  BY DEF Without

(* The number of rows of a prefix is a natural number.                     *)
LEMMA CountType ==
    ASSUME IsFiniteSet(DOMAIN disks), NEW prefix
    PROVE  Count(prefix) \in Nat
  <1>1. {d \in DOMAIN disks : d.prefix = prefix} \in SUBSET DOMAIN disks
    OBVIOUS
  <1>2. IsFiniteSet({d \in DOMAIN disks : d.prefix = prefix})
    BY <1>1, FS_Subset
  <1> QED
    BY <1>2, FS_CardinalityType DEF Count

(* NextDiskID yields a disk ID.                                            *)
LEMMA NewIDType ==
    ASSUME IsFiniteSet(DOMAIN disks), planning \in Planning
    PROVE  NewID \in DiskID
  <1>1. planning.opts.prefix \in Prefix /\ planning.allocated \in Nat
    BY OptionsAssumption DEF Planning
  <1>2. Count(planning.opts.prefix) \in Nat
    BY CountType
  <1> QED
    BY <1>1, <1>2 DEF NewID, NextDiskID, DiskID

(* A scan is a set of file infos.                                          *)
LEMMA ScanType ==
    ASSUME PlannerTypeOK
    PROVE  ScanStaging \in SUBSET FileInfo
  BY SizeAssumption DEF PlannerTypeOK, ScanStaging, Staged, FileInfo

-----------------------------------------------------------------------------
PipelineTypeOK ==
    /\ run \in [Caller -> Run \cup {Idle}]
    /\ DOMAIN isos \subseteq DiskID /\ isos \in [DOMAIN isos -> Image]
    /\ vols \subseteq DiskID
    /\ media \subseteq Image
    /\ DOMAIN dryRun \subseteq DiskID
    /\ dryRun \in [DOMAIN dryRun -> Image \cup {Corrupt}]
    /\ removed \subseteq Removal
    /\ faults \in 0..MaxFaults
    /\ edits \in 0..MaxEdits

(* TypeOK in three parts, so that a step proves only the part it changes.  *)
LEMMA TypeParts == TypeOK <=> CatalogTypeOK /\ PlannerTypeOK /\ PipelineTypeOK
  BY DEF TypeOK, PipelineTypeOK

(* What a step that leaves the pipeline's own state alone preserves.       *)
LEMMA PipelineFrame ==
    ASSUME TInv, UNCHANGED pipelineVars,
           job.state \in Claimed <=> job'.state \in Claimed
    PROVE  PipelineTypeOK' /\ RunShape' /\ OneRunner'
  <1>1. PipelineTypeOK'
    BY TypeParts DEF TInv, PipelineTypeOK, pipelineVars
  <1>2. RunShape'
    BY DEF TInv, RunShape, pipelineVars, ID
  <1>3. OneRunner'
    BY DEF TInv, OneRunner, pipelineVars
  <1> QED
    BY <1>1, <1>2, <1>3

(* Everything planJob does before Start installs the job.                  *)
LEMMA PlanningFrame ==
    ASSUME TInv, UNCHANGED <<disks, files, metadata, staging, job, pipelineVars>>,
           planning.phase # "idle", groups' \in Seq(Nat),
           planning' \in Planning, PlanShape'
    PROVE  TInv'
  <1>1. CatalogTypeOK' /\ PlannerTypeOK'
    BY DEF TInv, TypeOK, CatalogTypeOK, PlannerTypeOK
  <1>2. PipelineTypeOK' /\ RunShape' /\ OneRunner'
    BY PipelineFrame
  <1>3. JobShape'
    BY DEF TInv, JobShape
  <1> QED
    BY <1>1, <1>2, <1>3, TypeParts DEF TInv, TypeOK, PipelineTypeOK

(* While planJob runs its locals are a Planning record.                    *)
LEMMA PlanningType ==
    ASSUME TInv, planning.phase # "idle"
    PROVE  planning \in Planning /\ groups \in Seq(Nat) /\ IsFiniteSet(DOMAIN disks)
  BY DEF TInv, TypeOK, CatalogTypeOK, PlannerTypeOK, NoPlanning

(* Pack's loop keeps the locals' type and shape.                           *)
LEMMA PackFileType == TInv /\ PackFile /\ UNCHANGED pipelineVars => TInv'
  <1> SUFFICES ASSUME TInv, PackFile, UNCHANGED pipelineVars PROVE TInv'
    OBVIOUS
  <1>1. planning \in Planning /\ groups \in Seq(Nat)
    BY PlanningType DEF PackFile
  <1>2. PICK f \in planning.todo :
          planning' =
              IF CloseBucket(f)
              THEN [planning EXCEPT !.todo = @ \ {f},
                                    !.current = AddFile(EmptyBucket, f),
                                    !.buckets = Append(@, planning.current)]
              ELSE [planning EXCEPT !.todo = @ \ {f},
                                    !.current = AddFile(@, f)]
    BY DEF PackFile
  <1>3. f \in FileInfo
    BY <1>1 DEF Planning
  <1>4. AddFile(EmptyBucket, f) \in Bucket /\ AddFile(planning.current, f) \in Bucket
    BY <1>1, <1>3 DEF Planning, AddFile, EmptyBucket, Bucket, FileInfo
  <1>5. Append(planning.buckets, planning.current) \in Seq(Bucket)
    BY <1>1 DEF Planning
  <1>6. planning' \in Planning /\ planning'.phase = "pack"
    BY <1>1, <1>2, <1>4, <1>5 DEF Planning, PackFile
  <1>7. UNCHANGED <<planning.plans, planning.withGroups, planning.start>>
    BY <1>1, <1>2 DEF Planning
  <1>8. PlanShape'
    BY <1>6, <1>7 DEF PlanShape, TInv, PackFile
  <1> QED
    BY <1>1, <1>6, <1>8, PlanningFrame DEF PackFile, catalogVars

(* The last bucket leaves at least one bucket to number.                   *)
LEMMA PackLastType == TInv /\ PackLast /\ UNCHANGED pipelineVars => TInv'
  <1> SUFFICES ASSUME TInv, PackLast, UNCHANGED pipelineVars PROVE TInv'
    OBVIOUS
  <1>1. planning \in Planning /\ groups \in Seq(Nat)
    BY PlanningType DEF PackLast
  <1>2. Append(planning.buckets, planning.current) \in Seq(Bucket)
    BY <1>1 DEF Planning
  <1>3. EmptyBucket \in Bucket
    BY DEF EmptyBucket, Bucket
  <1>4. planning' \in Planning
    BY <1>1, <1>2, <1>3 DEF Planning, PackLast, Phase
  <1>5. Len(planning'.buckets) >= 1 /\ planning'.plans = <<>>
    BY <1>1 DEF PackLast, Planning, PlanShape, TInv
  <1>6. PlanShape'
    BY <1>1, <1>4, <1>5 DEF PackLast, Planning, PlanShape, TInv
  <1> QED
    BY <1>1, <1>4, <1>6, PlanningFrame DEF PackLast, catalogVars

(* Numbering a bucket appends a data disc plan.                            *)
LEMMA PlanDiscType == TInv /\ PlanDisc /\ UNCHANGED pipelineVars => TInv'
  <1> SUFFICES ASSUME TInv, PlanDisc, UNCHANGED pipelineVars PROVE TInv'
    OBVIOUS
  <1>1. planning \in Planning /\ groups \in Seq(Nat) /\ NewID \in DiskID
    BY PlanningType, NewIDType DEF PlanDisc
  <1> DEFINE d == [id |-> NewID, role |-> "data", group |-> NoGroup, slot |-> 0,
                   bucket |-> planning.buckets[Len(planning.plans) + 1]]
  <1>2. planning.buckets[Len(planning.plans) + 1] \in Bucket
    BY <1>1 DEF PlanDisc, Planning
  <1>3. d \in DiscPlan
    BY <1>1, <1>2 DEF DiscPlan, Role, NoGroup
  <1>4. Append(planning.plans, d) \in Seq(DiscPlan)
    BY <1>1, <1>3 DEF Planning
  <1>5. planning' = [planning EXCEPT !.allocated = @ + 1, !.plans = Append(@, d)]
    BY DEF PlanDisc
  <1> HIDE DEF d
  <1>a. planning.allocated + 1 \in Nat
    BY <1>1 DEF Planning
  <1>6. planning' \in Planning
    BY <1>1, <1>4, <1>5, <1>a DEF Planning
  <1>7. Len(planning'.plans) = Len(planning.plans) + 1
    BY <1>1, <1>3, <1>5 DEF Planning
  <1>8. PlanShape'
    BY <1>1, <1>5, <1>6, <1>7 DEF PlanDisc, Planning, PlanShape, TInv
  <1> QED
    BY <1>1, <1>6, <1>8, PlanningFrame DEF PlanDisc, catalogVars

(* Without groups the plans are final; there is at least one.              *)
LEMMA PlansCompleteType == TInv /\ PlansComplete /\ UNCHANGED pipelineVars => TInv'
  <1> SUFFICES ASSUME TInv, PlansComplete, UNCHANGED pipelineVars PROVE TInv'
    OBVIOUS
  <1>1. planning \in Planning /\ groups \in Seq(Nat)
    BY PlanningType DEF PlansComplete
  <1>2. planning' \in Planning
    BY <1>1 DEF PlansComplete, Planning, Phase
  <1>3. PlanShape'
    BY <1>1 DEF PlansComplete, Planning, PlanShape, TInv
  <1> QED
    BY <1>1, <1>2, <1>3, PlanningFrame DEF PlansComplete, catalogVars

(* A group has at least two places.                                        *)
LEMMA GroupSizeType ==
    ASSUME NEW opts \in Options
    PROVE  EffectiveGroupSize(opts) \in Nat /\ EffectiveGroupSize(opts) > 1
  BY OptionsAssumption DEF EffectiveGroupSize

(* A group is a non-empty interval of the plans.                           *)
LEMMA GroupEndType ==
    ASSUME planning \in Planning, planning.start < Len(planning.plans)
    PROVE  /\ GroupEnd \in Nat
           /\ GroupEnd > planning.start
           /\ GroupEnd <= Len(planning.plans)
  <1>1. /\ EffectiveGroupSize(planning.opts) \in Nat
        /\ EffectiveGroupSize(planning.opts) > 1
    BY GroupSizeType DEF Planning
  <1>2. planning.start \in Nat /\ Len(planning.plans) \in Nat
    BY DEF Planning
  <1> QED
    BY <1>1, <1>2 DEF GroupEnd

(* The members PlanGroup appends.                                          *)
Members ==
    [i \in 1..(GroupEnd - planning.start) |->
       [planning.plans[planning.start + i] EXCEPT
          !.group = Len(groups) + 1, !.slot = i - 1]]

(* A plan with its group and slot is a plan.                               *)
LEMMA PlacedType ==
    ASSUME NEW p \in DiscPlan, NEW g \in Nat, NEW n \in Nat
    PROVE  [p EXCEPT !.group = g, !.slot = n] \in DiscPlan
  BY DEF DiscPlan

(* The members of a group form a sequence of plans.                        *)
LEMMA MembersType ==
    ASSUME planning \in Planning, groups \in Seq(Nat),
           planning.start < Len(planning.plans)
    PROVE  Members \in Seq(DiscPlan) /\ Len(Members) = GroupEnd - planning.start
  <1>1. GroupEnd - planning.start \in Nat /\ Len(groups) \in Nat /\ planning.start \in Nat
    BY GroupEndType DEF Planning
  <1>2. \A i \in 1..(GroupEnd - planning.start) :
          planning.plans[planning.start + i] \in DiscPlan
    BY <1>1, GroupEndType DEF Planning
  <1>3. ASSUME NEW i \in 1..(GroupEnd - planning.start)
        PROVE  [planning.plans[planning.start + i] EXCEPT
                  !.group = Len(groups) + 1, !.slot = i - 1] \in DiscPlan
    <2>1. i - 1 \in Nat /\ Len(groups) + 1 \in Nat
      BY <1>1
    <2> QED
      BY <1>2, <2>1, PlacedType
  <1>4. Members \in [1..(GroupEnd - planning.start) -> DiscPlan]
    BY <1>3 DEF Members
  <1> QED
    BY <1>1, <1>4, IsASeq

(* Planning a group's members keeps type and shape.                        *)
LEMMA PlanGroupType == TInv /\ PlanGroup /\ UNCHANGED pipelineVars => TInv'
  <1> SUFFICES ASSUME TInv, PlanGroup, UNCHANGED pipelineVars PROVE TInv'
    OBVIOUS
  <1>1. planning \in Planning /\ groups \in Seq(Nat)
    BY PlanningType DEF PlanGroup
  <1>2. Members \in Seq(DiscPlan) /\ Len(Members) >= 1
    BY <1>1, MembersType, GroupEndType DEF PlanGroup, Planning
  <1>3. planning' = [planning EXCEPT !.phase = "parity", !.withGroups = @ \o Members]
    BY DEF PlanGroup, Members
  <1>4. planning.withGroups \o Members \in Seq(DiscPlan)
    BY <1>1, <1>2 DEF Planning
  <1>5. planning' \in Planning
    BY <1>1, <1>3, <1>4 DEF Planning, Phase
  <1>6. groups' \in Seq(Nat)
    BY <1>1, GroupEndType DEF PlanGroup, InsertDiskGroup, Planning
  <1>7. PlanShape'
    BY <1>1, <1>3, <1>5 DEF PlanGroup, Planning, PlanShape, TInv
  <1> QED
    BY <1>1, <1>5, <1>6, <1>7, PlanningFrame DEF PlanGroup

(* Planning a group's parity disc keeps type and shape.                    *)
LEMMA PlanParityType == TInv /\ PlanParity /\ UNCHANGED pipelineVars => TInv'
  <1> SUFFICES ASSUME TInv, PlanParity, UNCHANGED pipelineVars PROVE TInv'
    OBVIOUS
  <1>1. planning \in Planning /\ groups \in Seq(Nat) /\ NewID \in DiskID
    BY PlanningType, NewIDType DEF PlanParity
  <1> DEFINE d == [id |-> NewID, role |-> "parity", group |-> Len(groups),
                   slot |-> ParitySlot, bucket |-> EmptyBucket]
  <1>2. ParitySlot \in Nat
    BY <1>1, GroupEndType DEF Planning, TInv, PlanShape, PlanParity, ParitySlot
  <1>3. d \in DiscPlan
    BY <1>1, <1>2 DEF DiscPlan, Role, Bucket, EmptyBucket
  <1>4. /\ Append(planning.withGroups, d) \in Seq(DiscPlan)
        /\ Len(Append(planning.withGroups, d)) >= 1
    BY <1>1, <1>3 DEF Planning
  <1>5. planning' = [planning EXCEPT
                       !.phase = "group", !.allocated = @ + 1,
                       !.start = planning.start + EffectiveGroupSize(planning.opts),
                       !.withGroups = Append(@, d)]
    BY DEF PlanParity
  <1> HIDE DEF d
  <1>6. /\ planning.start + EffectiveGroupSize(planning.opts) \in Nat
        /\ planning.allocated + 1 \in Nat
    BY <1>1, GroupSizeType DEF Planning
  <1>7. planning' \in Planning
    BY <1>1, <1>4, <1>5, <1>6 DEF Planning, Phase
  <1>8. PlanShape'
    BY <1>1, <1>4, <1>5 DEF PlanParity, Planning, PlanShape, TInv
  <1> QED
    BY <1>1, <1>7, <1>8, PlanningFrame DEF PlanParity, catalogVars

(* When the groups are complete some disc is planned.                      *)
LEMMA GroupsCompleteType == TInv /\ GroupsComplete /\ UNCHANGED pipelineVars => TInv'
  <1> SUFFICES ASSUME TInv, GroupsComplete, UNCHANGED pipelineVars PROVE TInv'
    OBVIOUS
  <1>1. planning \in Planning /\ groups \in Seq(Nat)
    BY PlanningType DEF GroupsComplete
  <1>2. planning' \in Planning
    BY <1>1 DEF GroupsComplete, Planning, Phase
  <1>3. PlanShape'
    BY <1>1 DEF GroupsComplete, Planning, PlanShape, TInv
  <1> QED
    BY <1>1, <1>2, <1>3, PlanningFrame DEF GroupsComplete, catalogVars

(* Start installs a job that has a current disc.                           *)
LEMMA FinishStartType == TInv /\ FinishStart /\ UNCHANGED pipelineVars => TInv'
  <1> SUFFICES ASSUME TInv, FinishStart, UNCHANGED pipelineVars PROVE TInv'
    OBVIOUS
  <1>1. planning \in Planning
    BY PlanningType DEF FinishStart
  <1>2. job' \in Job /\ planning' = NoPlanning
    BY <1>1 DEF FinishStart, Planning, Job, State
  <1>3. job.state \notin Claimed /\ job'.state \notin Claimed
    BY DEF TInv, JobShape, FinishStart, Claimed
  <1>4. PipelineTypeOK' /\ RunShape' /\ OneRunner'
    BY <1>3, PipelineFrame
  <1>5. CatalogTypeOK' /\ PlannerTypeOK'
    BY <1>2 DEF TInv, TypeOK, CatalogTypeOK, PlannerTypeOK, FinishStart, catalogVars
  <1>6. PlanShape' /\ JobShape'
    BY <1>1, <1>2 DEF TInv, PlanShape, JobShape, FinishStart, NoPlanning, Planning
  <1> QED
    BY <1>4, <1>5, <1>6, TypeParts DEF TInv, TypeOK, PipelineTypeOK

-----------------------------------------------------------------------------
(* A caller inside runDisc: the job is claimed, by nobody else.            *)
LEMMA RunnerFacts ==
    ASSUME TInv, NEW c \in Caller, run[c].step \in Step
    PROVE  /\ run[c] \in Run /\ run[c] # Idle
           /\ job \in Job /\ job.state \in Claimed
           /\ planning = NoPlanning
           /\ job.idx <= Len(job.plans)
           /\ ID(c) \in DiskID
           /\ BucketPaths(run[c].plan) \in SUBSET Path
           /\ \A d \in Caller : d # c => run[d] = Idle
  <1>1. run[c] \in Run /\ run[c] # Idle
    BY DEF TInv, TypeOK, Idle, Step
  <1>2. job.state \in Claimed
    BY <1>1 DEF TInv, OneRunner
  <1>3. job \in Job
    BY <1>2 DEF TInv, TypeOK, PlannerTypeOK, NoJob, Claimed
  <1>4. planning = NoPlanning
    BY <1>2 DEF TInv, JobShape, TypeOK, PlannerTypeOK, Planning, Phase, Claimed
  <1>5. job.idx <= Len(job.plans)
    BY <1>2 DEF TInv, JobShape, Claimed
  <1>6. ID(c) \in DiskID /\ BucketPaths(run[c].plan) \in SUBSET Path
    BY <1>1 DEF ID, Run, DiscPlan, BucketPaths, Bucket, FileInfo
  <1>7. \A d \in Caller : d # c => run[d] = Idle
    BY <1>1 DEF TInv, OneRunner
  <1> QED
    BY <1>1, <1>2, <1>3, <1>4, <1>5, <1>6, <1>7

(* The control state after a step of runDisc that does not return.         *)
LEMMA ProceedFrame ==
    ASSUME TInv, NEW c \in Caller, run[c].step \in Step,
           NEW r \in Run, run' = [run EXCEPT ![c] = r],
           job' = job \/ \E s \in Claimed : SetState(s),
           planning' = planning,
           r.step \in WithImage => r.plan.id \in DOMAIN isos',
           r.step \in {"consume", "insert", "remove"} => r.file \in Path /\ r.hash \in Content
    PROVE  /\ run' \in [Caller -> Run \cup {Idle}]
           /\ job' \in Job
           /\ PlanShape' /\ JobShape' /\ RunShape' /\ OneRunner'
  <1>1. /\ job \in Job /\ job.state \in Claimed /\ planning = NoPlanning
        /\ job.idx <= Len(job.plans)
        /\ \A d \in Caller : d # c => run[d] = Idle
    BY RunnerFacts
  <1>2. run \in [Caller -> Run \cup {Idle}]
    BY DEF TInv, TypeOK
  <1>3. job' \in Job /\ job'.state \in Claimed /\ job'.idx <= Len(job'.plans)
    BY <1>1 DEF SetState, Job, State, Claimed
  <1>4. run' \in [Caller -> Run \cup {Idle}] /\ run'[c] = r
    BY <1>2
  <1>5. \A d \in Caller : d # c => run'[d] = Idle
    BY <1>1, <1>2
  <1>6. r # Idle
    BY DEF Run, Idle, Step
  <1>7. OneRunner'
    BY <1>3, <1>4, <1>5, <1>6 DEF OneRunner
  <1>8. RunShape'
    BY <1>4, <1>5 DEF RunShape, ID
  <1>9. PlanShape' /\ JobShape'
    BY <1>1, <1>3 DEF PlanShape, JobShape, NoPlanning, Claimed
  <1> QED
    BY <1>3, <1>4, <1>7, <1>8, <1>9

(* The control state after runDisc returned an error.                      *)
LEMMA FailFrame ==
    ASSUME TInv, NEW c \in Caller, run[c].step \in Step, Fail(c), planning' = planning
    PROVE  /\ run' \in [Caller -> Run \cup {Idle}]
           /\ job' \in Job
           /\ PlanShape' /\ JobShape' /\ RunShape' /\ OneRunner'
  <1>1. /\ job \in Job /\ job.state \in Claimed /\ planning = NoPlanning
        /\ job.idx <= Len(job.plans)
        /\ \A d \in Caller : d # c => run[d] = Idle
    BY RunnerFacts
  <1>2. run \in [Caller -> Run \cup {Idle}]
    BY DEF TInv, TypeOK
  <1>3. /\ job' \in Job /\ job'.state = "FAILED" /\ job'.idx = job.idx
        /\ job'.plans = job.plans
    BY <1>1 DEF Fail, SetState, Job, State
  <1>4. run' \in [Caller -> Run \cup {Idle}] /\ \A d \in Caller : run'[d] = Idle
    BY <1>1, <1>2 DEF Fail
  <1>5. RunShape' /\ OneRunner'
    BY <1>3, <1>4 DEF RunShape, OneRunner, Claimed
  <1>6. PlanShape' /\ JobShape'
    BY <1>1, <1>3 DEF PlanShape, JobShape, NoPlanning
  <1> QED
    BY <1>3, <1>4, <1>5, <1>6

(* The rest of the state is type correct when nothing of it changed.       *)
LEMMA DataFrame ==
    ASSUME TInv, run' \in [Caller -> Run \cup {Idle}], job' \in Job,
           UNCHANGED <<catalogVars, staging, planning, isos, vols, media, dryRun,
                       removed, faults, edits>>
    PROVE  TypeOK'
  BY DEF TInv, TypeOK, CatalogTypeOK, PlannerTypeOK, catalogVars

-----------------------------------------------------------------------------
(* The claim turns no runner and AWAITING_DISC into one runner and PACKING.*)
LEMMA ClaimType ==
    ASSUME TInv, NEW c \in Caller, Claim(c)
    PROVE  TInv'
  <1>1. job \in Job /\ job.idx \in DOMAIN job.plans
    BY DEF TInv, TypeOK, PlannerTypeOK, JobShape, Claim, NoJob, Job
  <1>2. planning = NoPlanning
    BY DEF TInv, TypeOK, PlannerTypeOK, Planning, Phase, Claim
  <1>3. \A d \in Caller : run[d] = Idle
    BY DEF TInv, OneRunner, Claim, Claimed
  <1> DEFINE r == [step |-> "clear", plan |-> job.plans[job.idx],
                   image |-> NoImage(job.plans[job.idx].id), good |-> FALSE,
                   todo |-> {}, file |-> 0, hash |-> Absent, tagged |-> FALSE]
  <1>4. job.plans[job.idx] \in DiscPlan
    BY <1>1 DEF Job
  <1>5. NoImage(job.plans[job.idx].id) \in Image
    BY <1>4 DEF NoImage, Image, DiscPlan, FileCopy, DataImage
  <1>6. r \in Run
    BY <1>4, <1>5 DEF Run, Step
  <1>7. run' = [run EXCEPT ![c] = r]
    BY DEF Claim
  <1>8. r.step = "clear"
    OBVIOUS
  <1> HIDE DEF r
  <1>9. /\ run' \in [Caller -> Run \cup {Idle}] /\ run'[c] = r
        /\ \A d \in Caller : d # c => run'[d] = Idle
    BY <1>3, <1>6, <1>7 DEF TInv, TypeOK
  <1>10. /\ job' \in Job /\ job'.state = "PACKING" /\ job'.idx = job.idx
         /\ job'.plans = job.plans
    BY <1>1 DEF Claim, SetState, Job, State
  <1>11. r # Idle
    BY <1>8 DEF Idle
  <1>12. RunShape' /\ OneRunner'
    BY <1>8, <1>9, <1>10, <1>11 DEF RunShape, OneRunner, Claimed, WithImage
  <1>13. PlanShape' /\ JobShape'
    BY <1>1, <1>2, <1>10 DEF PlanShape, JobShape, NoPlanning, Claim, Job
  <1>14. TypeOK'
    BY <1>9, <1>10, DataFrame DEF Claim
  <1> QED
    BY <1>12, <1>13, <1>14 DEF TInv

(* Clearing the spool keeps it a table of images.                          *)
LEMMA ClearStaleType ==
    ASSUME TInv, NEW c \in Caller, ClearStale(c)
    PROVE  TInv'
  <1>1. /\ run[c].step \in Step /\ run[c] \in Run /\ job \in Job /\ ID(c) \in DiskID
        /\ BucketPaths(run[c].plan) \in SUBSET Path
    BY RunnerFacts DEF ClearStale, Step
  <1>2. run \in [Caller -> Run \cup {Idle}]
    BY DEF TInv, TypeOK
  <1> DEFINE r == [run[c] EXCEPT !.step = "pack"]
  <1>3. r \in Run /\ r.step = "pack" /\ run' = [run EXCEPT ![c] = r]
    BY <1>1, <1>2 DEF ClearStale, Goto, Run, Step
  <1>4. \E s \in Claimed : SetState(s)
    BY DEF ClearStale, Claimed
  <1> HIDE DEF r
  <1>5. /\ run' \in [Caller -> Run \cup {Idle}] /\ job' \in Job
        /\ PlanShape' /\ JobShape' /\ RunShape' /\ OneRunner'
    BY <1>1, <1>3, <1>4, ProceedFrame DEF ClearStale, WithImage
  <1>6. DOMAIN isos' \subseteq DiskID /\ isos' \in [DOMAIN isos' -> Image]
    BY WithoutType DEF ClearStale, TInv, TypeOK
  <1>7. TypeOK'
    BY <1>5, <1>6 DEF ClearStale, TInv, TypeOK, CatalogTypeOK, PlannerTypeOK, catalogVars
  <1> QED
    BY <1>5, <1>7 DEF TInv

(* Every packed path is staged, so the image holds contents.               *)
LEMMA PackDataType ==
    ASSUME TInv, NEW c \in Caller, PackData(c)
    PROVE  TInv'
  <1>1. /\ run[c].step \in Step /\ run[c] \in Run /\ job \in Job /\ ID(c) \in DiskID
        /\ BucketPaths(run[c].plan) \in SUBSET Path
    BY RunnerFacts DEF PackData, Step
  <1>2. run \in [Caller -> Run \cup {Idle}]
    BY DEF TInv, TypeOK
  <1>3. CASE Packable(c)
    <2> DEFINE img == [id |-> ID(c), xor |-> {},
                       files |-> {<<p, staging[p]>> : p \in BucketPaths(run[c].plan)}]
               r == [run[c] EXCEPT !.step = "parity", !.image = img]
    <2>1. \A p \in BucketPaths(run[c].plan) : p \in Path /\ staging[p] \in Content
      BY <1>3 DEF Packable, Staged, TInv, TypeOK, PlannerTypeOK
    <2>2. img \in Image
      BY <1>1, <2>1 DEF Image, FileCopy
    <2>3. run' = [run EXCEPT ![c] = r] /\ \E s \in Claimed : SetState(s)
      BY <1>2, <1>3 DEF PackData, Claimed
    <2> HIDE DEF img
    <2>4. r \in Run /\ r.step = "parity"
      BY <1>1, <2>2 DEF Run, Step
    <2> HIDE DEF r
    <2> QED
      BY <1>1, <2>3, <2>4, ProceedFrame, DataFrame DEF PackData, WithImage, TInv
  <1>4. CASE ~Packable(c)
    BY <1>1, <1>4, FailFrame, DataFrame DEF PackData, TInv
  <1> QED
    BY <1>3, <1>4

(* The XORed images come from the spool.                                   *)
LEMMA PackParityType ==
    ASSUME TInv, NEW c \in Caller, PackParity(c)
    PROVE  TInv'
  <1>1. /\ run[c].step \in Step /\ run[c] \in Run /\ job \in Job /\ ID(c) \in DiskID
        /\ BucketPaths(run[c].plan) \in SUBSET Path
    BY RunnerFacts DEF PackParity, Step
  <1>2. run \in [Caller -> Run \cup {Idle}]
    BY DEF TInv, TypeOK
  <1> DEFINE members == GroupData(run[c].plan)
  <1>3. CASE members \subseteq DOMAIN isos /\ members # {}
    <2> DEFINE img == [id |-> ID(c), files |-> {},
                       xor |-> {[id |-> isos[d].id, files |-> isos[d].files] :
                                  d \in members}]
               r == [run[c] EXCEPT !.step = "parity", !.image = img]
    <2>1. run' = [run EXCEPT ![c] = r] /\ \E s \in Claimed : SetState(s)
      BY <1>2, <1>3 DEF PackParity, Claimed
    <2> HIDE DEF members
    <2>2. \A d \in members : isos[d] \in Image
      BY <1>3 DEF TInv, TypeOK
    <2>3. \A d \in members : [id |-> isos[d].id, files |-> isos[d].files] \in DataImage
      BY <2>2 DEF Image, DataImage
    <2>4. img \in Image
      BY <1>1, <2>3 DEF Image
    <2> HIDE DEF img
    <2>5. r \in Run /\ r.step = "parity"
      BY <1>1, <2>4 DEF Run, Step
    <2> HIDE DEF r
    <2> QED
      BY <1>1, <2>1, <2>5, ProceedFrame, DataFrame DEF PackParity, WithImage, TInv
  <1>4. CASE ~(members \subseteq DOMAIN isos /\ members # {})
    BY <1>1, <1>4, FailFrame, DataFrame DEF PackParity, TInv
  <1> QED
    BY <1>3, <1>4

(* par2create records its volumes or fails the disc.                       *)
LEMMA CreateParityType ==
    ASSUME TInv, NEW c \in Caller, CreateParity(c)
    PROVE  TInv'
  <1>1. /\ run[c].step \in Step /\ run[c] \in Run /\ job \in Job /\ ID(c) \in DiskID
        /\ BucketPaths(run[c].plan) \in SUBSET Path
    BY RunnerFacts DEF CreateParity, Step
  <1>2. run \in [Caller -> Run \cup {Idle}]
    BY DEF TInv, TypeOK
  <1>3. CASE Fail(c) /\ UNCHANGED vols
    BY <1>1, <1>3, FailFrame, DataFrame DEF CreateParity, TInv
  <1>4. CASE /\ vols' = vols \cup {ID(c)}
             /\ SetState("ISO")
             /\ Goto(c, "iso")
    <2> DEFINE r == [run[c] EXCEPT !.step = "iso"]
    <2>1. r \in Run /\ r.step = "iso" /\ run' = [run EXCEPT ![c] = r]
      BY <1>1, <1>2, <1>4 DEF CreateParity, Goto, Run, Step
    <2>2. \E s \in Claimed : SetState(s)
      BY <1>4 DEF CreateParity, Claimed
    <2> HIDE DEF r
    <2>3. /\ run' \in [Caller -> Run \cup {Idle}] /\ job' \in Job
          /\ PlanShape' /\ JobShape' /\ RunShape' /\ OneRunner'
      BY <1>1, <2>1, <2>2, ProceedFrame DEF CreateParity, WithImage
    <2>4. vols' \subseteq DiskID
      BY <1>1, <1>4 DEF CreateParity, TInv, TypeOK
    <2>5. TypeOK'
      BY <2>3, <2>4 DEF CreateParity, TInv, TypeOK, CatalogTypeOK, PlannerTypeOK, catalogVars
    <2> QED
      BY <2>3, <2>5 DEF TInv
  <1> QED
    BY <1>3, <1>4 DEF CreateParity

(* The image is in the spool from here on.                                 *)
LEMMA BuildISOType ==
    ASSUME TInv, NEW c \in Caller, BuildISO(c)
    PROVE  TInv'
  <1>1. /\ run[c].step \in Step /\ run[c] \in Run /\ job \in Job /\ ID(c) \in DiskID
        /\ BucketPaths(run[c].plan) \in SUBSET Path
    BY RunnerFacts DEF BuildISO, Step
  <1>2. run \in [Caller -> Run \cup {Idle}]
    BY DEF TInv, TypeOK
  <1> DEFINE r == [run[c] EXCEPT !.step = "burn"]
  <1>3. r \in Run /\ r.step = "burn" /\ r.plan = run[c].plan /\ run' = [run EXCEPT ![c] = r]
    BY <1>1, <1>2 DEF BuildISO, Goto, Run, Step
  <1>4. \E s \in Claimed : SetState(s)
    BY DEF BuildISO, Claimed
  <1> HIDE DEF r
  <1>5. run[c].image \in Image
    BY <1>1 DEF Run
  <1>6. /\ DOMAIN isos' = DOMAIN isos \cup {ID(c)}
        /\ DOMAIN isos' \subseteq DiskID /\ isos' \in [DOMAIN isos' -> Image]
    <2>1. DOMAIN isos \subseteq DiskID /\ isos \in [DOMAIN isos -> Image]
      BY DEF TInv, TypeOK
    <2>2. isos' = Extend(isos, ID(c), run[c].image)
      BY DEF BuildISO
    <2> DEFINE e == Extend(isos, ID(c), run[c].image)
    <2>3. /\ DOMAIN e = DOMAIN isos \cup {ID(c)}
          /\ DOMAIN e \subseteq DiskID /\ e \in [DOMAIN e -> Image]
      BY <1>1, <1>5, <2>1 DEF Extend
    <2> QED
      BY <2>2, <2>3
  <1>7. /\ run' \in [Caller -> Run \cup {Idle}] /\ job' \in Job
        /\ PlanShape' /\ JobShape' /\ RunShape' /\ OneRunner'
    BY <1>1, <1>3, <1>4, <1>6, ProceedFrame DEF BuildISO, ID
  <1>8. TypeOK'
    BY <1>6, <1>7 DEF BuildISO, TInv, TypeOK, CatalogTypeOK, PlannerTypeOK, catalogVars
  <1> QED
    BY <1>7, <1>8 DEF TInv

(* The dry-run copy comes from the spool.                                  *)
LEMMA WriteDryRunType ==
    ASSUME TInv, NEW c \in Caller, WriteDryRun(c)
    PROVE  TInv'
  <1>1. /\ run[c].step \in Step /\ run[c] \in Run /\ job \in Job /\ ID(c) \in DiskID
        /\ BucketPaths(run[c].plan) \in SUBSET Path
    BY RunnerFacts DEF WriteDryRun, Step
  <1>2. run \in [Caller -> Run \cup {Idle}]
    BY DEF TInv, TypeOK
  <1> DEFINE r == [run[c] EXCEPT !.step = "disk"]
  <1>3. r \in Run /\ r.step = "disk" /\ r.plan = run[c].plan /\ run' = [run EXCEPT ![c] = r]
    BY <1>1, <1>2 DEF WriteDryRun, Goto, Run, Step
  <1> HIDE DEF r
  <1>4. ID(c) \in DOMAIN isos /\ isos[ID(c)] \in Image
    BY <1>1, RunnerFacts DEF WriteDryRun, WithImage, TInv, TypeOK, RunShape
  <1>5. DOMAIN dryRun' \subseteq DiskID /\ dryRun' \in [DOMAIN dryRun' -> Image \cup {Corrupt}]
    <2>1. DOMAIN dryRun \subseteq DiskID /\ dryRun \in [DOMAIN dryRun -> Image \cup {Corrupt}]
      BY DEF TInv, TypeOK
    <2> DEFINE e == Extend(dryRun, ID(c), isos[ID(c)])
    <2>2. dryRun' = e /\ isos[ID(c)] \in Image \cup {Corrupt}
      BY <1>1, <1>4 DEF WriteDryRun
    <2>3. DOMAIN e \subseteq DiskID /\ e \in [DOMAIN e -> Image \cup {Corrupt}]
      BY <1>1, <2>1, <2>2 DEF Extend
    <2> QED
      BY <2>2, <2>3
  <1>6. /\ run' \in [Caller -> Run \cup {Idle}] /\ job' \in Job
        /\ PlanShape' /\ JobShape' /\ RunShape' /\ OneRunner'
    BY <1>1, <1>3, <1>4, ProceedFrame DEF WriteDryRun, plannerVars, ID
  <1>7. TypeOK'
    BY <1>5, <1>6 DEF WriteDryRun, TInv, TypeOK, CatalogTypeOK, PlannerTypeOK, catalogVars,
                      plannerVars
  <1> QED
    BY <1>6, <1>7 DEF TInv

(* A fault stays within the bound.                                         *)
LEMMA FaultType ==
    ASSUME TInv, Fault
    PROVE  faults' \in 0..MaxFaults
  BY ModeAssumption DEF Fault, TInv, TypeOK

(* A failed copy leaves the image or the Corrupt file and fails the disc.  *)
LEMMA DryRunCopyFailsType ==
    ASSUME TInv, NEW c \in Caller, DryRunCopyFails(c)
    PROVE  TInv'
  <1>1. /\ run[c].step \in Step /\ run[c] \in Run /\ job \in Job /\ ID(c) \in DiskID
        /\ BucketPaths(run[c].plan) \in SUBSET Path
    BY RunnerFacts DEF DryRunCopyFails, Step
  <1>2. run \in [Caller -> Run \cup {Idle}]
    BY DEF TInv, TypeOK
  <1>3. /\ run' \in [Caller -> Run \cup {Idle}] /\ job' \in Job
        /\ PlanShape' /\ JobShape' /\ RunShape' /\ OneRunner'
    BY <1>1, FailFrame DEF DryRunCopyFails
  <1>4. DOMAIN dryRun' \subseteq DiskID /\ dryRun' \in [DOMAIN dryRun' -> Image \cup {Corrupt}]
    <2>1. DOMAIN dryRun \subseteq DiskID /\ dryRun \in [DOMAIN dryRun -> Image \cup {Corrupt}]
      BY DEF TInv, TypeOK
    <2>2. isos[ID(c)] \in Image
      BY <1>1, RunnerFacts DEF DryRunCopyFails, WithImage, TInv, TypeOK, RunShape
    <2>3. PICK left \in {isos[ID(c)], Corrupt} : dryRun' = Extend(dryRun, ID(c), left)
      BY DEF DryRunCopyFails
    <2> DEFINE e == Extend(dryRun, ID(c), left)
    <2>4. DOMAIN e \subseteq DiskID /\ e \in [DOMAIN e -> Image \cup {Corrupt}]
      BY <1>1, <2>1, <2>2, <2>3 DEF Extend
    <2> QED
      BY <2>3, <2>4
  <1>5. faults' \in 0..MaxFaults
    BY FaultType DEF DryRunCopyFails
  <1>6. TypeOK'
    BY <1>3, <1>4, <1>5 DEF DryRunCopyFails, TInv, TypeOK, CatalogTypeOK, PlannerTypeOK,
                            catalogVars
  <1> QED
    BY <1>3, <1>6 DEF TInv

(* Writing a medium keeps the runner and claims VERIFYING.                 *)
LEMMA WriteDiscType ==
    ASSUME TInv, NEW c \in Caller, WriteDisc(c)
    PROVE  TInv'
  <1>1. /\ run[c].step \in Step /\ run[c] \in Run /\ job \in Job /\ ID(c) \in DiskID
        /\ BucketPaths(run[c].plan) \in SUBSET Path
    BY RunnerFacts DEF WriteDisc, Step
  <1>2. run \in [Caller -> Run \cup {Idle}]
    BY DEF TInv, TypeOK
  <1>3. ID(c) \in DOMAIN isos /\ isos[ID(c)] \in Image
    BY <1>1, RunnerFacts DEF WriteDisc, WithImage, TInv, TypeOK, RunShape
  <1>4. PICK good \in BOOLEAN : run' = [run EXCEPT ![c].step = "verify", ![c].good = good]
    BY DEF WriteDisc
  <1>5. media' \subseteq Image /\ faults' \in 0..MaxFaults
    BY <1>3, FaultType DEF WriteDisc, TInv, TypeOK
  <1> DEFINE r == [run[c] EXCEPT !.step = "verify", !.good = good]
  <1>6. r \in Run /\ r.step = "verify" /\ r.plan = run[c].plan /\ run' = [run EXCEPT ![c] = r]
    BY <1>1, <1>2, <1>4 DEF Run, Step
  <1> HIDE DEF r
  <1>7. \E s \in Claimed : SetState(s)
    BY DEF WriteDisc, Claimed
  <1>8. /\ run' \in [Caller -> Run \cup {Idle}] /\ job' \in Job
        /\ PlanShape' /\ JobShape' /\ RunShape' /\ OneRunner'
    BY <1>1, <1>3, <1>6, <1>7, ProceedFrame DEF WriteDisc, ID
  <1>9. TypeOK'
    BY <1>5, <1>8 DEF WriteDisc, TInv, TypeOK, CatalogTypeOK, PlannerTypeOK, catalogVars
  <1> QED
    BY <1>8, <1>9 DEF TInv

(* Verification goes on to the commit or fails the disc.                   *)
LEMMA VerifyBurnType ==
    ASSUME TInv, NEW c \in Caller, VerifyBurn(c)
    PROVE  TInv'
  <1>1. /\ run[c].step \in Step /\ run[c] \in Run /\ job \in Job /\ ID(c) \in DiskID
        /\ BucketPaths(run[c].plan) \in SUBSET Path
    BY RunnerFacts DEF VerifyBurn, Step
  <1>2. run \in [Caller -> Run \cup {Idle}]
    BY DEF TInv, TypeOK
  <1>3. CASE run[c].good
    <2> DEFINE r == [run[c] EXCEPT !.step = "disk"]
    <2>1. r \in Run /\ r.step = "disk" /\ r.plan = run[c].plan /\ run' = [run EXCEPT ![c] = r]
      BY <1>1, <1>2, <1>3 DEF VerifyBurn, Goto, Run, Step
    <2> HIDE DEF r
    <2>2. ID(c) \in DOMAIN isos
      BY <1>1, RunnerFacts DEF VerifyBurn, WithImage, TInv, RunShape
    <2> QED
      BY <1>1, <1>3, <2>1, <2>2, ProceedFrame, DataFrame DEF VerifyBurn, ID, TInv
  <1>4. CASE ~run[c].good
    BY <1>1, <1>4, FailFrame, DataFrame DEF VerifyBurn, TInv
  <1> QED
    BY <1>3, <1>4

(* The disk row is well typed, or the conflict fails the disc.             *)
LEMMA InsertDiskRowType ==
    ASSUME TInv, NEW c \in Caller, InsertDiskRow(c)
    PROVE  TInv'
  <1>1. /\ run[c].step \in Step /\ run[c] \in Run /\ job \in Job /\ ID(c) \in DiskID
        /\ BucketPaths(run[c].plan) \in SUBSET Path
    BY RunnerFacts DEF InsertDiskRow, Step
  <1>2. run \in [Caller -> Run \cup {Idle}]
    BY DEF TInv, TypeOK
  <1>3. ID(c) \in DOMAIN isos
    BY <1>1, RunnerFacts DEF InsertDiskRow, WithImage, TInv, RunShape
  <1>4. CASE InsertDisk(ID(c), DiskRowOf(c)) /\ UNCHANGED job
               /\ run' = [run EXCEPT ![c].step = "hash", ![c].todo = BucketPaths(run[c].plan)]
    <2> DEFINE r == [run[c] EXCEPT !.step = "hash", !.todo = BucketPaths(run[c].plan)]
               e == Extend(disks, ID(c), DiskRowOf(c))
    <2>1. r \in Run /\ r.step = "hash" /\ r.plan = run[c].plan /\ run' = [run EXCEPT ![c] = r]
      BY <1>1, <1>2, <1>4 DEF Run, Step
    <2> HIDE DEF r
    <2>2. /\ run' \in [Caller -> Run \cup {Idle}] /\ job' \in Job
          /\ PlanShape' /\ JobShape' /\ RunShape' /\ OneRunner'
      BY <1>1, <1>3, <1>4, <2>1, ProceedFrame DEF InsertDiskRow, ID
    <2>3. DiskRowOf(c) \in DiskRow
      BY <1>1 DEF DiskRowOf, DiskRow, IsDryRun, Run, DiscPlan
    <2>4. /\ DOMAIN disks \subseteq DiskID /\ disks \in [DOMAIN disks -> DiskRow]
          /\ IsFiniteSet(DOMAIN disks)
      BY DEF TInv, TypeOK, CatalogTypeOK
    <2>5. /\ DOMAIN e = DOMAIN disks \cup {ID(c)}
          /\ DOMAIN e \subseteq DiskID /\ e \in [DOMAIN e -> DiskRow]
      BY <1>1, <2>3, <2>4 DEF Extend
    <2>6. IsFiniteSet(DOMAIN e)
      BY <2>4, <2>5, FS_AddElement
    <2>7. disks' = e
      BY <1>4 DEF InsertDisk
    <2> HIDE DEF e
    <2>8. TypeOK'
      BY <2>2, <2>5, <2>6, <2>7 DEF InsertDiskRow, TInv, TypeOK, CatalogTypeOK, PlannerTypeOK
    <2> QED
      BY <2>2, <2>8 DEF TInv
  <1>5. CASE Fail(c) /\ UNCHANGED disks
    BY <1>1, <1>5, FailFrame, DataFrame DEF InsertDiskRow, TInv, catalogVars
  <1> QED
    BY <1>4, <1>5 DEF InsertDiskRow

(* The hash is a content: the path is staged.                              *)
LEMMA HashStagedType ==
    ASSUME TInv, NEW c \in Caller, HashStaged(c)
    PROVE  TInv'
  <1>1. /\ run[c].step \in Step /\ run[c] \in Run /\ job \in Job /\ ID(c) \in DiskID
        /\ BucketPaths(run[c].plan) \in SUBSET Path
    BY RunnerFacts DEF HashStaged, Step
  <1>2. run \in [Caller -> Run \cup {Idle}]
    BY DEF TInv, TypeOK
  <1>3. ID(c) \in DOMAIN isos
    BY <1>1, RunnerFacts DEF HashStaged, WithImage, TInv, RunShape
  <1>4. PICK p \in run[c].todo :
          IF p \in Staged
          THEN /\ run' = [run EXCEPT ![c].step = "consume", ![c].file = p,
                                     ![c].hash = staging[p]]
               /\ UNCHANGED job
          ELSE Fail(c)
    BY DEF HashStaged
  <1>5. CASE p \in Staged
    <2> DEFINE r == [run[c] EXCEPT !.step = "consume", !.file = p, !.hash = staging[p]]
    <2>1. p \in Path /\ p \in Nat /\ staging[p] \in Content
      BY <1>1, <1>5, PathAssumption DEF Run, Staged, TInv, TypeOK, PlannerTypeOK
    <2>2. r \in Run /\ run' = [run EXCEPT ![c] = r]
      BY <1>1, <1>2, <1>4, <1>5, <2>1 DEF Run, Step
    <2>3. r.step = "consume" /\ r.plan = run[c].plan /\ r.file \in Path /\ r.hash \in Content
      BY <1>1, <2>1 DEF Run
    <2> HIDE DEF r
    <2> QED
      BY <1>1, <1>3, <1>4, <1>5, <2>2, <2>3, ProceedFrame, DataFrame DEF HashStaged, ID, TInv
  <1>6. CASE p \notin Staged
    BY <1>1, <1>4, <1>6, FailFrame, DataFrame DEF HashStaged, TInv
  <1> QED
    BY <1>5, <1>6

(* Consuming a file's tags keeps the metadata table's type.                *)
LEMMA ConsumeMetadataType ==
    ASSUME TInv, NEW c \in Caller, ConsumeMetadata(c)
    PROVE  TInv'
  <1>1. /\ run[c].step \in Step /\ run[c] \in Run /\ job \in Job /\ ID(c) \in DiskID
        /\ BucketPaths(run[c].plan) \in SUBSET Path
    BY RunnerFacts DEF ConsumeMetadata, Step
  <1>2. run \in [Caller -> Run \cup {Idle}]
    BY DEF TInv, TypeOK
  <1>3. ID(c) \in DOMAIN isos
    BY <1>1, RunnerFacts DEF ConsumeMetadata, WithImage, TInv, RunShape
  <1>4. run[c].file \in Path /\ run[c].hash \in Content
    BY <1>1, RunnerFacts DEF ConsumeMetadata, TInv, RunShape
  <1> DEFINE b == run[c].file \in metadata
             r == [run[c] EXCEPT !.step = "insert", !.tagged = b]
  <1>a. b \in BOOLEAN
    OBVIOUS
  <1>b. run' = [run EXCEPT ![c] = r]
    BY <1>1, <1>2 DEF ConsumeMetadata
  <1> HIDE DEF b
  <1>5. r \in Run /\ run' = [run EXCEPT ![c] = r]
    BY <1>1, <1>a, <1>b DEF Run, Step
  <1>6. r.step = "insert" /\ r.plan = run[c].plan /\ r.file \in Path /\ r.hash \in Content
    BY <1>1, <1>4 DEF Run
  <1> HIDE DEF r
  <1>7. /\ run' \in [Caller -> Run \cup {Idle}] /\ job' \in Job
        /\ PlanShape' /\ JobShape' /\ RunShape' /\ OneRunner'
    BY <1>1, <1>3, <1>5, <1>6, ProceedFrame DEF ConsumeMetadata, ID, plannerVars
  <1>8. TypeOK'
    BY <1>7 DEF ConsumeMetadata, ConsumeStagedMetadata, TInv, TypeOK, CatalogTypeOK,
                PlannerTypeOK, plannerVars
  <1> QED
    BY <1>7, <1>8 DEF TInv

(* The file row is well typed.                                             *)
LEMMA InsertFileRowType ==
    ASSUME TInv, NEW c \in Caller, InsertFileRow(c)
    PROVE  TInv'
  <1>1. /\ run[c].step \in Step /\ run[c] \in Run /\ job \in Job /\ ID(c) \in DiskID
        /\ BucketPaths(run[c].plan) \in SUBSET Path
    BY RunnerFacts DEF InsertFileRow, Step
  <1>2. run \in [Caller -> Run \cup {Idle}]
    BY DEF TInv, TypeOK
  <1>3. ID(c) \in DOMAIN isos
    BY <1>1, RunnerFacts DEF InsertFileRow, WithImage, TInv, RunShape
  <1>4. run[c].file \in Path /\ run[c].hash \in Content
    BY <1>1, RunnerFacts DEF InsertFileRow, TInv, RunShape
  <1> DEFINE r == [run[c] EXCEPT !.step = "remove"]
  <1>5. r \in Run /\ run' = [run EXCEPT ![c] = r]
    BY <1>1, <1>2 DEF InsertFileRow, Goto, Run, Step
  <1>6. r.step = "remove" /\ r.plan = run[c].plan /\ r.file \in Path /\ r.hash \in Content
    BY <1>1, <1>4 DEF Run
  <1> HIDE DEF r
  <1>7. /\ run' \in [Caller -> Run \cup {Idle}] /\ job' \in Job
        /\ PlanShape' /\ JobShape' /\ RunShape' /\ OneRunner'
    BY <1>1, <1>3, <1>5, <1>6, ProceedFrame DEF InsertFileRow, ID, plannerVars
  <1>8. files' \subseteq FileRow
    BY <1>1, <1>4 DEF InsertFileRow, InsertFile, FileRow, Run, TInv, TypeOK, CatalogTypeOK
  <1>9. TypeOK'
    BY <1>7, <1>8 DEF InsertFileRow, TInv, TypeOK, CatalogTypeOK, PlannerTypeOK, plannerVars
  <1> QED
    BY <1>7, <1>9 DEF TInv

(* What was removed is a content under a path.                             *)
LEMMA RemoveStagedType ==
    ASSUME TInv, NEW c \in Caller, RemoveStaged(c)
    PROVE  TInv'
  <1>1. /\ run[c].step \in Step /\ run[c] \in Run /\ job \in Job /\ ID(c) \in DiskID
        /\ BucketPaths(run[c].plan) \in SUBSET Path
    BY RunnerFacts DEF RemoveStaged, Step
  <1>2. run \in [Caller -> Run \cup {Idle}]
    BY DEF TInv, TypeOK
  <1>3. ID(c) \in DOMAIN isos
    BY <1>1, RunnerFacts DEF RemoveStaged, WithImage, TInv, RunShape
  <1> DEFINE p == run[c].file
  <1>4. p \in Path
    BY <1>1, RunnerFacts DEF RemoveStaged, TInv, RunShape
  <1>5. CASE p \in Staged
    <2> DEFINE r == [run[c] EXCEPT !.step = "hash", !.todo = @ \ {p}]
    <2>1. r \in Run /\ r.step = "hash" /\ r.plan = run[c].plan /\ run' = [run EXCEPT ![c] = r]
      BY <1>1, <1>2, <1>5 DEF RemoveStaged, Run, Step
    <2> HIDE DEF r
    <2>2. /\ run' \in [Caller -> Run \cup {Idle}] /\ job' \in Job
          /\ PlanShape' /\ JobShape' /\ RunShape' /\ OneRunner'
      BY <1>1, <1>3, <1>5, <2>1, ProceedFrame DEF RemoveStaged, ID
    <2>3. staging[p] \in Content /\ staging' \in [Path -> Content \cup {Absent}]
      BY <1>4, <1>5 DEF RemoveStaged, Staged, TInv, TypeOK, PlannerTypeOK
    <2>4. removed' \subseteq Removal
      <3>1. IsDryRun \in BOOLEAN
        BY DEF IsDryRun
      <3> QED
        BY <1>4, <1>5, <2>3, <3>1 DEF RemoveStaged, Removal, TInv, TypeOK
    <2>5. TypeOK'
      BY <1>5, <2>2, <2>3, <2>4 DEF RemoveStaged, TInv, TypeOK, CatalogTypeOK, PlannerTypeOK,
                                    catalogVars
    <2> QED
      BY <2>2, <2>5 DEF TInv
  <1>6. CASE p \notin Staged
    BY <1>1, <1>6, FailFrame, DataFrame DEF RemoveStaged, TInv
  <1> QED
    BY <1>5, <1>6

(* The advance releases the claim and leaves a current disc unless the job *)
(* is done.                                                                *)
LEMMA FinishDiscType ==
    ASSUME TInv, NEW c \in Caller, FinishDisc(c)
    PROVE  TInv'
  <1>1. /\ run[c].step \in Step /\ run[c] \in Run /\ job \in Job /\ ID(c) \in DiskID
        /\ BucketPaths(run[c].plan) \in SUBSET Path
    BY RunnerFacts DEF FinishDisc, Step
  <1>2. run \in [Caller -> Run \cup {Idle}]
    BY DEF TInv, TypeOK
  <1>3. /\ planning = NoPlanning
        /\ job.idx <= Len(job.plans)
        /\ \A d \in Caller : d # c => run[d] = Idle
    BY <1>1, RunnerFacts
  <1>4. DOMAIN isos' \subseteq DiskID /\ isos' \in [DOMAIN isos' -> Image]
    <2>1. PICK gone : isos' = Without(isos, gone)
      BY DEF FinishDisc
    <2>2. DOMAIN isos \subseteq DiskID /\ isos \in [DOMAIN isos -> Image]
      BY DEF TInv, TypeOK
    <2> QED
      BY <2>1, <2>2 DEF Without
  <1>5. /\ job' \in Job /\ job'.state \notin Claimed
        /\ job'.state = "DONE" \/ job'.idx <= Len(job'.plans)
    <2>1. job.idx \in Nat /\ job.idx + 1 \in Nat \ {0} /\ Len(job.plans) \in Nat
      BY <1>1 DEF Job
    <2>2. PICK s \in {"DONE", "AWAITING_DISC"} :
            /\ job' = [job EXCEPT !.idx = job.idx + 1, !.state = s]
            /\ s = "DONE" \/ ~(job.idx + 1 > Len(job.plans))
      BY DEF FinishDisc
    <2>3. job' \in Job
      BY <1>1, <2>1, <2>2 DEF Job, State
    <2>4. job'.state = s /\ job'.idx = job.idx + 1 /\ job'.plans = job.plans
      BY <1>1, <2>2 DEF Job
    <2> QED
      BY <2>1, <2>2, <2>3, <2>4 DEF Claimed
  <1>6. run' \in [Caller -> Run \cup {Idle}] /\ \A d \in Caller : run'[d] = Idle
    BY <1>2, <1>3 DEF FinishDisc
  <1>7. RunShape' /\ OneRunner'
    BY <1>5, <1>6 DEF RunShape, OneRunner
  <1>8. PlanShape' /\ JobShape'
    BY <1>3, <1>5 DEF PlanShape, JobShape, NoPlanning, FinishDisc
  <1>9. TypeOK'
    BY <1>4, <1>5, <1>6 DEF FinishDisc, TInv, TypeOK, CatalogTypeOK, PlannerTypeOK, catalogVars
  <1> QED
    BY <1>7, <1>8, <1>9 DEF TInv

(* A fault releases the claim into FAILED.                                 *)
LEMMA StepFailsType ==
    ASSUME TInv, NEW c \in Caller, StepFails(c)
    PROVE  TInv'
  <1>1. run[c].step \in Step /\ ID(c) \in DiskID
    BY RunnerFacts, ModeAssumption DEF StepFails
  <1>2. /\ run' \in [Caller -> Run \cup {Idle}] /\ job' \in Job
        /\ PlanShape' /\ JobShape' /\ RunShape' /\ OneRunner'
    BY <1>1, FailFrame DEF StepFails
  <1>3. vols' \subseteq DiskID /\ faults' \in 0..MaxFaults
    BY <1>1, FaultType DEF StepFails, TInv, TypeOK
  <1>5. DOMAIN isos' \subseteq DiskID /\ isos' \in [DOMAIN isos' -> Image]
    <2>1. DOMAIN isos \subseteq DiskID /\ isos \in [DOMAIN isos -> Image]
      BY DEF TInv, TypeOK
    <2>2. isos' = isos \/ isos' = Without(isos, StaleISOs(c))
      BY DEF StepFails
    <2>3. /\ DOMAIN Without(isos, StaleISOs(c)) \subseteq DiskID
          /\ Without(isos, StaleISOs(c)) \in [DOMAIN Without(isos, StaleISOs(c)) -> Image]
      BY <2>1, WithoutType
    <2> QED
      BY <2>1, <2>2, <2>3
  <1>4. TypeOK'
    BY <1>2, <1>3, <1>5 DEF StepFails, TInv, TypeOK, CatalogTypeOK, PlannerTypeOK, catalogVars
  <1> QED
    BY <1>2, <1>4 DEF TInv

-----------------------------------------------------------------------------
(* Start runs only over a finished job.                                    *)
LEMMA StartType ==
    ASSUME TInv, NEW opts \in Options, Start(opts)
    PROVE  TInv'
  <1>1. UNCHANGED <<catalogVars, staging, job, pipelineVars>>
    BY DEF Start, BeginStart
  <1>2. ScanStaging \in SUBSET FileInfo
    BY ScanType DEF TInv, TypeOK
  <1>3. EmptyBucket \in Bucket /\ <<>> \in Seq(Bucket) /\ <<>> \in Seq(DiscPlan)
    BY DEF EmptyBucket, Bucket
  <1>4. planning' \in Planning /\ planning'.phase = "pack" /\ planning'.plans = <<>>
        /\ planning'.withGroups = <<>> /\ planning'.start = 0
    BY <1>2, <1>3 DEF Start, BeginStart, Planning, Phase
  <1>5. CatalogTypeOK' /\ PlannerTypeOK'
    BY <1>1, <1>4 DEF TInv, TypeOK, CatalogTypeOK, PlannerTypeOK, catalogVars
  <1>6. PipelineTypeOK' /\ RunShape' /\ OneRunner'
    BY <1>1, PipelineFrame
  <1>7. PlanShape' /\ JobShape'
    BY <1>1, <1>4 DEF TInv, PlanShape, JobShape, Start, BeginStart
  <1> QED
    BY <1>5, <1>6, <1>7, TypeParts DEF TInv, TypeOK, PipelineTypeOK

(* Every step of planJob, by cases.                                        *)
LEMMA PlanStepType == TInv /\ PlanStep => TInv'
  BY PackFileType, PackLastType, PlanDiscType, PlansCompleteType, PlanGroupType,
     PlanParityType, GroupsCompleteType, FinishStartType DEF PlanStep

(* A failed plan leaves the previous job.                                  *)
LEMMA PlanningFailsType == TInv /\ PlanningFails => TInv'
  <1> SUFFICES ASSUME TInv, PlanningFails PROVE TInv'
    OBVIOUS
  <1>1. /\ UNCHANGED <<catalogVars, staging, job, run, isos, vols, media, dryRun, removed>>
        /\ planning' = NoPlanning
    BY DEF PlanningFails, PlanFails
  <1>2. faults' \in 0..MaxFaults /\ edits' \in 0..MaxEdits
    BY FaultType DEF PlanningFails, TInv, TypeOK
  <1>3. TypeOK'
    BY <1>1, <1>2 DEF TInv, TypeOK, CatalogTypeOK, PlannerTypeOK, catalogVars
  <1>4. RunShape' /\ OneRunner'
    BY <1>1 DEF TInv, RunShape, OneRunner, ID
  <1>5. PlanShape' /\ JobShape'
    BY <1>1 DEF TInv, PlanShape, JobShape, NoPlanning
  <1> QED
    BY <1>3, <1>4, <1>5 DEF TInv

(* Retry finds no runner and makes none.                                   *)
LEMMA RetryType == TInv /\ Retry => TInv'
  <1> SUFFICES ASSUME TInv, Retry PROVE TInv'
    OBVIOUS
  <1>1. job \in Job
    BY DEF TInv, TypeOK, PlannerTypeOK, Retry, NoJob
  <1>2. /\ job' \in Job /\ job'.state = "AWAITING_DISC" /\ job'.idx = job.idx
        /\ job'.plans = job.plans
    BY <1>1 DEF Retry, SetState, Job, State
  <1>3. PipelineTypeOK' /\ RunShape' /\ OneRunner'
    BY <1>2, PipelineFrame DEF Retry, Claimed
  <1>4. CatalogTypeOK' /\ PlannerTypeOK'
    BY <1>2 DEF Retry, TInv, TypeOK, CatalogTypeOK, PlannerTypeOK, catalogVars
  <1>5. PlanShape' /\ JobShape'
    BY <1>2 DEF Retry, TInv, PlanShape, JobShape
  <1> QED
    BY <1>3, <1>4, <1>5, TypeParts DEF TInv, TypeOK, PipelineTypeOK

(* After a restart there is no job and no runner.                          *)
LEMMA CrashType == TInv /\ Crash => TInv'
  <1> SUFFICES ASSUME TInv, Crash PROVE TInv'
    OBVIOUS
  <1>1. /\ run' = [c \in Caller |-> Idle] /\ job' = NoJob /\ planning' = NoPlanning
        /\ UNCHANGED <<catalogVars, staging, isos, vols, media, dryRun, removed, edits>>
    BY DEF Crash
  <1>2. faults' \in 0..MaxFaults
    BY FaultType DEF Crash
  <1>3. TypeOK'
    BY <1>1, <1>2 DEF TInv, TypeOK, CatalogTypeOK, PlannerTypeOK, catalogVars
  <1>4. RunShape' /\ OneRunner' /\ PlanShape' /\ JobShape'
    BY <1>1 DEF RunShape, OneRunner, PlanShape, JobShape, NoJob, NoPlanning, Claimed
  <1> QED
    BY <1>3, <1>4 DEF TInv

(* The staging directory, the metadata table and the edit counter are in   *)
(* no other conjunct of the invariant.                                     *)
LEMMA UserFrame ==
    ASSUME TInv, staging' \in [Path -> Content \cup {Absent}], metadata' \subseteq Path,
           edits' \in 0..MaxEdits,
           UNCHANGED <<disks, files, groups, job, planning, run, isos, vols, media,
                       dryRun, removed, faults>>
    PROVE  TInv'
  <1>1. TypeOK'
    BY DEF TInv, TypeOK, CatalogTypeOK, PlannerTypeOK
  <1>2. RunShape' /\ OneRunner' /\ PlanShape' /\ JobShape'
    BY DEF TInv, RunShape, OneRunner, PlanShape, JobShape, ID
  <1> QED
    BY <1>1, <1>2 DEF TInv

(* An edit of the share keeps staging a directory.                         *)
LEMMA EditType ==
    ASSUME TInv, Edit, NEW p \in Path, NEW q \in Path, NEW content \in Content,
           Put(p, content) \/ Delete(p) \/ Move(p, q)
    PROVE  TInv'
  <1>1. staging \in [Path -> Content \cup {Absent}] /\ edits \in 0..MaxEdits
        /\ metadata \subseteq Path
    BY DEF TInv, TypeOK, CatalogTypeOK, PlannerTypeOK
  <1>2. staging' \in [Path -> Content \cup {Absent}]
    BY <1>1 DEF Put, Delete, Move
  <1>3. edits' \in 0..MaxEdits /\ UNCHANGED <<disks, files, groups, metadata, job, planning,
             run, isos, vols, media, dryRun, removed, faults>>
    BY <1>1, ModeAssumption DEF Edit, catalogVars
  <1> QED
    BY <1>1, <1>2, <1>3, UserFrame

(* Tags are applied to staged paths.                                       *)
LEMMA ApplyMetadataType ==
    ASSUME TInv, NEW p \in Path, ApplyMetadata(p)
    PROVE  TInv'
  BY UserFrame, ModeAssumption
     DEF ApplyMetadata, UpsertStagedMetadata, TInv, TypeOK, CatalogTypeOK, PlannerTypeOK,
         plannerVars

(* Every step of runDisc, by cases.                                        *)
LEMMA RunStepType ==
    ASSUME TInv, NEW c \in Caller, RunStep(c)
    PROVE  TInv'
  BY ClearStaleType, PackDataType, PackParityType, CreateParityType, BuildISOType,
     WriteDryRunType, WriteDiscType, VerifyBurnType, InsertDiskRowType, HashStagedType,
     ConsumeMetadataType, InsertFileRowType, RemoveStagedType, FinishDiscType DEF RunStep

(* The control invariant holds initially.                                  *)
LEMMA TInvInit == Init => TInv
  <1> SUFFICES ASSUME Init PROVE TInv
    OBVIOUS
  <1>1. CatalogTypeOK
    <2>1. DOMAIN disks = {}
      BY DEF Init, CatalogInit
    <2> QED
      BY <2>1, FS_EmptySet DEF Init, CatalogInit, CatalogTypeOK
  <1>2. PlannerTypeOK
    BY StagingAssumption DEF Init, PlannerInit, PlannerTypeOK
  <1>3. PipelineTypeOK
    BY ModeAssumption DEF Init, PipelineTypeOK
  <1>4. PlanShape /\ JobShape /\ RunShape /\ OneRunner
    BY DEF Init, PlannerInit, PlanShape, JobShape, RunShape, OneRunner, NoJob, NoPlanning,
           Claimed
  <1> QED
    BY <1>1, <1>2, <1>3, <1>4, TypeParts DEF TInv

(* Every step preserves the control invariant.                             *)
LEMMA TInvNext == TInv /\ [Next]_vars => TInv'
  <1> SUFFICES ASSUME TInv, [Next]_vars PROVE TInv'
    OBVIOUS
  <1>1. ASSUME NEW opts \in Options, Start(opts) PROVE TInv'
    BY <1>1, StartType
  <1>2. CASE PlanStep \/ PlanningFails \/ Retry \/ Crash
    BY <1>2, PlanStepType, PlanningFailsType, RetryType, CrashType
  <1>3. ASSUME NEW c \in Caller,
               Claim(c) \/ RunStep(c) \/ DryRunCopyFails(c) \/ StepFails(c)
        PROVE  TInv'
    BY <1>3, ClaimType, RunStepType, DryRunCopyFailsType, StepFailsType
  <1>4. ASSUME NEW p \in Path, Delete(p) \/ ApplyMetadata(p) PROVE TInv'
    <2>1. CASE Delete(p)
      <3>1. p \in Staged
        BY <2>1 DEF Delete
      <3>2. staging[p] \in Content
        BY <3>1 DEF Staged, TInv, TypeOK, PlannerTypeOK
      <3> QED
        BY <2>1, <3>2, EditType DEF Delete
    <2> QED
      BY <1>4, <2>1, ApplyMetadataType
  <1>5. ASSUME NEW p \in Path, NEW content \in Content, Put(p, content) PROVE TInv'
    BY <1>5, EditType DEF Put
  <1>6. ASSUME NEW p \in Path, NEW q \in Path, Move(p, q) PROVE TInv'
    <2>1. staging[p] \in Content
      BY <1>6 DEF Move, Staged, TInv, TypeOK, PlannerTypeOK
    <2> QED
      BY <1>6, <2>1, EditType DEF Move
  <1>7. CASE UNCHANGED vars
    <2>1. PipelineTypeOK' /\ RunShape' /\ OneRunner'
      BY <1>7, PipelineFrame DEF vars, plannerVars
    <2>2. CatalogTypeOK' /\ PlannerTypeOK' /\ PlanShape' /\ JobShape'
      BY <1>7 DEF vars, plannerVars, catalogVars, TInv, TypeOK, CatalogTypeOK, PlannerTypeOK,
                  PlanShape, JobShape
    <2> QED
      BY <2>1, <2>2, TypeParts DEF TInv, TypeOK, PipelineTypeOK
  <1> QED
    BY <1>1, <1>2, <1>3, <1>4, <1>5, <1>6, <1>7 DEF Next

(* The control invariant of the burn manager holds in every behaviour.     *)
THEOREM ControlInvariant == Spec => []TInv
  BY TInvInit, TInvNext, PTL DEF Spec

(* Every variable keeps its type: in particular Claim never indexes past   *)
(* the plans, the commit loop never writes a row for a missing file, and   *)
(* the writers never read an ISO that is not in the spool.                 *)
THEOREM TypeCorrect == Spec => []TypeOK
  <1>1. TInv => TypeOK
    BY DEF TInv
  <1> QED
    BY <1>1, ControlInvariant, PTL

(* At most one request runs runDisc, exactly while the job is claimed, for *)
(* any number of concurrent requests (ContinueNextDisc's claim).           *)
THEOREM MutualExclusion == Spec => []OneRunner
  <1>1. TInv => OneRunner
    BY DEF TInv
  <1> QED
    BY <1>1, ControlInvariant, PTL
=============================================================================
