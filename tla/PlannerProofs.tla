---------------------------- MODULE PlannerProofs ----------------------------
(***************************************************************************)
(* What Start and planJob plan, for every value of the constants: nothing  *)
(* is forgotten or planned twice, no disc is overfull, and groups are runs *)
(* of data discs that end in their parity disc.  By itself the pipeline    *)
(* also hands out no disc number twice within a job; the dry-run page can  *)
(* upset that.                                                             *)
(***************************************************************************)
EXTENDS BurnTypeProofs

(* What Pack's loop has done so far.                                       *)
PackInv ==
    planning.phase # "idle" =>
        /\ planning.current.total = 0 => NonEmpty(planning.current) = {}
        /\ planning.phase # "pack" => planning.todo = {} /\ planning.current = EmptyBucket

(* The i-th data disc: the i-th number after the catalogued ones.          *)
DataPlan(i) ==
    [id |-> [prefix |-> planning.opts.prefix, num |-> Count(planning.opts.prefix) + i],
     role |-> "data", group |-> NoGroup, slot |-> 0, bucket |-> planning.buckets[i]]

NumberInv ==
    planning.phase # "idle" =>
        /\ \A i \in DOMAIN planning.plans : planning.plans[i] = DataPlan(i)
        /\ Len(planning.plans) <= Len(planning.buckets)
        /\ planning.phase \in {"group", "parity", "done"} =>
             Len(planning.plans) = Len(planning.buckets)
        /\ Len(planning.plans) <= planning.allocated
        /\ planning.phase \in {"pack", "ids"} => planning.allocated = Len(planning.plans)

(* How many of the data discs are in the final plan already.               *)
Taken ==
    IF planning.phase = "parity" THEN GroupEnd
    ELSE IF planning.phase = "done" \/ planning.start > Len(planning.plans)
    THEN Len(planning.plans)
    ELSE planning.start

TakenBuckets == {EmptyBucket} \cup {planning.plans[j].bucket : j \in 1..Taken}

(* The final plan holds the data discs taken, and parity discs numbered    *)
(* after all the data discs.                                               *)
OrderInv ==
    planning.phase # "idle" =>
        /\ \A i \in DOMAIN planning.withGroups :
             LET p == planning.withGroups[i]
                 count == Count(planning.opts.prefix)
             IN /\ p.bucket \in TakenBuckets
                /\ p.role = "data" => p.id.num <= count + Taken
                /\ p.role = "parity" => /\ p.id.num > count + Len(planning.plans)
                                        /\ p.id.num <= count + planning.allocated
        /\ \A j \in 1..Taken :
             \E i \in DOMAIN planning.withGroups :
                planning.withGroups[i].bucket = planning.plans[j].bucket
        /\ DistinctIDs(planning.withGroups)

(* Where the group of the i-th plan begins.                                *)
First(plans, i) == i - plans[i].slot

(* The i-th plan is in its place, the disk_groups table being sizes; the   *)
(* last group may lack its parity disc.                                    *)
InPlace(sizes, plans, i, open) ==
    LET g == plans[i].group IN
    /\ g \in 1..Len(sizes)
    /\ plans[i].slot <= sizes[g]
    /\ plans[i].role = "parity" <=> plans[i].slot = sizes[g]
    /\ First(plans, i) >= 1
    /\ \A j \in DOMAIN plans :
         /\ j - First(plans, i) \in 0..sizes[g] =>
              plans[j].group = g /\ plans[j].slot = j - First(plans, i)
         /\ plans[j].group = g => First(plans, j) = First(plans, i)
    /\ \/ First(plans, i) + sizes[g] <= Len(plans)
       \/ open /\ g = Len(sizes) /\ First(plans, i) + sizes[g] = Len(plans) + 1

Ungrouped(plans) ==
    \A i \in DOMAIN plans : plans[i].group = NoGroup /\ plans[i].role = "data"

Grouped(sizes, plans, opts, open) ==
    IF opts.crossDiscParity
    THEN \A i \in DOMAIN plans : InPlace(sizes, plans, i, open)
    ELSE Ungrouped(plans)

GroupInv ==
    /\ planning.phase # "idle" =>
         /\ Grouped(groups, planning.withGroups, planning.opts, planning.phase = "parity")
         /\ planning.phase \in {"group", "parity"} => planning.opts.crossDiscParity
         /\ planning.phase = "parity" =>
              LET n == Len(planning.withGroups) IN
              /\ n >= 1 /\ Len(groups) >= 1
              /\ groups[Len(groups)] = GroupEnd - planning.start
              /\ planning.withGroups[n].group = Len(groups)
              /\ planning.withGroups[n].slot = groups[Len(groups)] - 1
    /\ job.state # "NONE" => Grouped(groups, job.plans, job.opts, FALSE)

PInv ==
    /\ PackInv /\ BucketsFit /\ PlanCoversScan
    /\ NumberInv /\ OrderInv /\ PlanIDsDistinct /\ GroupInv

-----------------------------------------------------------------------------
(* What a step outside Start and planJob does to the plan and to the job:  *)
(* it may drop them, but does not rewrite them.                            *)
Quiet ==
    /\ groups' = groups
    /\ \/ planning' = NoPlanning
       \/ planning' = planning /\ (planning.phase # "idle" => disks' = disks)
    /\ \/ job'.state = "NONE"
       \/ job.state # "NONE" /\ job'.plans = job.plans /\ job'.opts = job.opts

(* A job that is there is well-typed.                                      *)
LEMMA JobType ==
    ASSUME TInv, job.state # "NONE"
    PROVE  job \in Job
  BY DEF TInv, TypeOK, PlannerTypeOK, NoJob

(* Changing the job's state, or nothing of the job.                        *)
LEMMA JobQuiet ==
    ASSUME TInv, job.state # "NONE",
           \/ job' = job
           \/ \E s \in State : SetState(s)
           \/ \E s \in State : job' = [job EXCEPT !.idx = @ + 1, !.state = s]
    PROVE  job'.plans = job.plans /\ job'.opts = job.opts
  <1>1. job \in Job
    BY JobType
  <1> QED
    BY <1>1 DEF SetState, Job

(* A step of runDisc is quiet: Start is not running.                       *)
LEMMA RunStepQuiet ==
    ASSUME TInv, NEW c \in Caller, RunStep(c) \/ StepFails(c) \/ DryRunCopyFails(c)
    PROVE  Quiet
  <1>1. run[c].step \in Step
    BY ModeAssumption
       DEF RunStep, ClearStale, PackData, PackParity, CreateParity, BuildISO, WriteDryRun,
           WriteDisc, VerifyBurn, InsertDiskRow, HashStaged, ConsumeMetadata, InsertFileRow,
           RemoveStaged, FinishDisc, StepFails, DryRunCopyFails, Step
  <1>2. planning = NoPlanning /\ job \in Job /\ job.state # "NONE"
    BY <1>1, RunnerFacts DEF Claimed
  <1>3. groups' = groups /\ planning' = planning
    BY DEF RunStep, ClearStale, PackData, PackParity, CreateParity, BuildISO, WriteDryRun,
           WriteDisc, VerifyBurn, InsertDiskRow, HashStaged, ConsumeMetadata, InsertFileRow,
           RemoveStaged, FinishDisc, StepFails, DryRunCopyFails, catalogVars, plannerVars
  <1>4. \/ job' = job
        \/ \E s \in State : SetState(s)
        \/ \E s \in State : job' = [job EXCEPT !.idx = @ + 1, !.state = s]
    BY DEF State, RunStep, ClearStale, PackData, PackParity, CreateParity, BuildISO, WriteDryRun,
           WriteDisc, VerifyBurn, InsertDiskRow, HashStaged, ConsumeMetadata, InsertFileRow,
           RemoveStaged, FinishDisc, StepFails, DryRunCopyFails, Fail, plannerVars
  <1>5. job'.plans = job.plans /\ job'.opts = job.opts
    BY <1>2, <1>4, JobQuiet
  <1> QED
    BY <1>2, <1>3, <1>5 DEF Quiet

(* Every step is one of Start, planJob, or quiet.                          *)
LEMMA StepKinds ==
    ASSUME TInv, [Next]_vars
    PROVE  PlanStep \/ (\E opts \in Options : Start(opts)) \/ Quiet
  <1>1. ASSUME NEW c \in Caller, Claim(c) PROVE Quiet
    <2>1. job.state # "NONE" /\ \E s \in State : SetState(s)
      BY <1>1 DEF Claim, State
    <2> QED
      BY <1>1, <2>1, JobQuiet DEF Claim, Quiet, catalogVars
  <1>2. CASE Retry
    <2>1. job.state # "NONE" /\ \E s \in State : SetState(s)
      BY <1>2 DEF Retry, State
    <2> QED
      BY <1>2, <2>1, JobQuiet DEF Retry, Quiet, catalogVars
  <1>3. CASE Crash \/ PlanningFails
    BY <1>3 DEF Crash, PlanningFails, PlanFails, Quiet, catalogVars, NoJob
  <1>4. CASE Edit \/ (\E p \in Path : ApplyMetadata(p)) \/ UNCHANGED vars
    BY <1>4 DEF Edit, ApplyMetadata, Quiet, vars, catalogVars, plannerVars
  <1> QED
    BY <1>1, <1>2, <1>3, <1>4, RunStepQuiet DEF Next, Put, Delete, Move

(* A quiet step keeps everything that is said of the plan and the job.     *)
LEMMA QuietKeeps ==
    ASSUME PInv, Quiet
    PROVE  PInv'
  <1>1. planning'.phase # "idle" => planning' = planning /\ disks' = disks
    BY DEF Quiet, NoPlanning
  <1>2. PackInv'
    BY <1>1 DEF PInv, PackInv
  <1>3. BucketsFit'
    BY <1>1 DEF PInv, BucketsFit, Quiet
  <1>4. PlanCoversScan'
    BY <1>1 DEF PInv, PlanCoversScan, NoPlanning
  <1>5. NumberInv'
    BY <1>1 DEF PInv, NumberInv, DataPlan, Count
  <1>6. OrderInv'
    <2> SUFFICES ASSUME planning' = planning, disks' = disks PROVE OrderInv'
      BY <1>1 DEF OrderInv
    <2>1. Taken' = Taken /\ TakenBuckets' = TakenBuckets
      BY DEF Taken, TakenBuckets, GroupEnd
    <2>2. \A prefix : Count(prefix)' = Count(prefix)
      BY DEF Count
    <2> QED
      BY <2>1, <2>2 DEF PInv, OrderInv
  <1>7. PlanIDsDistinct'
    BY <1>1 DEF PInv, PlanIDsDistinct, Quiet
  <1>8. GroupInv'
    <2>2. planning' = planning => GroupEnd' = GroupEnd
      BY DEF GroupEnd
    <2> QED
      BY <1>1, <2>2 DEF PInv, GroupInv, Quiet
  <1> QED
    BY <1>2, <1>3, <1>4, <1>5, <1>6, <1>7, <1>8 DEF PInv

-----------------------------------------------------------------------------
(* Groups are in place when the plan's are; the job is as before.          *)
LEMMA GroupFrame ==
    ASSUME PInv, UNCHANGED <<job, groups>>,
           planning'.phase \in {"pack", "ids", "group", "done"},
           planning'.phase = "group" => planning'.opts.crossDiscParity,
           Grouped(groups, planning.withGroups, planning.opts, planning.phase = "parity")'
    PROVE  GroupInv'
  BY DEF PInv, GroupInv

(* Before the ID loop nothing is planned, numbered or grouped.             *)
LEMMA NothingPlanned ==
    ASSUME PInv, planning'.phase \in {"pack", "ids"}, planning'.plans = <<>>,
           planning'.withGroups = <<>>, planning'.start = 0, planning'.allocated = 0,
           planning'.buckets \in Seq(Bucket), UNCHANGED <<job, groups>>
    PROVE  NumberInv' /\ OrderInv' /\ PlanIDsDistinct' /\ GroupInv'
  <1>1. NumberInv'
    BY DEF NumberInv
  <1>2. Taken' = 0
    BY DEF Taken
  <1>3. OrderInv'
    BY <1>2 DEF OrderInv, DistinctIDs
  <1>4. PlanIDsDistinct'
    BY DEF PInv, PlanIDsDistinct, DistinctIDs
  <1>5. Grouped(groups, planning.withGroups, planning.opts, planning.phase = "parity")'
    BY DEF Grouped, Ungrouped
  <1>6. GroupInv'
    BY <1>5, GroupFrame
  <1> QED
    BY <1>1, <1>3, <1>4, <1>6

(* A parity disc's bucket, and the bucket Pack begins with.                *)
LEMMA EmptyBucketFacts ==
    /\ EmptyBucket \in Bucket /\ EmptyBucket.files = {} /\ EmptyBucket.total = 0
    /\ NonEmpty(EmptyBucket) = {}
    /\ \A opts : Fits(EmptyBucket, opts)
  <1>1. EmptyBucket \in Bucket /\ EmptyBucket.files = {} /\ EmptyBucket.total = 0
    BY DEF EmptyBucket, Bucket
  <1>2. NonEmpty(EmptyBucket) = {}
    BY <1>1 DEF NonEmpty
  <1> QED
    BY <1>1, <1>2 DEF Fits

(* Start: the scan is still to be packed.                                  *)
LEMMA StartPlans ==
    ASSUME TInv, PInv, NEW opts \in Options, Start(opts)
    PROVE  PInv'
  <1>1. /\ planning'.phase = "pack" /\ planning'.plans = <<>> /\ planning'.withGroups = <<>>
        /\ planning'.start = 0 /\ planning'.allocated = 0 /\ planning'.buckets = <<>>
        /\ planning'.current = EmptyBucket /\ planning'.todo = planning'.scan
        /\ UNCHANGED <<job, groups>>
    BY DEF Start, BeginStart, catalogVars
  <1>2. NumberInv' /\ OrderInv' /\ PlanIDsDistinct' /\ GroupInv'
    BY <1>1, NothingPlanned
  <1>3. EmptyBucket.files = {} /\ EmptyBucket.total = 0 /\ NonEmpty(EmptyBucket) = {}
    BY EmptyBucketFacts
  <1>4. PackInv'
    BY <1>1, <1>3 DEF PackInv
  <1>5. BucketsFit'
    BY <1>1, <1>3 DEF PInv, BucketsFit, Fits
  <1>6. PlanCoversScan'
    BY <1>1, <1>3 DEF PlanCoversScan, BucketFiles
  <1> QED
    BY <1>2, <1>4, <1>5, <1>6 DEF PInv

(* Adding a file to a bucket.                                              *)
LEMMA AddFileFacts ==
    ASSUME NEW b \in Bucket, NEW f \in FileInfo
    PROVE  /\ AddFile(b, f) \in Bucket
           /\ AddFile(b, f).files = b.files \cup {f}
           /\ AddFile(b, f).total = b.total + f.size
           /\ NonEmpty(AddFile(b, f)) \subseteq NonEmpty(b) \cup {f}
           /\ f.size = 0 => NonEmpty(AddFile(b, f)) = NonEmpty(b)
           /\ f.size \in Nat /\ b.total \in Nat
  BY DEF AddFile, NonEmpty, Bucket, FileInfo

(* The target is a number, whatever the multiplication overflowed to.      *)
LEMMA TargetType ==
    ASSUME NEW opts \in Options
    PROVE  Target(opts) \in Int
  <1>1. /\ opts.capacity \in Nat /\ opts.parityPercent \in 5..50
        /\ IntLimit \in Nat /\ IntLimit > 0
    BY OptionsAssumption, IntLimitAssumption
  <1>2. Wrap(opts.capacity * 100) \in Int
    BY <1>1 DEF Wrap
  <1>3. 100 + opts.parityPercent \in Nat /\ 100 + opts.parityPercent > 0
    BY <1>1
  <1> QED
    BY <1>2, <1>3 DEF Target, TargetDataSize, Quotient

(* The first file of a bucket always fits.                                 *)
LEMMA FirstFileFits ==
    ASSUME NEW b \in Bucket, NEW f \in FileInfo, NEW opts, NonEmpty(b) = {}
    PROVE  Fits(AddFile(b, f), opts)
  <1>1. \A x, y \in NonEmpty(AddFile(b, f)) : x = y
    BY AddFileFacts
  <1> QED
    BY <1>1 DEF Fits

(* One iteration of Pack's loop: f goes into the open bucket or into a new *)
(* one.                                                                    *)
LEMMA PackFileEffect ==
    ASSUME TInv, PackFile, UNCHANGED pipelineVars
    PROVE  \E f \in planning.todo :
             /\ f \in FileInfo
             /\ planning'.todo = planning.todo \ {f}
             /\ \/ /\ planning.current.total > 0
                   /\ planning'.current = AddFile(EmptyBucket, f)
                   /\ planning'.buckets = Append(planning.buckets, planning.current)
                \/ /\ ~CloseBucket(f)
                   /\ planning'.current = AddFile(planning.current, f)
                   /\ planning'.buckets = planning.buckets
             /\ planning'.phase = "pack" /\ planning'.scan = planning.scan
             /\ planning'.opts = planning.opts /\ planning'.plans = planning.plans
             /\ planning'.withGroups = planning.withGroups
             /\ planning'.start = planning.start
             /\ planning'.allocated = planning.allocated
  <1>1. planning \in Planning
    BY PlanningType DEF PackFile
  <1>2. PICK f \in planning.todo :
          planning' =
              IF CloseBucket(f)
              THEN [planning EXCEPT !.todo = @ \ {f},
                                    !.current = AddFile(EmptyBucket, f),
                                    !.buckets = Append(@, planning.current)]
              ELSE [planning EXCEPT !.todo = @ \ {f},
                                    !.current = AddFile(@, f)]
    BY DEF PackFile
  <1>3. f \in FileInfo /\ planning.phase = "pack"
    BY <1>1 DEF Planning, PackFile
  <1>4. CASE CloseBucket(f)
    <2>1. planning.current.total > 0
      BY <1>4 DEF CloseBucket
    <2> QED
      BY <1>1, <1>2, <1>3, <1>4, <2>1 DEF Planning
  <1>5. CASE ~CloseBucket(f)
    BY <1>1, <1>2, <1>3, <1>5 DEF Planning
  <1> QED
    BY <1>4, <1>5

(* A scan is partitioned into a set, a bucket and a sequence of buckets.   *)
Partition(scan, todo, current, buckets) ==
    /\ scan = todo \cup current \cup BucketFiles(buckets)
    /\ todo \cap current = {}
    /\ \A i \in DOMAIN buckets :
         /\ buckets[i].files \cap (todo \cup current) = {}
         /\ \A j \in DOMAIN buckets : i # j => buckets[i].files \cap buckets[j].files = {}

(* Closing a bucket moves its files to the end of the sequence.            *)
LEMMA PartitionClose ==
    ASSUME NEW scan, NEW todo, NEW b \in Bucket, NEW buckets \in Seq(Bucket),
           Partition(scan, todo, b.files, buckets)
    PROVE  Partition(scan, todo, {}, Append(buckets, b))
  <1> DEFINE s == Append(buckets, b)
  <1>1. /\ DOMAIN s = DOMAIN buckets \cup {Len(buckets) + 1}
        /\ \A i \in DOMAIN buckets : s[i] = buckets[i] /\ i # Len(buckets) + 1
        /\ s[Len(buckets) + 1] = b
    OBVIOUS
  <1> HIDE DEF s
  <1>2. BucketFiles(s) = BucketFiles(buckets) \cup b.files
    BY <1>1 DEF BucketFiles
  <1> QED
    BY <1>1, <1>2 DEF Partition, s

(* Packing a file moves it from the rest of the scan to the open bucket.   *)
LEMMA PartitionAdd ==
    ASSUME NEW scan, NEW todo, NEW current, NEW buckets, NEW f \in todo,
           Partition(scan, todo, current, buckets)
    PROVE  Partition(scan, todo \ {f}, current \cup {f}, buckets)
  BY DEF Partition

(* Pack keeps its buckets within the target and loses no file.             *)
LEMMA PackFilePlans ==
    ASSUME TInv, PInv, PackFile, UNCHANGED pipelineVars
    PROVE  PInv'
  <1>1. planning \in Planning /\ planning.phase = "pack" /\ UNCHANGED <<job, groups, disks>>
    BY PlanningType DEF PackFile, catalogVars
  <1>2. PICK f \in planning.todo :
             /\ f \in FileInfo
             /\ planning'.todo = planning.todo \ {f}
             /\ \/ /\ planning.current.total > 0
                   /\ planning'.current = AddFile(EmptyBucket, f)
                   /\ planning'.buckets = Append(planning.buckets, planning.current)
                \/ /\ ~CloseBucket(f)
                   /\ planning'.current = AddFile(planning.current, f)
                   /\ planning'.buckets = planning.buckets
             /\ planning'.phase = "pack" /\ planning'.scan = planning.scan
             /\ planning'.opts = planning.opts /\ planning'.plans = planning.plans
             /\ planning'.withGroups = planning.withGroups
             /\ planning'.start = planning.start
             /\ planning'.allocated = planning.allocated
    BY PackFileEffect
  <1>3. /\ planning.current \in Bucket /\ planning.buckets \in Seq(Bucket)
        /\ planning'.buckets \in Seq(Bucket)
        /\ EmptyBucket \in Bucket /\ NonEmpty(EmptyBucket) = {} /\ EmptyBucket.total = 0
        /\ EmptyBucket.files = {}
    <2>1. planning.current \in Bucket /\ planning.buckets \in Seq(Bucket)
      BY <1>1 DEF Planning
    <2>2. Append(planning.buckets, planning.current) \in Seq(Bucket)
      BY <2>1
    <2>3. planning'.buckets \in {planning.buckets, Append(planning.buckets, planning.current)}
      BY <1>2
    <2> QED
      BY <2>1, <2>2, <2>3, EmptyBucketFacts
  <1>4. /\ planning.plans = <<>> /\ planning.withGroups = <<>> /\ planning.start = 0
        /\ planning.allocated = 0
    BY <1>1 DEF TInv, PlanShape, PInv, NumberInv
  <1>5. NumberInv' /\ OrderInv' /\ PlanIDsDistinct' /\ GroupInv'
    BY <1>1, <1>2, <1>3, <1>4, NothingPlanned
  <1>6. PackInv'
    <2>1. ASSUME planning'.current.total = 0 PROVE NonEmpty(planning'.current) = {}
      <3>1. CASE planning'.current = AddFile(EmptyBucket, f)
        BY <1>2, <1>3, <2>1, <3>1, AddFileFacts
      <3>2. CASE planning'.current = AddFile(planning.current, f)
        <4>1. planning.current.total = 0 /\ f.size = 0
          BY <1>2, <1>3, <2>1, <3>2, AddFileFacts
        <4>2. NonEmpty(planning.current) = {}
          BY <1>1, <4>1 DEF PInv, PackInv
        <4> QED
          BY <1>2, <1>3, <3>2, <4>1, <4>2, AddFileFacts
      <3> QED
        BY <1>2, <3>1, <3>2
    <2> QED
      BY <1>2, <2>1 DEF PackInv
  <1>7. BucketsFit'
    <2>1. Fits(planning'.current, planning'.opts)
      <3>1. CASE planning'.current = AddFile(EmptyBucket, f)
        BY <1>2, <1>3, <3>1, FirstFileFits
      <3>2. CASE planning'.current = AddFile(planning.current, f) /\ ~CloseBucket(f)
        <4>1. CASE planning.current.total = 0
          <5>1. NonEmpty(planning.current) = {}
            BY <1>1, <4>1 DEF PInv, PackInv
          <5> QED
            BY <1>2, <1>3, <3>2, <5>1, FirstFileFits
        <4>2. CASE planning.current.total # 0
          <5>1. ~(planning.current.total + f.size > Target(planning.opts))
            BY <1>2, <1>3, <3>2, <4>2 DEF CloseBucket, Bucket
          <5>2. AddFile(planning.current, f).total = planning.current.total + f.size
            BY <1>2, <1>3, AddFileFacts
          <5>3. Target(planning.opts) \in Int
            BY <1>1, TargetType DEF Planning
          <5> QED
            BY <1>2, <1>3, <3>2, <5>1, <5>2, <5>3, AddFileFacts DEF Fits
        <4> QED
          BY <4>1, <4>2
      <3> QED
        BY <1>2, <3>1, <3>2
    <2>2. \A i \in DOMAIN planning'.buckets : Fits(planning'.buckets[i], planning'.opts)
      <3>1. /\ Fits(planning.current, planning.opts)
            /\ \A i \in DOMAIN planning.buckets : Fits(planning.buckets[i], planning.opts)
        BY <1>1 DEF PInv, BucketsFit
      <3> QED
        BY <1>2, <1>3, <3>1
    <2> QED
      BY <1>1, <1>2, <2>1, <2>2 DEF PInv, BucketsFit
  <1>8. PlanCoversScan'
    <2>1. Partition(planning.scan, planning.todo, planning.current.files, planning.buckets)
      BY <1>1 DEF PInv, PlanCoversScan, Partition
    <2>2. Partition(planning'.scan, planning'.todo, planning'.current.files, planning'.buckets)
      <3>1. CASE /\ planning'.current = AddFile(EmptyBucket, f)
                 /\ planning'.buckets = Append(planning.buckets, planning.current)
        <4>1. Partition(planning.scan, planning.todo, {}, planning'.buckets)
          BY <1>3, <2>1, <3>1, PartitionClose
        <4>2. planning'.current.files = {} \cup {f}
          BY <1>2, <1>3, <3>1, AddFileFacts
        <4> QED
          BY <1>2, <4>1, <4>2, PartitionAdd
      <3>2. CASE /\ planning'.current = AddFile(planning.current, f)
                 /\ planning'.buckets = planning.buckets
        <4>1. planning'.current.files = planning.current.files \cup {f}
          BY <1>2, <1>3, <3>2, AddFileFacts
        <4> QED
          BY <1>2, <2>1, <3>2, <4>1, PartitionAdd
      <3> QED
        BY <1>2, <3>1, <3>2
    <2> QED
      BY <1>2, <2>2 DEF PlanCoversScan, Partition
  <1> QED
    BY <1>5, <1>6, <1>7, <1>8 DEF PInv

(* The end of Pack: the open bucket is closed too.                         *)
LEMMA PackLastPlans ==
    ASSUME TInv, PInv, PackLast, UNCHANGED pipelineVars
    PROVE  PInv'
  <1>1. /\ planning \in Planning /\ planning.phase = "pack" /\ planning.todo = {}
        /\ UNCHANGED <<job, groups, disks>>
    BY PlanningType DEF PackLast, catalogVars
  <1>2. /\ planning.current \in Bucket /\ planning.buckets \in Seq(Bucket)
        /\ Append(planning.buckets, planning.current) \in Seq(Bucket)
    BY <1>1 DEF Planning
  <1>3. /\ planning'.phase = "ids" /\ planning'.todo = {} /\ planning'.current = EmptyBucket
        /\ planning'.buckets = Append(planning.buckets, planning.current)
        /\ planning'.scan = planning.scan /\ planning'.opts = planning.opts
        /\ planning'.plans = planning.plans /\ planning'.withGroups = planning.withGroups
        /\ planning'.start = planning.start /\ planning'.allocated = planning.allocated
    BY <1>1 DEF PackLast, Planning
  <1>4. /\ planning.plans = <<>> /\ planning.withGroups = <<>> /\ planning.start = 0
        /\ planning.allocated = 0
    BY <1>1 DEF TInv, PlanShape, PInv, NumberInv
  <1>5. NumberInv' /\ OrderInv' /\ PlanIDsDistinct' /\ GroupInv'
    BY <1>1, <1>2, <1>3, <1>4, NothingPlanned
  <1>6. PackInv'
    BY <1>3, EmptyBucketFacts DEF PackInv
  <1>7. BucketsFit'
    <2>1. /\ Fits(planning.current, planning.opts)
          /\ \A i \in DOMAIN planning.buckets : Fits(planning.buckets[i], planning.opts)
      BY <1>1 DEF PInv, BucketsFit
    <2>2. \A i \in DOMAIN planning'.buckets : Fits(planning'.buckets[i], planning'.opts)
      BY <1>2, <1>3, <2>1
    <2> QED
      BY <1>1, <1>3, <2>2, EmptyBucketFacts DEF PInv, BucketsFit
  <1>8. PlanCoversScan'
    <2>1. Partition(planning.scan, planning.todo, planning.current.files, planning.buckets)
      BY <1>1 DEF PInv, PlanCoversScan, Partition
    <2>2. Partition(planning'.scan, planning'.todo, planning'.current.files, planning'.buckets)
      BY <1>1, <1>2, <1>3, <2>1, PartitionClose, EmptyBucketFacts
    <2> QED
      BY <1>3, <2>2 DEF PlanCoversScan, Partition
  <1> QED
    BY <1>5, <1>6, <1>7, <1>8 DEF PInv

-----------------------------------------------------------------------------
(* The fields of a data disc's plan.                                       *)
LEMMA DataPlanFields ==
    \A i : /\ DataPlan(i).role = "data" /\ DataPlan(i).group = NoGroup
          /\ DataPlan(i).slot = 0 /\ DataPlan(i).bucket = planning.buckets[i]
          /\ DataPlan(i).id.prefix = planning.opts.prefix
          /\ DataPlan(i).id.num = Count(planning.opts.prefix) + i
  BY DEF DataPlan

(* Consecutive numbers are distinct.                                       *)
LEMMA NumbersDistinct ==
    TInv /\ NumberInv /\ planning.phase # "idle" => DistinctIDs(planning.plans)
  <1> SUFFICES ASSUME TInv, NumberInv, planning.phase # "idle"
               PROVE  DistinctIDs(planning.plans)
    OBVIOUS
  <1>1. planning \in Planning /\ Count(planning.opts.prefix) \in Nat
    BY PlanningType, CountType
  <1>2. \A i \in DOMAIN planning.plans :
          i \in Nat /\ planning.plans[i].id.num = Count(planning.opts.prefix) + i
    BY <1>1 DEF NumberInv, DataPlan, Planning
  <1> QED
    BY <1>1, <1>2 DEF DistinctIDs

(* When the plan is done every bucket is on one of its discs.              *)
LEMMA DoneCovers ==
    /\ TInv /\ NumberInv /\ OrderInv /\ planning.phase = "done"
    /\ Partition(planning.scan, {}, {}, planning.buckets)
    => planning.scan = UNION {planning.withGroups[i].bucket.files :
                                i \in DOMAIN planning.withGroups}
  <1> SUFFICES ASSUME TInv, NumberInv, OrderInv, planning.phase = "done",
                      Partition(planning.scan, {}, {}, planning.buckets)
               PROVE  planning.scan = UNION {planning.withGroups[i].bucket.files :
                                               i \in DOMAIN planning.withGroups}
    OBVIOUS
  <1>1. /\ planning \in Planning /\ Taken = Len(planning.plans)
        /\ Len(planning.plans) = Len(planning.buckets)
    BY PlanningType DEF Taken, NumberInv
  <1>2. /\ \A j \in 1..Taken : planning.plans[j].bucket = planning.buckets[j]
        /\ DOMAIN planning.buckets = 1..Taken
    BY <1>1 DEF NumberInv, DataPlan, Planning
  <1>3. planning.scan = UNION {planning.buckets[j].files : j \in 1..Taken}
    BY <1>2 DEF Partition, BucketFiles
  <1>4. ASSUME NEW f \in planning.scan
        PROVE  \E i \in DOMAIN planning.withGroups : f \in planning.withGroups[i].bucket.files
    BY <1>2, <1>3 DEF OrderInv
  <1>5. ASSUME NEW i \in DOMAIN planning.withGroups,
               NEW f \in planning.withGroups[i].bucket.files
        PROVE  f \in planning.scan
    <2>1. planning.withGroups[i].bucket \in TakenBuckets
      BY DEF OrderInv
    <2>2. PICK j \in 1..Taken : planning.withGroups[i].bucket = planning.plans[j].bucket
      BY <1>5, <2>1, EmptyBucketFacts DEF TakenBuckets
    <2> QED
      BY <1>2, <1>3, <1>5, <2>2
  <1> QED
    BY <1>4, <1>5

(* The ID loop and the group loop leave the buckets alone.                 *)
LEMMA BucketsFrame ==
    ASSUME PInv, TInv', NumberInv', OrderInv',
           planning.phase \in {"ids", "group", "parity"},
           planning'.phase \in {"ids", "group", "parity", "done"},
           planning'.opts = planning.opts, planning'.scan = planning.scan,
           planning'.todo = planning.todo, planning'.current = planning.current,
           planning'.buckets = planning.buckets, job' = job
    PROVE  PackInv' /\ BucketsFit' /\ PlanCoversScan'
  <1>1. PackInv'
    BY DEF PInv, PackInv
  <1>2. BucketsFit'
    BY DEF PInv, BucketsFit
  <1>3. planning.todo = {} /\ planning.current.files = {}
    BY EmptyBucketFacts DEF PInv, PackInv
  <1>4. Partition(planning.scan, {}, {}, planning.buckets)
    BY <1>3 DEF PInv, PlanCoversScan, Partition
  <1>5. (/\ TInv /\ NumberInv /\ OrderInv /\ planning.phase = "done"
         /\ Partition(planning.scan, {}, {}, planning.buckets)
         => planning.scan = UNION {planning.withGroups[i].bucket.files :
                                     i \in DOMAIN planning.withGroups})'
    BY DoneCovers, PTL
  <1>6. PlanCoversScan'
    BY <1>3, <1>4, <1>5 DEF PlanCoversScan, Partition
  <1> QED
    BY <1>1, <1>2, <1>6

(* The ID loop gives the next bucket the next number.                      *)
LEMMA PlanDiscPlans ==
    ASSUME TInv, TInv', PInv, PlanDisc, UNCHANGED pipelineVars
    PROVE  PInv'
  <1>1. /\ planning \in Planning /\ planning.phase = "ids" /\ UNCHANGED <<job, groups, disks>>
        /\ Count(planning.opts.prefix) \in Nat
    BY PlanningType, CountType DEF PlanDisc, catalogVars
  <1> DEFINE n == Len(planning.plans)
             d == [id |-> NewID, role |-> "data", group |-> NoGroup, slot |-> 0,
                   bucket |-> planning.buckets[n + 1]]
  <1>2. /\ planning.plans \in Seq(DiscPlan) /\ planning.buckets \in Seq(Bucket)
        /\ n \in Nat /\ n < Len(planning.buckets)
        /\ planning.allocated = n
        /\ planning.withGroups = <<>> /\ planning.start = 0
    BY <1>1 DEF Planning, PlanDisc, PInv, NumberInv, TInv, PlanShape
  <1>3. d = DataPlan(n + 1)
    BY <1>1, <1>2 DEF DataPlan, NewID, NextDiskID
  <1>4. planning' = [planning EXCEPT !.allocated = @ + 1, !.plans = Append(@, d)]
    BY DEF PlanDisc
  <1> HIDE DEF d
  <1>5. /\ planning'.plans = Append(planning.plans, d) /\ planning'.allocated = n + 1
        /\ planning'.phase = "ids" /\ planning'.opts = planning.opts
        /\ planning'.scan = planning.scan /\ planning'.todo = planning.todo
        /\ planning'.current = planning.current /\ planning'.buckets = planning.buckets
        /\ planning'.withGroups = <<>> /\ planning'.start = 0
    BY <1>1, <1>2, <1>4 DEF Planning
  <1>6. \A i \in 1..(n + 1) : DataPlan(i)' = DataPlan(i)
    BY <1>1, <1>5 DEF DataPlan, Count
  <1>7. NumberInv'
    <2>1. \A i \in DOMAIN planning.plans : planning.plans[i] = DataPlan(i)
      BY <1>1 DEF PInv, NumberInv
    <2>2. /\ DOMAIN planning'.plans = 1..(n + 1) /\ Len(planning'.plans) = n + 1
          /\ planning'.plans[n + 1] = d
          /\ \A i \in 1..n : planning'.plans[i] = planning.plans[i]
      BY <1>2, <1>5
    <2>3. \A i \in DOMAIN planning'.plans : planning'.plans[i] = DataPlan(i)'
      BY <1>2, <1>3, <1>6, <2>1, <2>2
    <2> QED
      BY <1>2, <1>5, <2>2, <2>3 DEF NumberInv
  <1>8. OrderInv'
    BY <1>2, <1>5 DEF OrderInv, Taken, DistinctIDs
  <1>9. (TInv /\ NumberInv /\ planning.phase # "idle" => DistinctIDs(planning.plans))'
    BY NumbersDistinct, PTL
  <1>10. PlanIDsDistinct'
    BY <1>1, <1>5, <1>7, <1>9 DEF PInv, PlanIDsDistinct, DistinctIDs
  <1>11. Grouped(groups, planning.withGroups, planning.opts, planning.phase = "parity")'
    BY <1>5 DEF Grouped, Ungrouped
  <1>12. GroupInv'
    BY <1>1, <1>5, <1>11, GroupFrame
  <1> QED
    BY <1>1, <1>5, <1>7, <1>8, <1>10, <1>12, BucketsFrame DEF PInv

(* Without cross-disc parity the data discs are the plan.                  *)
LEMMA PlansCompletePlans ==
    ASSUME TInv, TInv', PInv, PlansComplete, UNCHANGED pipelineVars
    PROVE  PInv'
  <1>1. /\ planning \in Planning /\ planning.phase = "ids" /\ UNCHANGED <<job, groups, disks>>
        /\ Count(planning.opts.prefix) \in Nat
    BY PlanningType, CountType DEF PlansComplete, catalogVars
  <1>2. /\ planning.plans \in Seq(DiscPlan)
        /\ Len(planning.plans) = Len(planning.buckets)
        /\ planning.withGroups = <<>> /\ planning.start = 0
        /\ \A i \in DOMAIN planning.plans : planning.plans[i] = DataPlan(i)
    BY <1>1 DEF Planning, PlansComplete, PInv, NumberInv, TInv, PlanShape
  <1>3. /\ planning'.opts = planning.opts /\ planning'.plans = planning.plans
        /\ planning'.scan = planning.scan /\ planning'.todo = planning.todo
        /\ planning'.current = planning.current /\ planning'.buckets = planning.buckets
        /\ planning'.start = 0 /\ planning'.allocated = planning.allocated
        /\ IF planning.opts.crossDiscParity
           THEN planning'.phase = "group" /\ planning'.withGroups = <<>>
           ELSE planning'.phase = "done" /\ planning'.withGroups = planning.plans
    BY <1>1, <1>2 DEF PlansComplete, Planning
  <1>4. \A i \in DOMAIN planning.plans : DataPlan(i)' = DataPlan(i)
    BY <1>1, <1>3 DEF DataPlan, Count
  <1>5. NumberInv'
    BY <1>1, <1>2, <1>3, <1>4 DEF PInv, NumberInv
  <1>6. (TInv /\ NumberInv /\ planning.phase # "idle" => DistinctIDs(planning.plans))'
    BY NumbersDistinct, PTL
  <1>7. DistinctIDs(planning'.plans) /\ DistinctIDs(planning'.withGroups)
    BY <1>1, <1>3, <1>5, <1>6 DEF DistinctIDs
  <1>8. OrderInv'
    <2>1. CASE planning.opts.crossDiscParity
      BY <1>2, <1>3, <1>7, <2>1 DEF OrderInv, Taken
    <2>2. CASE ~planning.opts.crossDiscParity
      <3>1. /\ Taken' = Len(planning.plans) /\ planning'.withGroups = planning.plans
            /\ Len(planning.plans) \in Nat
            /\ DOMAIN planning.plans = 1..Len(planning.plans)
        BY <1>2, <1>3, <2>2 DEF Taken
      <3>2. \A i \in DOMAIN planning.plans : planning.plans[i].bucket \in TakenBuckets'
        BY <1>3, <3>1 DEF TakenBuckets
      <3>3. Count(planning.opts.prefix)' = Count(planning.opts.prefix)
        BY <1>1, <1>3 DEF Count
      <3>4. \A i \in DOMAIN planning.plans :
              /\ planning.plans[i].role = "data"
              /\ planning.plans[i].id.num <= Count(planning.opts.prefix) + Len(planning.plans)
        BY <1>1, <1>2, <3>1, DataPlanFields
      <3> QED
        BY <1>3, <1>7, <3>1, <3>2, <3>3, <3>4 DEF OrderInv
    <2> QED
      BY <2>1, <2>2
  <1>9. PlanIDsDistinct'
    BY <1>1, <1>7 DEF PInv, PlanIDsDistinct
  <1>10. \A i \in DOMAIN planning.plans :
           planning.plans[i].group = NoGroup /\ planning.plans[i].role = "data"
    BY <1>2, DataPlanFields
  <1>11. Grouped(groups, planning.withGroups, planning.opts, planning.phase = "parity")'
    BY <1>3, <1>10 DEF Grouped, Ungrouped
  <1>12. GroupInv'
    BY <1>1, <1>3, <1>11, GroupFrame
  <1> QED
    BY <1>1, <1>3, <1>5, <1>8, <1>9, <1>12, BucketsFrame DEF PInv

-----------------------------------------------------------------------------
(* The elements of a concatenation.                                        *)
LEMMA ConcatFacts ==
    ASSUME NEW S, NEW u \in Seq(S), NEW v \in Seq(S), NEW w, w = u \o v
    PROVE  /\ Len(u) \in Nat /\ Len(v) \in Nat
           /\ w \in Seq(S) /\ Len(w) = Len(u) + Len(v)
           /\ DOMAIN u = 1..Len(u) /\ DOMAIN v = 1..Len(v)
           /\ DOMAIN w = 1..(Len(u) + Len(v))
           /\ \A i \in 1..Len(u) : w[i] = u[i]
           /\ \A k \in 1..Len(v) : w[Len(u) + k] = v[k]
           /\ \A i \in DOMAIN w : i \in 1..Len(u) \/ i - Len(u) \in 1..Len(v)
  OBVIOUS

(* The fields of a sequence of plans.                                      *)
LEMMA PlanFields ==
    ASSUME NEW plans \in Seq(DiscPlan), NEW i \in DOMAIN plans
    PROVE  /\ plans[i] \in DiscPlan /\ plans[i].role \in {"data", "parity"}
           /\ plans[i].id \in DiskID /\ plans[i].id.num \in Nat
           /\ plans[i].group \in Nat /\ plans[i].slot \in Nat /\ plans[i].bucket \in Bucket
  <1>1. plans[i] \in DiscPlan
    OBVIOUS
  <1> QED
    BY <1>1 DEF DiscPlan, Role, DiskID

(* The members of the group that PlanGroup places.                         *)
LEMMA MemberFields ==
    ASSUME TInv, NumberInv, planning.phase = "group", planning.start < Len(planning.plans),
           NEW k \in 1..(GroupEnd - planning.start)
    PROVE  /\ planning.start + k \in 1..GroupEnd
           /\ planning.start + k \in DOMAIN planning.plans
           /\ Members[k].role = "data" /\ Members[k].group = Len(groups) + 1
           /\ Members[k].slot = k - 1
           /\ Members[k].bucket = planning.plans[planning.start + k].bucket
           /\ Members[k].id.num = Count(planning.opts.prefix) + planning.start + k
  <1>1. /\ planning \in Planning /\ planning.start \in Nat
        /\ planning.plans \in Seq(DiscPlan) /\ Count(planning.opts.prefix) \in Nat
    BY PlanningType, CountType DEF Planning
  <1>2. /\ GroupEnd \in Nat /\ GroupEnd > planning.start /\ GroupEnd <= Len(planning.plans)
    BY <1>1, GroupEndType
  <1> DEFINE j == planning.start + k
  <1>3. j \in 1..GroupEnd /\ j \in DOMAIN planning.plans
    BY <1>1, <1>2
  <1>4. planning.plans[j] = DataPlan(j) /\ planning.plans[j] \in DiscPlan
    BY <1>1, <1>3 DEF NumberInv
  <1>5. Members[k] = [planning.plans[j] EXCEPT !.group = Len(groups) + 1, !.slot = k - 1]
    BY DEF Members
  <1>6. /\ Members[k].role = planning.plans[j].role /\ Members[k].group = Len(groups) + 1
        /\ Members[k].slot = k - 1 /\ Members[k].bucket = planning.plans[j].bucket
        /\ Members[k].id = planning.plans[j].id
    BY <1>4, <1>5 DEF DiscPlan
  <1>7. planning.plans[j].role = "data"
        /\ planning.plans[j].id.num = Count(planning.opts.prefix) + j
    BY <1>4, DataPlanFields
  <1>8. Count(planning.opts.prefix) + j = Count(planning.opts.prefix) + planning.start + k
    BY <1>1
  <1> QED
    BY <1>3, <1>6, <1>7, <1>8

(* A plan stays in place when a disk_groups row is added and, behind it,   *)
(* plans of that new group.                                                *)
LEMMA PlaceStable ==
    ASSUME NEW sizes \in Seq(Nat), NEW m \in Nat, NEW more, more = Append(sizes, m),
           NEW plans \in Seq(DiscPlan), NEW i \in DOMAIN plans, InPlace(sizes, plans, i, FALSE),
           NEW longer \in Seq(DiscPlan), Len(longer) >= Len(plans),
           \A j \in DOMAIN plans : longer[j] = plans[j],
           \A j \in DOMAIN longer : j > Len(plans) => longer[j].group = Len(sizes) + 1,
           NEW open
    PROVE  InPlace(more, longer, i, open)
  <1>1. /\ Len(sizes) \in Nat /\ Len(more) = Len(sizes) + 1
        /\ \A g \in 1..Len(sizes) : more[g] = sizes[g] /\ sizes[g] \in Nat
    OBVIOUS
  <1>2. /\ DOMAIN plans = 1..Len(plans) /\ DOMAIN longer = 1..Len(longer)
        /\ Len(plans) \in Nat /\ Len(longer) \in Nat
    OBVIOUS
  <1>3. /\ longer[i] = plans[i] /\ plans[i].slot \in Nat
        /\ i \in Nat /\ i \in DOMAIN longer
    BY <1>2, PlanFields
  <1> DEFINE g == plans[i].group
             f == First(plans, i)
  <1>4. f \in Int /\ First(longer, i) = f
    BY <1>3 DEF First
  <1>5. /\ g \in 1..Len(sizes) /\ plans[i].slot <= sizes[g] /\ f >= 1
        /\ plans[i].role = "parity" <=> plans[i].slot = sizes[g]
        /\ f + sizes[g] <= Len(plans)
        /\ \A j \in DOMAIN plans :
             /\ j - f \in 0..sizes[g] => plans[j].group = g /\ plans[j].slot = j - f
             /\ plans[j].group = g => First(plans, j) = f
    BY DEF InPlace
  <1> HIDE DEF f
  <1>6. ASSUME NEW j \in DOMAIN longer
        PROVE  /\ j - f \in 0..more[g] => longer[j].group = g /\ longer[j].slot = j - f
               /\ longer[j].group = g => First(longer, j) = f
    <2>1. CASE j \in DOMAIN plans
      BY <1>1, <1>5, <2>1 DEF First
    <2>2. CASE j > Len(plans)
      <3>1. longer[j].group # g
        BY <1>1, <1>5, <2>2
      <3>2. ~(j - f \in 0..more[g])
        BY <1>1, <1>2, <1>4, <1>5, <2>2
      <3> QED
        BY <3>1, <3>2
    <2>3. j \in DOMAIN plans \/ j > Len(plans)
      BY <1>2
    <2> QED
      BY <2>1, <2>2, <2>3
  <1>7. more[g] = sizes[g] /\ g \in 1..Len(more) /\ f + more[g] <= Len(longer)
    BY <1>1, <1>2, <1>4, <1>5
  <1> QED
    BY <1>3, <1>4, <1>5, <1>6, <1>7 DEF InPlace

(* The numbers in a group are those of its data discs.                     *)
LEMMA PlanGroupOrder ==
    ASSUME TInv, PInv, PlanGroup, UNCHANGED pipelineVars
    PROVE  NumberInv' /\ OrderInv' /\ PlanIDsDistinct'
  <1> DEFINE W == planning.withGroups
             count == Count(planning.opts.prefix)
             start == planning.start
             m == GroupEnd - planning.start
  <1>1. /\ planning \in Planning /\ groups \in Seq(Nat) /\ planning.phase = "group"
        /\ UNCHANGED <<job, disks>> /\ start < Len(planning.plans) /\ count \in Nat
    BY PlanningType, CountType DEF PlanGroup
  <1>2. Members \in Seq(DiscPlan) /\ Len(Members) = m /\ m \in Nat
    BY <1>1, MembersType, GroupEndType DEF Planning
  <1>3. /\ planning'.withGroups = W \o Members /\ planning'.plans = planning.plans
        /\ planning'.opts = planning.opts /\ planning'.allocated = planning.allocated
        /\ planning'.phase = "parity" /\ planning'.start = start
        /\ planning'.buckets = planning.buckets
    BY <1>1 DEF PlanGroup, Members, Planning
  <1>4. /\ Taken = start /\ Taken' = GroupEnd /\ GroupEnd \in Nat /\ start \in Nat
        /\ start < GroupEnd /\ GroupEnd <= Len(planning.plans) /\ Len(planning.plans) \in Nat
    BY <1>1, <1>3, GroupEndType DEF Taken, GroupEnd, Planning
  <1>5. Count(planning.opts.prefix)' = count
    BY <1>1, <1>3 DEF Count
  <1>6. NumberInv'
    <2>1. \A i \in DOMAIN planning.plans : DataPlan(i)' = DataPlan(i)
      BY <1>3, <1>5 DEF DataPlan
    <2> QED
      BY <1>1, <1>3, <2>1 DEF PInv, NumberInv
  <1>7. \A k \in 1..m : /\ start + k \in 1..GroupEnd
                        /\ Members[k].role = "data"
                        /\ Members[k].bucket = planning.plans[start + k].bucket
                        /\ Members[k].id.num = count + start + k
    BY <1>1, MemberFields DEF PInv
  <1>8. /\ \A i \in DOMAIN W :
             /\ W[i].bucket \in TakenBuckets
             /\ W[i].role = "data" => W[i].id.num <= count + start
             /\ W[i].role = "parity" => /\ W[i].id.num > count + Len(planning.plans)
                                        /\ W[i].id.num <= count + planning.allocated
        /\ \A j \in 1..start : \E i \in DOMAIN W : W[i].bucket = planning.plans[j].bucket
        /\ DistinctIDs(W)
    BY <1>1, <1>4 DEF PInv, OrderInv
  <1>9. /\ W \in Seq(DiscPlan)
        /\ \A i \in DOMAIN W : W[i].role \in {"data", "parity"} /\ W[i].id.num \in Nat
    BY <1>1, PlanFields DEF Planning
  <1>10. TakenBuckets \subseteq TakenBuckets'
         /\ \A j \in 1..GroupEnd : planning.plans[j].bucket \in TakenBuckets'
    BY <1>3, <1>4 DEF TakenBuckets
  <1> DEFINE V == W \o Members
  <1>11. /\ DOMAIN W = 1..Len(W) /\ DOMAIN Members = 1..m /\ Len(W) \in Nat
         /\ DOMAIN V = 1..(Len(W) + m)
         /\ \A i \in 1..Len(W) : V[i] = W[i]
         /\ \A k \in 1..m : V[Len(W) + k] = Members[k]
         /\ \A i \in DOMAIN V : i \in 1..Len(W) \/ \E k \in 1..m : i = Len(W) + k
    <2>1. W \in Seq(DiscPlan) /\ Members \in Seq(DiscPlan) /\ V = W \o Members
          /\ Len(Members) = m
      BY <1>2, <1>9
    <2> HIDE DEF W, m, V
    <2>2. /\ DOMAIN W = 1..Len(W) /\ DOMAIN Members = 1..m /\ Len(W) \in Nat
          /\ DOMAIN V = 1..(Len(W) + m)
          /\ \A i \in 1..Len(W) : V[i] = W[i]
          /\ \A k \in 1..m : V[Len(W) + k] = Members[k]
          /\ \A i \in DOMAIN V : i \in 1..Len(W) \/ i - Len(W) \in 1..m
      BY <2>1, ConcatFacts
    <2>3. \A i \in DOMAIN V : i \in Int /\ i = Len(W) + (i - Len(W))
      BY <1>2, <2>2
    <2> QED
      BY <2>2, <2>3
  <1> HIDE DEF V, W, m, count, start
  <1>12. \A i \in DOMAIN V :
            /\ V[i].bucket \in TakenBuckets'
            /\ V[i].role = "data" => V[i].id.num <= count + GroupEnd
            /\ V[i].role = "parity" => /\ V[i].id.num > count + Len(planning.plans)
                                       /\ V[i].id.num <= count + planning.allocated
    <2>1. ASSUME NEW i \in 1..Len(W)
          PROVE  /\ V[i].bucket \in TakenBuckets'
                 /\ V[i].role = "data" => V[i].id.num <= count + GroupEnd
                 /\ V[i].role = "parity" => /\ V[i].id.num > count + Len(planning.plans)
                                            /\ V[i].id.num <= count + planning.allocated
      <3>1. V[i] = W[i] /\ i \in DOMAIN W
        BY <1>11
      <3>2. W[i].bucket \in TakenBuckets' /\ W[i].id.num \in Nat
        BY <1>8, <1>9, <1>10, <3>1
      <3>3. W[i].id.num <= count + start => W[i].id.num <= count + GroupEnd
        BY <1>1, <1>4, <3>2
      <3> QED
        BY <1>8, <3>1, <3>2, <3>3
    <2>2. ASSUME NEW k \in 1..m
          PROVE  /\ V[Len(W) + k].bucket \in TakenBuckets'
                 /\ V[Len(W) + k].role = "data" /\ V[Len(W) + k].id.num <= count + GroupEnd
      <3>1. /\ V[Len(W) + k] = Members[k] /\ start + k \in 1..GroupEnd
            /\ Members[k].role = "data" /\ Members[k].id.num = count + start + k
            /\ Members[k].bucket = planning.plans[start + k].bucket
        BY <1>7, <1>11
      <3>2. count + start + k <= count + GroupEnd
        BY <1>1, <1>2, <1>4, <3>1
      <3> QED
        BY <1>10, <3>1, <3>2
    <2> QED
      BY <1>11, <2>1, <2>2
  <1>13. \A j \in 1..GroupEnd : \E i \in DOMAIN V : V[i].bucket = planning.plans[j].bucket
    <2>1. ASSUME NEW j \in 1..start PROVE \E i \in DOMAIN V : V[i].bucket = planning.plans[j].bucket
      BY <1>2, <1>8, <1>11
    <2>2. ASSUME NEW j \in 1..GroupEnd, j > start
          PROVE  \E i \in DOMAIN V : V[i].bucket = planning.plans[j].bucket
      <3>1. j - start \in 1..m /\ start + (j - start) = j
        BY <1>4, <2>2 DEF m, start
      <3>2. V[Len(W) + (j - start)].bucket = planning.plans[j].bucket
        BY <1>7, <1>11, <3>1
      <3>3. Len(W) + (j - start) \in DOMAIN V
        BY <1>2, <1>11, <3>1
      <3> QED
        BY <3>2, <3>3
    <2> QED
      BY <1>4, <2>1, <2>2
  <1>14. DistinctIDs(V)
    <2>1. ASSUME NEW i \in 1..Len(W), NEW k \in 1..m PROVE V[i].id.num # V[Len(W) + k].id.num
      <3>1. V[Len(W) + k].id.num = count + start + k /\ start + k <= Len(planning.plans)
        BY <1>4, <1>7, <1>11
      <3>2. V[i].id.num <= count + start \/ V[i].id.num > count + Len(planning.plans)
        BY <1>8, <1>9, <1>11
      <3>3. k \in Nat /\ k > 0 /\ V[i].id.num \in Nat
        BY <1>9, <1>11
      <3> QED
        BY <1>1, <1>4, <3>1, <3>2, <3>3
    <2>2. ASSUME NEW k \in 1..m, NEW l \in 1..m, V[Len(W) + k].id = V[Len(W) + l].id
          PROVE  k = l
      <3>1. count + start + k = count + start + l
        BY <1>7, <1>11, <2>2
      <3> QED
        BY <1>1, <1>2, <1>4, <3>1
    <2>3. ASSUME NEW i \in 1..Len(W), NEW j \in 1..Len(W), V[i].id = V[j].id PROVE i = j
      BY <1>8, <1>11, <2>3 DEF DistinctIDs
    <2> QED
      BY <1>11, <2>1, <2>2, <2>3 DEF DistinctIDs
  <1>15. OrderInv'
    BY <1>3, <1>4, <1>5, <1>12, <1>13, <1>14 DEF OrderInv, V, W, count
  <1>16. PlanIDsDistinct'
    BY <1>1, <1>3, <1>14 DEF PInv, PlanIDsDistinct, V, W
  <1> QED
    BY <1>6, <1>15, <1>16

(* The new group's members are in place behind the plans before them.      *)
LEMMA MemberPlaced ==
    ASSUME NEW sizes \in Seq(Nat), NEW m \in Nat \ {0}, NEW more, more = Append(sizes, m),
           NEW plans \in Seq(DiscPlan), NEW n \in Nat, Len(plans) = n + m,
           \A j \in 1..n : plans[j].group # Len(sizes) + 1,
           \A j \in (n + 1)..(n + m) : /\ plans[j].group = Len(sizes) + 1
                                       /\ plans[j].slot = j - (n + 1)
                                       /\ plans[j].role = "data",
           NEW i \in (n + 1)..(n + m)
    PROVE  InPlace(more, plans, i, TRUE)
  <1> DEFINE g == Len(sizes) + 1
  <1>1. /\ Len(sizes) \in Nat /\ Len(more) = g /\ more[g] = m /\ g \in 1..Len(more)
        /\ DOMAIN plans = 1..(n + m)
    OBVIOUS
  <1>2. /\ plans[i].group = g /\ plans[i].slot = i - (n + 1) /\ plans[i].role = "data"
        /\ i - (n + 1) <= m /\ i - (n + 1) # m
    OBVIOUS
  <1>3. \A j \in (n + 1)..(n + m) : First(plans, j) = n + 1
    BY DEF First
  <1> HIDE DEF g
  <1>4. ASSUME NEW j \in DOMAIN plans
        PROVE  /\ j - (n + 1) \in 0..m => plans[j].group = g /\ plans[j].slot = j - (n + 1)
               /\ plans[j].group = g => First(plans, j) = n + 1
    <2>1. CASE j \in 1..n
      BY <1>1, <2>1 DEF g
    <2>2. CASE j \in (n + 1)..(n + m)
      BY <1>3, <2>2 DEF g
    <2>3. j \in 1..n \/ j \in (n + 1)..(n + m)
      BY <1>1
    <2> QED
      BY <2>1, <2>2, <2>3
  <1>5. First(plans, i) = n + 1 /\ n + 1 >= 1 /\ n + 1 + m = Len(plans) + 1
    BY <1>3
  <1> QED
    BY <1>1, <1>2, <1>4, <1>5 DEF InPlace

(* PlanGroup keeps every group in place, the last one without parity disc. *)
LEMMA PlanGroupPlans ==
    ASSUME TInv, TInv', PInv, PlanGroup, UNCHANGED pipelineVars
    PROVE  PInv'
  <1> DEFINE W == planning.withGroups
             V == planning'.withGroups
             m == GroupEnd - planning.start
             n == Len(planning.withGroups)
  <1>1. /\ planning \in Planning /\ groups \in Seq(Nat) /\ planning.phase = "group"
        /\ UNCHANGED <<job, disks>> /\ planning.start < Len(planning.plans)
        /\ groups' = Append(groups, m)
    BY PlanningType DEF PlanGroup, InsertDiskGroup
  <1>2. Members \in Seq(DiscPlan) /\ Len(Members) = m /\ m \in Nat \ {0}
    BY <1>1, MembersType, GroupEndType DEF Planning
  <1>3. /\ V = W \o Members /\ planning'.plans = planning.plans
        /\ planning'.opts = planning.opts /\ planning'.phase = "parity"
        /\ planning'.start = planning.start /\ planning'.buckets = planning.buckets
        /\ planning'.scan = planning.scan /\ planning'.todo = planning.todo
        /\ planning'.current = planning.current
    BY <1>1 DEF PlanGroup, Members, Planning
  <1>4. W \in Seq(DiscPlan) /\ n \in Nat /\ DOMAIN W = 1..n
    BY <1>1 DEF Planning
  <1>5. /\ V \in Seq(DiscPlan) /\ Len(V) = n + m /\ DOMAIN V = 1..(n + m)
        /\ \A j \in 1..n : V[j] = W[j]
        /\ \A k \in 1..m : V[n + k] = Members[k]
    <2>1. V = W \o Members /\ W \in Seq(DiscPlan) /\ Members \in Seq(DiscPlan)
          /\ Len(Members) = m /\ Len(W) = n
      BY <1>2, <1>3, <1>4
    <2> HIDE DEF W, V, m, n
    <2>2. Len(V) = Len(W) + Len(Members)
      BY <2>1, ConcatProperties
    <2>5. V \in Seq(DiscPlan)
      BY <2>1, ConcatProperties
    <2>3. DOMAIN V = 1..(Len(W) + Len(Members)) /\ \A j \in 1..Len(W) : V[j] = W[j]
      BY <2>1, ConcatFacts
    <2>4. \A k \in 1..Len(Members) : V[Len(W) + k] = Members[k]
      BY <2>1, ConcatFacts
    <2> QED
      BY <2>1, <2>2, <2>3, <2>4, <2>5
  <1>6. \A k \in 1..m : /\ Members[k].role = "data" /\ Members[k].group = Len(groups) + 1
                        /\ Members[k].slot = k - 1
    BY <1>1, MemberFields DEF PInv
  <1>7. /\ planning.opts.crossDiscParity
        /\ \A i \in 1..n : InPlace(groups, W, i, FALSE)
        /\ job.state # "NONE" => Grouped(groups, job.plans, job.opts, FALSE)
        /\ GroupEnd' = GroupEnd
    BY <1>1, <1>3, <1>4 DEF PInv, GroupInv, Grouped, GroupEnd
  <1> HIDE DEF W, V, m, n
  <1>8. ASSUME NEW j \in (n + 1)..(n + m)
        PROVE  V[j].group = Len(groups) + 1 /\ V[j].slot = j - (n + 1) /\ V[j].role = "data"
    <2>1. j - n \in 1..m /\ n + (j - n) = j /\ (j - n) - 1 = j - (n + 1)
      BY <1>2, <1>4
    <2>2. V[j] = Members[j - n]
      BY <1>5, <2>1
    <2> QED
      BY <1>6, <2>1, <2>2
  <1>9. ASSUME NEW i \in 1..n PROVE InPlace(groups', V, i, TRUE) /\ V[i].group # Len(groups) + 1
    <2>1. /\ InPlace(groups, W, i, FALSE) /\ V[i] = W[i]
      BY <1>5, <1>7
    <2>2. W[i].group # Len(groups) + 1
      <3>1. W[i].group \in 1..Len(groups) /\ Len(groups) \in Nat
        BY <1>1, <2>1 DEF InPlace
      <3> QED
        BY <3>1
    <2>3. \A j \in DOMAIN V : j > Len(W) => V[j].group = Len(groups) + 1
      BY <1>2, <1>4, <1>5, <1>8 DEF n, W
    <2>4. Len(V) >= Len(W) /\ i \in DOMAIN W /\ \A j \in DOMAIN W : V[j] = W[j]
      BY <1>2, <1>4, <1>5 DEF n, W
    <2>5. InPlace(groups', V, i, TRUE)
      BY <1>1, <1>2, <1>4, <1>5, <2>1, <2>3, <2>4, PlaceStable
    <2> QED
      BY <2>1, <2>2, <2>5
  <1>10. ASSUME NEW i \in (n + 1)..(n + m) PROVE InPlace(groups', V, i, TRUE)
    BY <1>1, <1>2, <1>4, <1>5, <1>8, <1>9, MemberPlaced
  <1>11. \A i \in DOMAIN V : InPlace(groups', V, i, TRUE)
    <2>1. ASSUME NEW i \in DOMAIN V PROVE i \in 1..n \/ i \in (n + 1)..(n + m)
      BY <1>2, <1>4, <1>5
    <2> QED
      BY <1>9, <1>10, <2>1
  <1>12. job'.state # "NONE" => Grouped(groups', job'.plans, job'.opts, FALSE)
    <2> SUFFICES ASSUME job.state # "NONE" PROVE Grouped(groups', job.plans, job.opts, FALSE)
      BY <1>1
    <2>1. job.plans \in Seq(DiscPlan)
      BY JobType DEF Job
    <2>2. CASE job.opts.crossDiscParity
      <3>1. \A i \in DOMAIN job.plans : InPlace(groups, job.plans, i, FALSE)
        BY <1>7, <2>2 DEF Grouped
      <3>2. \A i \in DOMAIN job.plans : InPlace(groups', job.plans, i, FALSE)
        <4>1. Len(job.plans) >= Len(job.plans) /\ \A j \in DOMAIN job.plans : ~(j > Len(job.plans))
          BY <2>1
        <4> QED
          BY <1>1, <1>2, <2>1, <3>1, <4>1, PlaceStable
      <3> QED
        BY <2>2, <3>2 DEF Grouped
    <2>3. CASE ~job.opts.crossDiscParity
      BY <1>7, <2>3 DEF Grouped
    <2> QED
      BY <2>2, <2>3
  <1>13. /\ n + m >= 1 /\ Len(groups') >= 1 /\ groups'[Len(groups')] = m
         /\ V[n + m].group = Len(groups') /\ V[n + m].slot = m - 1
    <2>1. Len(groups') = Len(groups) + 1 /\ Len(groups) \in Nat /\ groups'[Len(groups')] = m
      BY <1>1, <1>2
    <2>2. n + m \in (n + 1)..(n + m) /\ (n + m) - (n + 1) = m - 1 /\ n + m >= 1
      BY <1>2, <1>4
    <2> QED
      BY <1>8, <2>1, <2>2
  <1>14. GroupInv'
    BY <1>3, <1>5, <1>7, <1>11, <1>12, <1>13 DEF GroupInv, Grouped, V, m
  <1>15. NumberInv' /\ OrderInv' /\ PlanIDsDistinct'
    BY PlanGroupOrder
  <1> QED
    BY <1>1, <1>3, <1>14, <1>15, BucketsFrame DEF PInv

(* The parity disc completes the last group.                               *)
LEMMA ParityPlaced ==
    ASSUME NEW sizes \in Seq(Nat), Len(sizes) >= 1,
           NEW plans \in Seq(DiscPlan), NEW n \in Nat, n = Len(plans), n >= 1,
           NEW m \in Nat, m = sizes[Len(sizes)],
           plans[n].group = Len(sizes), plans[n].slot = m - 1,
           \A i \in 1..n : InPlace(sizes, plans, i, TRUE),
           NEW d \in DiscPlan, d.role = "parity", d.group = Len(sizes), d.slot = m,
           NEW longer, longer = Append(plans, d)
    PROVE  \A i \in DOMAIN longer : InPlace(sizes, longer, i, FALSE)
  <1> DEFINE G == Len(sizes)
             F == n + 1 - m
  <1>1. /\ Len(longer) = n + 1 /\ DOMAIN longer = 1..(n + 1) /\ DOMAIN plans = 1..n
        /\ longer[n + 1] = d /\ \A j \in 1..n : longer[j] = plans[j]
    OBVIOUS
  <1>2. /\ G \in Nat /\ G \in 1..Len(sizes) /\ F \in Int /\ n \in 1..n
        /\ \A g \in 1..Len(sizes) : sizes[g] \in Nat
    OBVIOUS
  <1>3. First(plans, n) = F
    BY DEF First
  <1>4. First(longer, n + 1) = F
    <2>1. longer[n + 1].slot = m
      BY <1>1
    <2>2. First(longer, n + 1) = (n + 1) - m
      BY <2>1 DEF First
    <2> QED
      BY <2>2
  <1>5. /\ F >= 1
        /\ \A j \in 1..n :
             /\ j - F \in 0..m => plans[j].group = G /\ plans[j].slot = j - F
             /\ plans[j].group = G => First(plans, j) = F
    <2>1. InPlace(sizes, plans, n, TRUE)
      BY <1>2
    <2> QED
      BY <1>1, <1>3, <2>1 DEF InPlace
  <1>6. \A j \in 1..n : First(longer, j) = First(plans, j)
    BY <1>1 DEF First
  <1> HIDE DEF F
  <1>7. F + m = n + 1 /\ (n + 1) - F = m /\ m \in 0..m
    BY DEF F
  <1>8. \A j \in 1..(n + 1) :
          /\ j - F \in 0..m => longer[j].group = G /\ longer[j].slot = j - F
          /\ longer[j].group = G => First(longer, j) = F
    <2>1. ASSUME NEW j \in 1..n
          PROVE  /\ j - F \in 0..m => longer[j].group = G /\ longer[j].slot = j - F
                 /\ longer[j].group = G => First(longer, j) = F
      BY <1>1, <1>5, <1>6
    <2>2. longer[n + 1].group = G /\ longer[n + 1].slot = (n + 1) - F
      BY <1>1, <1>7
    <2>3. \A j \in 1..(n + 1) : j \in 1..n \/ j = n + 1
      OBVIOUS
    <2> QED
      BY <1>4, <2>1, <2>2, <2>3
  <1>9. InPlace(sizes, longer, n + 1, FALSE)
    <2>1. /\ longer[n + 1].group = G /\ longer[n + 1].slot = m /\ sizes[G] = m /\ m <= m
          /\ longer[n + 1].role = "parity" /\ F + m <= Len(longer) /\ G \in 1..Len(sizes)
      BY <1>1, <1>2, <1>7
    <2> HIDE DEF G
    <2> QED
      BY <1>1, <1>4, <1>5, <1>8, <2>1 DEF InPlace
  <1>10. ASSUME NEW i \in 1..n, plans[i].group = G PROVE InPlace(sizes, longer, i, FALSE)
    <2>1. /\ plans[i].slot <= m /\ (plans[i].role = "parity" <=> plans[i].slot = m)
          /\ First(longer, i) = F /\ longer[i] = plans[i]
      BY <1>1, <1>5, <1>6, <1>10 DEF InPlace
    <2>2. sizes[G] = m /\ F + m <= Len(longer) /\ G \in 1..Len(sizes) /\ longer[i].group = G
      BY <1>1, <1>2, <1>7, <1>10, <2>1
    <2> HIDE DEF G
    <2> QED
      BY <1>1, <1>5, <1>8, <2>1, <2>2 DEF InPlace
  <1>11. ASSUME NEW i \in 1..n, plans[i].group # G PROVE InPlace(sizes, longer, i, FALSE)
    <2> DEFINE g == plans[i].group
               f == First(plans, i)
    <2>1. InPlace(sizes, plans, i, TRUE)
      OBVIOUS
    <2>2. /\ g \in 1..Len(sizes) /\ plans[i].slot <= sizes[g] /\ f >= 1
          /\ plans[i].role = "parity" <=> plans[i].slot = sizes[g]
          /\ f + sizes[g] <= n
          /\ \A j \in 1..n :
               /\ j - f \in 0..sizes[g] => plans[j].group = g /\ plans[j].slot = j - f
               /\ plans[j].group = g => First(plans, j) = f
      BY <1>1, <1>11, <2>1 DEF InPlace
    <2>3. plans[i].slot \in Nat
      BY <1>1, PlanFields
    <2>4. f \in Int
      BY <2>3 DEF First
    <2> HIDE DEF f
    <2>5. ASSUME NEW j \in 1..(n + 1)
          PROVE  /\ j - f \in 0..sizes[g] => longer[j].group = g /\ longer[j].slot = j - f
                 /\ longer[j].group = g => First(longer, j) = f
      <3>1. CASE j \in 1..n
        BY <1>1, <1>6, <2>2, <3>1
      <3>2. CASE j = n + 1
        <4>1. longer[j].group # g
          BY <1>1, <1>11, <3>2
        <4>2. ~(j - f \in 0..sizes[g])
          BY <1>2, <2>2, <2>4, <3>2
        <4> QED
          BY <4>1, <4>2
      <3> QED
        BY <3>1, <3>2
    <2>6. longer[i] = plans[i] /\ First(longer, i) = f /\ f + sizes[g] <= n + 1
      BY <1>1, <1>2, <1>6, <2>2, <2>4 DEF f
    <2> QED
      BY <1>1, <2>2, <2>5, <2>6 DEF InPlace
  <1>12. \A i \in DOMAIN longer : i \in 1..n \/ i = n + 1
    BY <1>1
  <1> QED
    BY <1>9, <1>10, <1>11, <1>12

(* A parity disc is numbered after every disc planned before it.           *)
LEMMA PlanParityPlans ==
    ASSUME TInv, TInv', PInv, PlanParity, UNCHANGED pipelineVars
    PROVE  PInv'
  <1> DEFINE W == planning.withGroups
             V == planning'.withGroups
             n == Len(planning.withGroups)
             count == Count(planning.opts.prefix)
             d == [id |-> NewID, role |-> "parity", group |-> Len(groups),
                   slot |-> ParitySlot, bucket |-> EmptyBucket]
  <1>1. /\ planning \in Planning /\ groups \in Seq(Nat) /\ planning.phase = "parity"
        /\ UNCHANGED <<job, disks, groups>> /\ count \in Nat
        /\ planning.start < Len(planning.plans) /\ NewID \in DiskID
    BY PlanningType, CountType, NewIDType DEF PlanParity, catalogVars, TInv, PlanShape
  <1>2. /\ W \in Seq(DiscPlan) /\ n \in Nat /\ DOMAIN W = 1..n
        /\ planning.allocated \in Nat /\ planning.start \in Nat /\ Len(planning.plans) \in Nat
        /\ planning.plans \in Seq(DiscPlan)
    BY <1>1 DEF Planning
  <1>3. /\ EffectiveGroupSize(planning.opts) \in Nat
        /\ GroupEnd \in Nat /\ GroupEnd > planning.start /\ GroupEnd <= Len(planning.plans)
    BY <1>1, GroupSizeType, GroupEndType DEF Planning
  <1>4. planning' = [planning EXCEPT
                       !.phase = "group", !.allocated = @ + 1,
                       !.start = planning.start + EffectiveGroupSize(planning.opts),
                       !.withGroups = Append(@, d)]
    BY DEF PlanParity
  <1>5. /\ d.id.num = count + planning.allocated + 1 /\ d.role = "parity"
        /\ d.group = Len(groups) /\ d.slot = GroupEnd - planning.start
        /\ d.bucket = EmptyBucket
    BY DEF NewID, NextDiskID, ParitySlot
  <1>6. d \in DiscPlan
    <2>1. ParitySlot \in Nat
      BY <1>2, <1>3 DEF ParitySlot
    <2> QED
      BY <1>1, <2>1 DEF DiscPlan, Role, Bucket, EmptyBucket
  <1> HIDE DEF d
  <1>7. /\ V = Append(W, d) /\ planning'.phase = "group"
        /\ planning'.allocated = planning.allocated + 1
        /\ planning'.start = planning.start + EffectiveGroupSize(planning.opts)
        /\ planning'.opts = planning.opts /\ planning'.plans = planning.plans
        /\ planning'.scan = planning.scan /\ planning'.todo = planning.todo
        /\ planning'.current = planning.current /\ planning'.buckets = planning.buckets
    BY <1>1, <1>4 DEF Planning
  <1>8. /\ Taken = GroupEnd /\ Taken' = GroupEnd
        /\ Count(planning.opts.prefix)' = count
    <2>1. Taken = GroupEnd
      BY <1>1 DEF Taken
    <2>2. Taken' = GroupEnd
      BY <1>2, <1>3, <1>7 DEF Taken, GroupEnd
    <2>3. Count(planning.opts.prefix)' = count
      BY <1>1, <1>7 DEF Count
    <2> QED
      BY <2>1, <2>2, <2>3
  <1>9. TakenBuckets' = TakenBuckets
    BY <1>7, <1>8 DEF TakenBuckets
  <1>10. NumberInv'
    <2>1. \A i \in DOMAIN planning.plans : DataPlan(i)' = DataPlan(i)
      BY <1>7, <1>8 DEF DataPlan
    <2>2. /\ \A i \in DOMAIN planning.plans : planning.plans[i] = DataPlan(i)
          /\ Len(planning.plans) = Len(planning.buckets)
          /\ Len(planning.plans) <= planning.allocated
      BY <1>1 DEF PInv, NumberInv
    <2>3. Len(planning.plans) <= planning.allocated + 1 /\ Len(planning.plans) <= Len(planning.plans)
      BY <1>2, <2>2
    <2> QED
      BY <1>7, <2>1, <2>2, <2>3 DEF NumberInv
  <1>11. Len(planning.plans) <= planning.allocated
    BY <1>1 DEF PInv, NumberInv
  <1>12. /\ Len(V) = n + 1 /\ DOMAIN V = 1..(n + 1) /\ V[n + 1] = d
         /\ \A i \in 1..n : V[i] = W[i]
         /\ \A i \in DOMAIN V : i \in 1..n \/ i = n + 1
    BY <1>2, <1>6, <1>7
  <1>13. /\ \A i \in 1..n :
              /\ W[i].bucket \in TakenBuckets
              /\ W[i].role = "data" => W[i].id.num <= count + GroupEnd
              /\ W[i].role = "parity" => /\ W[i].id.num > count + Len(planning.plans)
                                         /\ W[i].id.num <= count + planning.allocated
         /\ \A j \in 1..GroupEnd : \E i \in 1..n : W[i].bucket = planning.plans[j].bucket
         /\ DistinctIDs(W)
    BY <1>1, <1>2, <1>8 DEF PInv, OrderInv
  <1>14. \A i \in 1..n : W[i].role \in {"data", "parity"} /\ W[i].id.num \in Nat
    BY <1>2, PlanFields
  <1>15. /\ \A i \in 1..Len(groups) : groups[i] \in Nat
         /\ planning.opts.crossDiscParity /\ n >= 1 /\ Len(groups) >= 1
         /\ groups[Len(groups)] = GroupEnd - planning.start
         /\ W[n].group = Len(groups) /\ W[n].slot = groups[Len(groups)] - 1
         /\ \A i \in 1..n : InPlace(groups, W, i, TRUE)
    <2>1. \A i \in 1..Len(groups) : groups[i] \in Nat
      BY <1>1
    <2>2. GroupInv
      BY DEF PInv
    <2>3. planning.opts.crossDiscParity /\ Grouped(groups, W, planning.opts, TRUE)
      BY <1>1, <2>2 DEF GroupInv
    <2>4. \A i \in 1..n : InPlace(groups, W, i, TRUE)
      BY <1>2, <2>3 DEF Grouped
    <2> QED
      BY <1>1, <2>1, <2>2, <2>3, <2>4 DEF GroupInv
  <1>16. \A i \in DOMAIN V : InPlace(groups, V, i, FALSE)
    <2> HIDE DEF W, V, n
    <2>1. groups[Len(groups)] \in Nat /\ n = Len(W)
      BY <1>1, <1>15 DEF n, W
    <2> QED
      BY <1>1, <1>2, <1>5, <1>6, <1>7, <1>15, <2>1, ParityPlaced
  <1>17. GroupInv'
    <2>1. Grouped(groups, planning.withGroups, planning.opts, planning.phase = "parity")'
      BY <1>1, <1>7, <1>15, <1>16 DEF Grouped
    <2> QED
      BY <1>1, <1>7, <1>15, <2>1, GroupFrame
  <1> HIDE DEF W, V, n, count
  <1>18. \A i \in DOMAIN V :
            /\ V[i].bucket \in TakenBuckets
            /\ V[i].role = "data" => V[i].id.num <= count + GroupEnd
            /\ V[i].role = "parity" => /\ V[i].id.num > count + Len(planning.plans)
                                       /\ V[i].id.num <= count + (planning.allocated + 1)
    <2>1. ASSUME NEW i \in 1..n
          PROVE  /\ V[i].bucket \in TakenBuckets
                 /\ V[i].role = "data" => V[i].id.num <= count + GroupEnd
                 /\ V[i].role = "parity" => /\ V[i].id.num > count + Len(planning.plans)
                                            /\ V[i].id.num <= count + (planning.allocated + 1)
      <3>1. V[i] = W[i] /\ W[i].id.num \in Nat
        BY <1>12, <1>14
      <3>2. W[i].id.num <= count + planning.allocated
              => W[i].id.num <= count + (planning.allocated + 1)
        BY <1>1, <1>2, <3>1
      <3> QED
        BY <1>13, <3>1, <3>2
    <2>2. /\ V[n + 1].bucket \in TakenBuckets /\ V[n + 1].role # "data"
          /\ V[n + 1].id.num > count + Len(planning.plans)
          /\ V[n + 1].id.num <= count + (planning.allocated + 1)
      <3>1. /\ V[n + 1].bucket \in TakenBuckets /\ V[n + 1].role # "data"
            /\ V[n + 1].id.num = count + planning.allocated + 1
        BY <1>5, <1>12 DEF TakenBuckets
      <3> QED
        BY <1>1, <1>2, <1>11, <3>1
    <2> QED
      BY <1>12, <2>1, <2>2
  <1>19. \A j \in 1..GroupEnd : \E i \in DOMAIN V : V[i].bucket = planning.plans[j].bucket
    <2>1. \A i \in 1..n : i \in DOMAIN V
      BY <1>2, <1>12
    <2> QED
      BY <1>12, <1>13, <2>1
  <1>20. DistinctIDs(V)
    <2>1. ASSUME NEW i \in 1..n PROVE V[i].id # V[n + 1].id
      <3>1. V[i] = W[i] /\ V[n + 1].id.num = count + planning.allocated + 1
        BY <1>5, <1>12
      <3>2. W[i].id.num <= count + GroupEnd \/ W[i].id.num <= count + planning.allocated
        BY <1>13, <1>14
      <3>3. W[i].id.num # count + planning.allocated + 1
        BY <1>1, <1>2, <1>3, <1>11, <1>14, <3>2
      <3> QED
        BY <3>1, <3>3
    <2>2. ASSUME NEW i \in 1..n, NEW j \in 1..n, V[i].id = V[j].id PROVE i = j
      BY <1>2, <1>12, <1>13, <2>2 DEF DistinctIDs
    <2> QED
      BY <1>12, <2>1, <2>2 DEF DistinctIDs
  <1>21. OrderInv'
    BY <1>7, <1>8, <1>9, <1>18, <1>19, <1>20 DEF OrderInv, V, count
  <1>22. PlanIDsDistinct'
    BY <1>1, <1>7, <1>20 DEF PInv, PlanIDsDistinct, V
  <1> QED
    BY <1>1, <1>7, <1>10, <1>17, <1>21, <1>22, BucketsFrame DEF PInv

(* After the last group all the data discs are in the final plan.          *)
LEMMA GroupsCompletePlans ==
    ASSUME TInv, TInv', PInv, GroupsComplete, UNCHANGED pipelineVars
    PROVE  PInv'
  <1>1. /\ planning \in Planning /\ planning.phase = "group"
        /\ UNCHANGED <<job, disks, groups>> /\ planning.start >= Len(planning.plans)
        /\ planning' = [planning EXCEPT !.phase = "done"]
    BY PlanningType DEF GroupsComplete, catalogVars
  <1>2. /\ planning'.phase = "done" /\ planning'.withGroups = planning.withGroups
        /\ planning'.allocated = planning.allocated /\ planning'.start = planning.start
        /\ planning'.opts = planning.opts /\ planning'.plans = planning.plans
        /\ planning'.scan = planning.scan /\ planning'.todo = planning.todo
        /\ planning'.current = planning.current /\ planning'.buckets = planning.buckets
    BY <1>1 DEF Planning
  <1>3. Taken' = Taken /\ Count(planning.opts.prefix)' = Count(planning.opts.prefix)
    <2>1. Taken = Len(planning.plans) /\ Taken' = Len(planning.plans)
      BY <1>1, <1>2 DEF Taken, Planning
    <2> QED
      BY <1>1, <1>2, <2>1 DEF Count
  <1>4. NumberInv'
    <2>1. \A i \in DOMAIN planning.plans : DataPlan(i)' = DataPlan(i)
      BY <1>2, <1>3 DEF DataPlan
    <2> QED
      BY <1>1, <1>2, <2>1 DEF PInv, NumberInv
  <1>5. OrderInv'
    <2>1. TakenBuckets' = TakenBuckets
      BY <1>2, <1>3 DEF TakenBuckets
    <2> QED
      BY <1>1, <1>2, <1>3, <2>1 DEF PInv, OrderInv
  <1>6. PlanIDsDistinct'
    BY <1>1, <1>2 DEF PInv, PlanIDsDistinct
  <1>7. GroupInv'
    BY <1>1, <1>2 DEF PInv, GroupInv
  <1> QED
    BY <1>1, <1>2, <1>4, <1>5, <1>6, <1>7, BucketsFrame DEF PInv

(* What Start installs is the final plan.                                  *)
LEMMA FinishStartPlans ==
    ASSUME TInv, PInv, FinishStart, UNCHANGED pipelineVars
    PROVE  PInv'
  <1>1. /\ planning \in Planning /\ planning.phase = "done" /\ groups' = groups
        /\ planning'.phase = "idle"
        /\ job'.plans = planning.withGroups /\ job'.opts = planning.opts
    BY PlanningType DEF FinishStart, catalogVars, NoPlanning
  <1>2. PackInv' /\ PlanCoversScan' /\ NumberInv' /\ OrderInv'
    BY <1>1 DEF PackInv, PlanCoversScan, NumberInv, OrderInv
  <1>3. PlanIDsDistinct'
    BY <1>1 DEF PInv, PlanIDsDistinct
  <1>4. GroupInv'
    BY <1>1 DEF PInv, GroupInv
  <1>5. \A i \in DOMAIN planning.withGroups :
          Fits(planning.withGroups[i].bucket, planning.opts)
    <2> SUFFICES ASSUME NEW i \in DOMAIN planning.withGroups
                 PROVE  Fits(planning.withGroups[i].bucket, planning.opts)
      OBVIOUS
    <2>1. planning.withGroups[i].bucket \in TakenBuckets
      BY <1>1 DEF PInv, OrderInv
    <2>2. CASE planning.withGroups[i].bucket = EmptyBucket
      BY <2>2, EmptyBucketFacts
    <2>3. ASSUME NEW j \in 1..Taken, planning.withGroups[i].bucket = planning.plans[j].bucket
          PROVE  Fits(planning.withGroups[i].bucket, planning.opts)
      <3>1. /\ planning.plans \in Seq(DiscPlan) /\ planning.buckets \in Seq(Bucket)
            /\ Taken = Len(planning.plans)
            /\ Len(planning.plans) = Len(planning.buckets)
        BY <1>1 DEF Planning, Taken, PInv, NumberInv
      <3>2. j \in DOMAIN planning.plans /\ j \in DOMAIN planning.buckets
        BY <3>1
      <3>3. planning.plans[j].bucket = planning.buckets[j]
        <4>1. planning.plans[j] = DataPlan(j)
          BY <1>1, <3>2 DEF PInv, NumberInv
        <4> QED
          BY <4>1 DEF DataPlan
      <3> QED
        BY <1>1, <2>3, <3>2, <3>3 DEF PInv, BucketsFit
    <2> QED
      BY <2>1, <2>2, <2>3 DEF TakenBuckets
  <1>6. BucketsFit'
    BY <1>1, <1>5 DEF BucketsFit
  <1> QED
    BY <1>2, <1>3, <1>4, <1>6 DEF PInv

-----------------------------------------------------------------------------
(* At first there is neither plan nor job.                                 *)
LEMMA PInvInit == Init => PInv
  <1> SUFFICES ASSUME Init PROVE PInv
    OBVIOUS
  <1>1. planning.phase = "idle" /\ job.state = "NONE"
    BY DEF Init, PlannerInit, NoJob, NoPlanning
  <1> QED
    BY <1>1 DEF PInv, PackInv, BucketsFit, PlanCoversScan, NumberInv, OrderInv,
                PlanIDsDistinct, GroupInv

(* Every step keeps the planner's invariant.                               *)
LEMMA PInvNext == TInv /\ TInv' /\ PInv /\ [Next]_vars => PInv'
  <1> SUFFICES ASSUME TInv, TInv', PInv, [Next]_vars PROVE PInv'
    OBVIOUS
  <1>1. CASE PlanStep
    BY <1>1, PackFilePlans, PackLastPlans, PlanDiscPlans, PlansCompletePlans, PlanGroupPlans,
       PlanParityPlans, GroupsCompletePlans, FinishStartPlans DEF PlanStep
  <1>2. ASSUME NEW opts \in Options, Start(opts) PROVE PInv'
    BY <1>2, StartPlans
  <1>3. CASE Quiet
    BY <1>3, QuietKeeps
  <1> QED
    BY <1>1, <1>2, <1>3, StepKinds

(* The planner's invariant holds in every behaviour.                       *)
LEMMA PlannerInvariant == Spec => []PInv
  BY ControlInvariant, PInvInit, PInvNext, PTL DEF Spec

(* binpack.Pack: no disc holds two non-empty files that overflow it, for   *)
(* any sizes, capacities, parity percentages and width of int64.           *)
THEOREM NoDiscOverfull == Spec => []BucketsFit
  <1>1. PInv => BucketsFit
    BY DEF PInv
  <1> QED
    BY <1>1, PlannerInvariant, PTL

(* planJob: every scanned file is on exactly one data disc of the plan.    *)
THEOREM NoFileForgotten == Spec => []PlanCoversScan
  <1>1. PInv => PlanCoversScan
    BY DEF PInv
  <1> QED
    BY <1>1, PlannerInvariant, PTL

(* NextDiskID with its alreadyAllocated count, in the pipeline by itself:  *)
(* within one job no number is handed out twice, however many discs and    *)
(* groups the job has, as long as no row of disks is deleted while planJob *)
(* runs.  Beside the dry-run page this fails (System's FreshIDs).          *)
THEOREM NoNumberTwice == Spec => []PlanIDsDistinct
  <1>1. PInv => PlanIDsDistinct
    BY DEF PInv
  <1> QED
    BY <1>1, PlannerInvariant, PTL

(* The groups of a job, from the invariant of the plan.                    *)
LEMMA GroupsPlanned == TInv /\ PInv => GroupsWellFormed
  <1> SUFFICES ASSUME TInv, PInv, job.state # "NONE", NEW i \in DOMAIN job.plans
               PROVE  LET p == job.plans[i] IN
                      IF p.group = NoGroup
                      THEN p.role = "data" /\ ~job.opts.crossDiscParity
                      ELSE /\ p.slot <= groups[p.group]
                           /\ p.role = "parity" <=> p.slot = groups[p.group]
                           /\ p.slot > 0 => /\ i > 1
                                            /\ job.plans[i - 1].group = p.group
                                            /\ job.plans[i - 1].slot = p.slot - 1
                           /\ p.role = "data" => /\ i < Len(job.plans)
                                                 /\ job.plans[i + 1].group = p.group
    BY DEF GroupsWellFormed
  <1>1. /\ job.plans \in Seq(DiscPlan) /\ groups \in Seq(Nat)
        /\ Grouped(groups, job.plans, job.opts, FALSE)
    BY JobType DEF Job, TInv, TypeOK, CatalogTypeOK, PInv, GroupInv
  <1>2. CASE ~job.opts.crossDiscParity
    BY <1>1, <1>2 DEF Grouped, Ungrouped
  <1>3. CASE job.opts.crossDiscParity
    <2> DEFINE p == job.plans[i]
               f == First(job.plans, i)
               size == groups[p.group]
    <2>1. InPlace(groups, job.plans, i, FALSE)
      BY <1>1, <1>3 DEF Grouped
    <2>2. /\ p.slot \in Nat /\ p.role \in {"data", "parity"} /\ i \in Nat
          /\ DOMAIN job.plans = 1..Len(job.plans) /\ Len(job.plans) \in Nat
      BY <1>1, PlanFields
    <2>3. /\ p.group \in 1..Len(groups) /\ p.slot <= size /\ f >= 1
          /\ p.role = "parity" <=> p.slot = size
          /\ f + size <= Len(job.plans)
          /\ \A j \in DOMAIN job.plans :
               j - f \in 0..size => job.plans[j].group = p.group /\ job.plans[j].slot = j - f
      BY <2>1 DEF InPlace
    <2>4. size \in Nat /\ p.group # NoGroup
      BY <1>1, <2>3 DEF NoGroup
    <2>5. f = i - p.slot
      BY DEF First
    <2> HIDE DEF f, size, p
    <2>6. ASSUME p.slot > 0
          PROVE  /\ i > 1 /\ job.plans[i - 1].group = p.group
                 /\ job.plans[i - 1].slot = p.slot - 1
      <3>1. /\ p.slot <= size /\ f >= 1 /\ i \in 1..Len(job.plans)
            /\ \A j \in 1..Len(job.plans) :
                 j - f \in 0..size => job.plans[j].group = p.group /\ job.plans[j].slot = j - f
        BY <2>2, <2>3
      <3>2. (i - 1) - f = p.slot - 1
        BY <2>2, <2>5
      <3>3. p.slot - 1 \in 0..size
        BY <2>2, <2>4, <2>6, <3>1
      <3>4. i > 1 /\ i - 1 \in 1..Len(job.plans)
        BY <2>2, <2>5, <2>6, <3>1
      <3> QED
        BY <3>1, <3>2, <3>3, <3>4
    <2>7. ASSUME p.role = "data"
          PROVE  i < Len(job.plans) /\ job.plans[i + 1].group = p.group
      <3>1. p.slot < size
        BY <2>2, <2>3, <2>4, <2>7
      <3>2. i < Len(job.plans) /\ i + 1 \in DOMAIN job.plans /\ (i + 1) - f \in 0..size
        BY <2>2, <2>3, <2>4, <2>5, <3>1
      <3> QED
        BY <2>3, <3>2
    <2> QED
      BY <2>3, <2>4, <2>6, <2>7 DEF p, size
  <1> QED
    BY <1>2, <1>3

(* planJob's group loop: each group of a job is a run of data discs in     *)
(* slots 0, 1, ... that ends in its parity disc, also the short last group *)
(* and whatever disk_groups rows failed plans left behind.                 *)
THEOREM GroupsInOrder == Spec => []GroupsWellFormed
  BY GroupsPlanned, ControlInvariant, PlannerInvariant, PTL
=============================================================================
