---------------------------- MODULE ParityProofs ----------------------------
(***************************************************************************)
(* Cross-disc parity, for every value of the constants: a parity disc can  *)
(* be built when it is due, and a catalogued one is the XOR of exactly the *)
(* images its group's data discs are catalogued with.  Crashes, faults,    *)
(* retries, disc-number conflicts, leftovers of failed plans, and edits of *)
(* the share while a disc is burned are all included.                      *)
(***************************************************************************)
EXTENDS PlannerProofs

(* A row names its own image and a group that is in disk_groups.           *)
RowInv ==
    \A d \in DOMAIN disks :
        /\ disks[d].iso.id = d
        /\ disks[d].group \in 0..Len(groups)
        /\ disks[d].role = "parity" => disks[d].group # NoGroup

SpoolInv == \A d \in DOMAIN isos : isos[d].id = d

(* planJob's groups are new: no row is in one of them.                     *)
FreshGroups ==
    planning.phase # "idle" =>
        \A i \in DOMAIN planning.withGroups, d \in DOMAIN disks :
            disks[d].group = planning.withGroups[i].group => disks[d].group = NoGroup

(* The row is that of the plan.                                            *)
IsRowOf(d, plan) ==
    /\ plan.id = d
    /\ disks[d].role = plan.role
    /\ disks[d].group = plan.group

(* The rows in the job's groups are rows of discs the job has come to.     *)
RowsPlanned ==
    job.state # "NONE" =>
        \A d \in DOMAIN disks, i \in DOMAIN job.plans :
            disks[d].group # NoGroup /\ disks[d].group = job.plans[i].group =>
                \E j \in DOMAIN job.plans : j <= job.idx /\ IsRowOf(d, job.plans[j])

(* The discs the job has passed are catalogued.                            *)
PassedCatalogued ==
    job.state # "NONE" =>
        \A j \in DOMAIN job.plans : j < job.idx =>
            job.plans[j].id \in DOMAIN disks /\ IsRowOf(job.plans[j].id, job.plans[j])

(* The job has not passed the parity disc of group g.                      *)
AwaitsParity(g) ==
    \A k \in DOMAIN job.plans :
        job.plans[k].group = g /\ job.plans[k].role = "parity" => k >= job.idx

(* The images of the data discs passed are kept, as they were catalogued,  *)
(* until the job has passed their group's parity disc.                     *)
ImagesKept ==
    job.state # "NONE" =>
        \A j \in DOMAIN job.plans :
            (j < job.idx /\ job.plans[j].role = "data" /\ AwaitsParity(job.plans[j].group)) =>
                /\ job.plans[j].id \in DOMAIN isos
                /\ isos[job.plans[j].id] = disks[job.plans[j].id].iso

Packed == {"parity", "iso", "burn", "verify", "disk"}
Inserted == {"hash", "consume", "insert", "remove"}

GroupImages(plan) == {[id |-> d, files |-> disks[d].iso.files] : d \in GroupData(plan)}

(* What caller c's locals say about the spool and the catalog.             *)
Building(c) ==
    /\ run[c].plan = job.plans[job.idx]
    /\ run[c].image.id = ID(c)
    /\ run[c].step \in WithImage => isos[ID(c)] = run[c].image
    /\ run[c].step \in Inserted =>
         /\ ID(c) \in DOMAIN disks
         /\ IsRowOf(ID(c), run[c].plan)
         /\ disks[ID(c)].iso = run[c].image
    /\ run[c].plan.role = "parity" /\ run[c].step \in Packed =>
         run[c].image.xor = GroupImages(run[c].plan)

RunnerBuilds == \A c \in Caller : run[c] # Idle => Building(c)

XInv ==
    /\ RowInv /\ SpoolInv /\ FreshGroups /\ RowsPlanned /\ PassedCatalogued /\ ImagesKept
    /\ RunnerBuilds /\ ParityCovers

-----------------------------------------------------------------------------
(* Where a group is around its parity disc.                                *)
LEMMA ParityPlace ==
    ASSUME TInv, PInv, job.state # "NONE",
           NEW k \in DOMAIN job.plans, job.plans[k].role = "parity"
    PROVE  /\ job.plans[k].group \in 1..Len(groups)
           /\ groups[job.plans[k].group] \in Nat
           /\ k \in Nat /\ k - groups[job.plans[k].group] >= 1
           /\ \A j \in DOMAIN job.plans :
                /\ job.plans[j].group = job.plans[k].group /\ job.plans[j].role = "data"
                     <=> j \in (k - groups[job.plans[k].group])..(k - 1)
                /\ job.plans[j].group = job.plans[k].group /\ job.plans[j].role = "parity" => j = k
  <1> DEFINE plans == job.plans
             g == plans[k].group
             size == groups[g]
             F == k - size
  <1>1. /\ plans \in Seq(DiscPlan) /\ groups \in Seq(Nat)
        /\ Grouped(groups, plans, job.opts, FALSE)
    BY JobType DEF Job, TInv, TypeOK, CatalogTypeOK, PInv, GroupInv
  <1>2. \A j \in DOMAIN plans : InPlace(groups, plans, j, FALSE)
    BY <1>1 DEF Grouped, Ungrouped
  <1>3. \A j \in DOMAIN plans : /\ plans[j].slot \in Nat /\ plans[j].role \in {"data", "parity"}
                                /\ j \in Nat
    BY <1>1, PlanFields
  <1>4. /\ g \in 1..Len(groups) /\ plans[k].slot = size /\ First(plans, k) >= 1
        /\ \A j \in DOMAIN plans :
             /\ j - First(plans, k) \in 0..size =>
                  plans[j].group = g /\ plans[j].slot = j - First(plans, k)
             /\ plans[j].group = g => First(plans, j) = First(plans, k)
    BY <1>2 DEF InPlace
  <1>5. size \in Nat /\ First(plans, k) = F
    BY <1>1, <1>4 DEF First
  <1>6. \A j \in DOMAIN plans : plans[j].group = g =>
          plans[j].slot <= size /\ (plans[j].role = "parity" <=> plans[j].slot = size)
    BY <1>2 DEF InPlace
  <1>7. \A j \in DOMAIN plans : First(plans, j) = j - plans[j].slot
    BY DEF First
  <1> HIDE DEF plans, g, size, F
  <1>8. F \in Int /\ F >= 1 /\ F + size = k /\ k \in Nat
    BY <1>3, <1>4, <1>5 DEF F, plans
  <1>9. ASSUME NEW j \in DOMAIN plans
        PROVE  /\ plans[j].group = g /\ plans[j].role = "data" <=> j \in F..(k - 1)
               /\ plans[j].group = g /\ plans[j].role = "parity" => j = k
    <2>1. ASSUME plans[j].group = g
          PROVE  /\ plans[j].role = "data" => j \in F..(k - 1)
                 /\ plans[j].role = "parity" => j = k
      <3>1. j - plans[j].slot = F
        BY <1>4, <1>5, <1>7, <2>1
      <3>2. /\ plans[j].slot \in Nat /\ j \in Nat /\ plans[j].slot <= size
            /\ plans[j].role = "parity" <=> plans[j].slot = size
        BY <1>3, <1>6, <2>1
      <3>3. plans[j].role = "data" => plans[j].slot < size
        BY <1>5, <3>2
      <3> QED
        BY <1>5, <1>8, <3>1, <3>2, <3>3
    <2>2. ASSUME j \in F..(k - 1) PROVE plans[j].group = g /\ plans[j].role = "data"
      <3>1. j - F \in 0..size /\ j - F # size
        BY <1>5, <1>8, <2>2
      <3>2. plans[j].group = g /\ plans[j].slot = j - F
        BY <1>4, <1>5, <3>1
      <3> QED
        BY <1>3, <1>6, <3>1, <3>2
    <2> QED
      BY <2>1, <2>2
  <1> QED
    BY <1>4, <1>5, <1>8, <1>9 DEF plans, g, size, F

(* The current disc of the job that a caller runs.                         *)
LEMMA CurrentDisc ==
    ASSUME TInv, XInv, NEW c \in Caller, run[c].step \in Step
    PROVE  /\ job \in Job /\ job.state # "NONE" /\ job.state # "DONE" /\ job.plans \in Seq(DiscPlan)
           /\ job.idx \in Nat \ {0} /\ job.idx \in DOMAIN job.plans
           /\ run[c] \in Run /\ run[c] # Idle /\ run[c].plan = job.plans[job.idx]
           /\ Building(c) /\ planning = NoPlanning
           /\ \A d \in Caller : d # c => run[d] = Idle
  <1>1. /\ job \in Job /\ job.state \in Claimed /\ planning = NoPlanning /\ run[c] \in Run
        /\ run[c] # Idle /\ job.idx <= Len(job.plans) /\ \A d \in Caller : d # c => run[d] = Idle
    BY RunnerFacts
  <1>2. /\ job.plans \in Seq(DiscPlan) /\ job.idx \in Nat \ {0}
        /\ job.state # "NONE" /\ job.state # "DONE"
    BY <1>1 DEF Job, Claimed
  <1>3. job.idx \in DOMAIN job.plans
    BY <1>1, <1>2
  <1>4. Building(c)
    BY <1>1 DEF XInv, RunnerBuilds
  <1> QED
    BY <1>1, <1>2, <1>3, <1>4 DEF Building

(* When a parity disc is due, the data discs of its group are the discs    *)
(* the job passed just before it, and their images are in the spool.       *)
LEMMA GroupPassed ==
    ASSUME TInv, PInv, XInv, NEW c \in Caller, run[c].step \in Step,
           run[c].plan.role = "parity", NEW d \in GroupData(run[c].plan)
    PROVE  /\ d \in DOMAIN isos /\ d \in DOMAIN disks /\ isos[d] = disks[d].iso
           /\ disks[d].role = "data" /\ disks[d].group = run[c].plan.group
           /\ isos[d].id = d
  <1>1. /\ job.state # "NONE" /\ job.plans \in Seq(DiscPlan) /\ job.idx \in DOMAIN job.plans
        /\ run[c].plan = job.plans[job.idx] /\ job.idx \in Nat
    BY CurrentDisc
  <1>2. PICK j \in DOMAIN job.plans : /\ job.plans[j].id = d /\ job.plans[j].role = "data"
                                     /\ job.plans[j].group = run[c].plan.group
    BY <1>1 DEF GroupData
  <1>3. /\ j \in (job.idx - groups[run[c].plan.group])..(job.idx - 1)
        /\ groups[run[c].plan.group] \in Nat
        /\ AwaitsParity(run[c].plan.group)
    <2>1. \A k \in DOMAIN job.plans :
            job.plans[k].group = run[c].plan.group /\ job.plans[k].role = "parity" => k = job.idx
      BY <1>1, ParityPlace
    <2>2. job.idx >= job.idx
      BY <1>1
    <2> QED
      BY <1>1, <1>2, <2>1, <2>2, ParityPlace DEF AwaitsParity
  <1>4. j < job.idx
    BY <1>1, <1>3
  <1>5. d \in DOMAIN disks /\ IsRowOf(d, job.plans[j])
    BY <1>1, <1>2, <1>4 DEF XInv, PassedCatalogued
  <1>6. d \in DOMAIN isos /\ isos[d] = disks[d].iso
    BY <1>1, <1>2, <1>3, <1>4 DEF XInv, ImagesKept
  <1> QED
    BY <1>2, <1>5, <1>6 DEF IsRowOf, XInv, SpoolInv

-----------------------------------------------------------------------------
(* A step of caller c that changes no row and passes no disc: it may       *)
(* change the current disc's image in the spool, and c's locals.           *)
LEMMA RunFrame ==
    ASSUME TInv, PInv, XInv, NEW c \in Caller, run[c].step \in Step,
           UNCHANGED <<disks, groups, planning>>,
           job'.plans = job.plans, job'.idx = job.idx,
           \A d \in DOMAIN isos : d # ID(c) => d \in DOMAIN isos' /\ isos'[d] = isos[d],
           \A d \in DOMAIN isos' : isos'[d].id = d,
           \A e \in Caller : e # c => run'[e] = run[e],
           run'[c] # Idle => Building(c)'
    PROVE  XInv'
  <1>1. /\ job.state # "NONE" /\ job.idx \in DOMAIN job.plans /\ run[c].plan = job.plans[job.idx]
        /\ job.plans \in Seq(DiscPlan) /\ planning = NoPlanning /\ job.idx \in Nat
        /\ \A e \in Caller : e # c => run[e] = Idle
    BY CurrentDisc
  <1>2. RowInv' /\ SpoolInv' /\ ParityCovers'
    BY DEF XInv, RowInv, SpoolInv, ParityCovers, GroupRows
  <1>3. FreshGroups'
    BY DEF XInv, FreshGroups
  <1>4. RowsPlanned' /\ PassedCatalogued'
    BY <1>1 DEF XInv, RowsPlanned, PassedCatalogued, IsRowOf
  <1>5. \A j \in DOMAIN job.plans : j < job.idx => job.plans[j].id # ID(c)
    <2>1. \A j \in DOMAIN job.plans : job.plans[j].id = ID(c) => j = job.idx
      BY <1>1 DEF PInv, PlanIDsDistinct, DistinctIDs, ID
    <2> QED
      BY <1>1, <2>1
  <1>6. ImagesKept'
    <2>1. \A g : AwaitsParity(g)' <=> AwaitsParity(g)
      BY DEF AwaitsParity
    <2> QED
      BY <1>1, <1>5, <2>1 DEF XInv, ImagesKept
  <1>7. RunnerBuilds'
    BY <1>1 DEF RunnerBuilds
  <1> QED
    BY <1>2, <1>3, <1>4, <1>6, <1>7 DEF XInv

(* runDisc returns an error.                                               *)
LEMMA FailParity ==
    ASSUME TInv, PInv, XInv, NEW c \in Caller, run[c].step \in Step, Fail(c),
           UNCHANGED <<disks, groups, planning>>,
           isos' = isos \/ isos' = Without(isos, StaleISOs(c))
    PROVE  XInv'
  <1>1. job \in Job /\ run \in [Caller -> Run \cup {Idle}]
    BY CurrentDisc DEF TInv, TypeOK
  <1>2. job'.plans = job.plans /\ job'.idx = job.idx
    BY <1>1 DEF Fail, SetState, Job
  <1>3. run'[c] = Idle /\ \A e \in Caller : e # c => run'[e] = run[e]
    BY <1>1 DEF Fail
  <1>4. /\ \A d \in DOMAIN isos : d # ID(c) => d \in DOMAIN isos' /\ isos'[d] = isos[d]
        /\ \A d \in DOMAIN isos' : isos'[d].id = d
    BY DEF Without, StaleISOs, XInv, SpoolInv
  <1> QED
    BY <1>2, <1>3, <1>4, RunFrame

(* A step that leaves the job's plans and the discs passed alone.          *)
LEMMA JobKept ==
    ASSUME job \in Job, job' = job \/ \E s \in State : SetState(s)
    PROVE  job'.plans = job.plans /\ job'.idx = job.idx /\ job'.opts = job.opts
  BY DEF SetState, Job

(* What is due of c's locals after a step, when the catalog is unchanged.  *)
LEMMA ProceedParity ==
    ASSUME TInv, PInv, XInv, NEW c \in Caller, run[c].step \in Step,
           UNCHANGED <<disks, groups, planning>>,
           job' = job \/ \E s \in State : SetState(s),
           \A d \in DOMAIN isos : d # ID(c) => d \in DOMAIN isos' /\ isos'[d] = isos[d],
           \A d \in DOMAIN isos' : isos'[d].id = d,
           \A e \in Caller : e # c => run'[e] = run[e],
           run'[c].plan = run[c].plan, run'[c].image.id = ID(c),
           run'[c].step \in WithImage => isos'[ID(c)] = run'[c].image,
           run'[c].step \in Inserted =>
             run[c].step \in Inserted /\ run'[c].image = run[c].image,
           run'[c].step \in Packed /\ run[c].plan.role = "parity" =>
             run'[c].image.xor = GroupImages(run[c].plan)
    PROVE  XInv'
  <1>1. /\ job \in Job /\ Building(c)
        /\ run[c].plan = job.plans[job.idx]
    BY CurrentDisc
  <1>2. job'.plans = job.plans /\ job'.idx = job.idx
    BY <1>1, JobKept
  <1>3. ID(c)' = ID(c)
    BY DEF ID
  <1>4. GroupImages(run[c].plan)' = GroupImages(run[c].plan)
    <2>1. GroupData(run[c].plan)' = GroupData(run[c].plan)
      BY <1>2 DEF GroupData
    <2> QED
      BY <2>1 DEF GroupImages
  <1>5. Building(c)'
    BY <1>1, <1>2, <1>3, <1>4 DEF Building, IsRowOf
  <1> QED
    BY <1>2, <1>5, RunFrame

(* A step that moves on and leaves plan, image, spool and catalog alone.   *)
LEMMA MoveParity ==
    ASSUME TInv, PInv, XInv, NEW c \in Caller, run[c].step \in Step,
           UNCHANGED <<disks, groups, planning, isos>>,
           job' = job \/ \E s \in State : SetState(s),
           \A e \in Caller : e # c => run'[e] = run[e],
           run'[c].plan = run[c].plan, run'[c].image = run[c].image,
           run'[c].step \in WithImage => run[c].step \in WithImage,
           run'[c].step \in Inserted => run[c].step \in Inserted,
           run'[c].step \in Packed => run[c].step \in Packed
    PROVE  XInv'
  <1>1. Building(c)
    BY CurrentDisc
  <1>2. /\ run'[c].image.id = ID(c)
        /\ run'[c].step \in WithImage => isos'[ID(c)] = run'[c].image
        /\ run'[c].step \in Packed /\ run[c].plan.role = "parity" =>
             run'[c].image.xor = GroupImages(run[c].plan)
    BY <1>1 DEF Building
  <1>3. \A d \in DOMAIN isos' : isos'[d].id = d
    BY DEF XInv, SpoolInv
  <1> QED
    BY <1>2, <1>3, ProceedParity

(* CreateParity, the writers, the verification and the commit loop move    *)
(* on with the same image, or fail.                                        *)
LEMMA MovesParity ==
    ASSUME TInv, PInv, XInv, NEW c \in Caller,
           \/ CreateParity(c) \/ WriteDryRun(c) \/ WriteDisc(c) \/ VerifyBurn(c)
           \/ HashStaged(c) \/ ConsumeMetadata(c) \/ InsertFileRow(c) \/ RemoveStaged(c)
    PROVE  XInv'
  <1> USE DEF catalogVars, plannerVars
  <1>1. UNCHANGED <<disks, groups, planning, isos>> /\ run[c].step \in Step
    BY DEF CreateParity, WriteDryRun, WriteDisc, VerifyBurn, HashStaged, ConsumeMetadata,
           InsertFileRow, RemoveStaged, Step
  <1>2. CASE Fail(c)
    BY <1>1, <1>2, FailParity
  <1>3. ASSUME NEW s, run'[c].plan = run[c].plan, run'[c].image = run[c].image,
               run'[c].step = s, \A e \in Caller : e # c => run'[e] = run[e],
               job' = job \/ (\E t \in State : SetState(t)),
               \/ run[c].step = "parity" /\ s = "iso"
               \/ run[c].step = "burn" /\ s \in {"verify", "disk"}
               \/ run[c].step = "verify" /\ s = "disk"
               \/ run[c].step \in Inserted /\ s \in Inserted
        PROVE  XInv'
    <2>1. /\ s \in WithImage => run[c].step \in WithImage
          /\ s \in Inserted => run[c].step \in Inserted
          /\ s \in Packed => run[c].step \in Packed
      BY <1>3 DEF WithImage, Inserted, Packed
    <2> QED
      BY <1>1, <1>3, <2>1, MoveParity
  <1>4. run[c] \in Run /\ run \in [Caller -> Run \cup {Idle}]
    BY <1>1, RunnerFacts DEF TInv, TypeOK
  <1>5. CASE CreateParity(c) /\ ~Fail(c)
    <2>1. /\ run[c].step = "parity" /\ run'[c].step = "iso" /\ SetState("ISO")
          /\ run'[c].plan = run[c].plan /\ run'[c].image = run[c].image
          /\ \A e \in Caller : e # c => run'[e] = run[e]
      BY <1>4, <1>5 DEF CreateParity, Goto, Run
    <2> QED
      BY <1>1, <1>3, <2>1 DEF Inserted, State
  <1>6. CASE WriteDryRun(c)
    <2>1. /\ run[c].step = "burn" /\ run'[c].step = "disk" /\ job' = job
          /\ run'[c].plan = run[c].plan /\ run'[c].image = run[c].image
          /\ \A e \in Caller : e # c => run'[e] = run[e]
      BY <1>4, <1>6 DEF WriteDryRun, Goto, Run
    <2> QED
      BY <1>1, <1>3, <2>1 DEF Inserted, State
  <1>7. CASE WriteDisc(c)
    <2>1. /\ run[c].step = "burn" /\ run'[c].step = "verify" /\ SetState("VERIFYING")
          /\ run'[c].plan = run[c].plan /\ run'[c].image = run[c].image
          /\ \A e \in Caller : e # c => run'[e] = run[e]
      BY <1>4, <1>7 DEF WriteDisc, Run
    <2> QED
      BY <1>1, <1>3, <2>1 DEF Inserted, State
  <1>8. CASE VerifyBurn(c) /\ ~Fail(c)
    <2>1. /\ run[c].step = "verify" /\ run'[c].step = "disk" /\ job' = job
          /\ run'[c].plan = run[c].plan /\ run'[c].image = run[c].image
          /\ \A e \in Caller : e # c => run'[e] = run[e]
      BY <1>4, <1>8 DEF VerifyBurn, Goto, Run
    <2> QED
      BY <1>1, <1>3, <2>1 DEF Inserted, State
  <1>9. CASE HashStaged(c) /\ ~Fail(c)
    <2>1. /\ run[c].step = "hash" /\ run'[c].step = "consume" /\ job' = job
          /\ run'[c].plan = run[c].plan /\ run'[c].image = run[c].image
          /\ \A e \in Caller : e # c => run'[e] = run[e]
      <3>1. /\ run[c].step = "hash" /\ job' = job
            /\ \E q : run' = [run EXCEPT ![c].step = "consume", ![c].file = q,
                                         ![c].hash = staging[q]]
        BY <1>9 DEF HashStaged
      <3>2. PICK q : run' = [run EXCEPT ![c].step = "consume", ![c].file = q,
                                        ![c].hash = staging[q]]
        BY <3>1
      <3> QED
        BY <1>4, <3>1, <3>2 DEF Run
    <2> QED
      BY <1>1, <1>3, <2>1 DEF Inserted, State
  <1>10. CASE ConsumeMetadata(c)
    <2>1. /\ run[c].step = "consume" /\ run'[c].step = "insert" /\ job' = job
          /\ run'[c].plan = run[c].plan /\ run'[c].image = run[c].image
          /\ \A e \in Caller : e # c => run'[e] = run[e]
      BY <1>4, <1>10 DEF ConsumeMetadata, Run
    <2> QED
      BY <1>1, <1>3, <2>1 DEF Inserted, State
  <1>11. CASE InsertFileRow(c)
    <2>1. /\ run[c].step = "insert" /\ run'[c].step = "remove" /\ job' = job
          /\ run'[c].plan = run[c].plan /\ run'[c].image = run[c].image
          /\ \A e \in Caller : e # c => run'[e] = run[e]
      BY <1>4, <1>11 DEF InsertFileRow, Goto, Run
    <2> QED
      BY <1>1, <1>3, <2>1 DEF Inserted, State
  <1>12. CASE RemoveStaged(c) /\ ~Fail(c)
    <2>1. /\ run[c].step = "remove" /\ run'[c].step = "hash" /\ job' = job
          /\ run'[c].plan = run[c].plan /\ run'[c].image = run[c].image
          /\ \A e \in Caller : e # c => run'[e] = run[e]
      BY <1>4, <1>12 DEF RemoveStaged, Run
    <2> QED
      BY <1>1, <1>3, <2>1 DEF Inserted, State
  <1> QED
    BY <1>2, <1>5, <1>6, <1>7, <1>8, <1>9, <1>10, <1>11, <1>12

(* removeStaleArtifacts removes only the current disc's image.             *)
LEMMA ClearStaleParity ==
    ASSUME TInv, PInv, XInv, NEW c \in Caller, ClearStale(c)
    PROVE  XInv'
  <1>1. /\ run[c].step \in Step /\ UNCHANGED <<disks, groups, planning>>
        /\ SetState("PACKING") /\ isos' = Without(isos, {ID(c)})
        /\ run' = [run EXCEPT ![c].step = "pack"]
    BY DEF ClearStale, Step, StaleISOs, Goto, catalogVars
  <1>2. run[c] \in Run /\ run \in [Caller -> Run \cup {Idle}] /\ Building(c)
    BY <1>1, CurrentDisc DEF TInv, TypeOK
  <1>3. /\ run'[c].plan = run[c].plan /\ run'[c].image = run[c].image /\ run'[c].step = "pack"
        /\ \A e \in Caller : e # c => run'[e] = run[e]
    BY <1>1, <1>2 DEF Run
  <1>4. /\ \A d \in DOMAIN isos : d # ID(c) => d \in DOMAIN isos' /\ isos'[d] = isos[d]
        /\ \A d \in DOMAIN isos' : isos'[d].id = d
    BY <1>1 DEF Without, XInv, SpoolInv
  <1>5. run'[c].image.id = ID(c) /\ run'[c].step \notin WithImage
        /\ run'[c].step \notin Inserted /\ run'[c].step \notin Packed
    BY <1>2, <1>3 DEF Building, WithImage, Inserted, Packed
  <1> QED
    BY <1>1, <1>3, <1>4, <1>5, ProceedParity DEF State

(* WriteTar makes the image of a data disc.                                *)
LEMMA PackDataParity ==
    ASSUME TInv, PInv, XInv, NEW c \in Caller, PackData(c)
    PROVE  XInv'
  <1>1. run[c].step \in Step /\ run[c].plan.role = "data" /\ UNCHANGED <<disks, groups, planning, isos>>
    BY DEF PackData, Step, catalogVars
  <1>2. CASE Fail(c)
    BY <1>1, <1>2, FailParity
  <1>3. CASE ~Fail(c)
    <2>1. /\ SetState("PARITY")
          /\ \E fs : run' = [run EXCEPT ![c].step = "parity",
                                        ![c].image = [id |-> ID(c), xor |-> {}, files |-> fs]]
      BY <1>3 DEF PackData
    <2>2. run[c] \in Run /\ run \in [Caller -> Run \cup {Idle}]
      BY <1>1, RunnerFacts DEF TInv, TypeOK
    <2>3. /\ run'[c].plan = run[c].plan /\ run'[c].image.id = ID(c) /\ run'[c].step = "parity"
          /\ \A e \in Caller : e # c => run'[e] = run[e]
      BY <2>1, <2>2 DEF Run
    <2>4. run'[c].step \notin WithImage /\ run'[c].step \notin Inserted
      BY <2>3 DEF WithImage, Inserted
    <2>5. \A d \in DOMAIN isos' : isos'[d].id = d
      BY <1>1 DEF XInv, SpoolInv
    <2> QED
      BY <1>1, <2>1, <2>3, <2>4, <2>5, ProceedParity DEF State
  <1> QED
    BY <1>2, <1>3

(* buildParityPayload XORs the catalogued images of the group.             *)
LEMMA PackParityParity ==
    ASSUME TInv, PInv, XInv, NEW c \in Caller, PackParity(c)
    PROVE  XInv'
  <1>1. run[c].step \in Step /\ run[c].plan.role = "parity" /\ UNCHANGED <<disks, groups, planning, isos>>
    BY DEF PackParity, Step, catalogVars
  <1>2. CASE Fail(c)
    BY <1>1, <1>2, FailParity
  <1>3. CASE ~Fail(c)
    <2> DEFINE x == {[id |-> isos[d].id, files |-> isos[d].files] : d \in GroupData(run[c].plan)}
    <2>1. /\ SetState("PARITY")
          /\ run' = [run EXCEPT ![c].step = "parity",
                                ![c].image = [id |-> ID(c), files |-> {}, xor |-> x]]
      BY <1>3 DEF PackParity
    <2>2. run[c] \in Run /\ run \in [Caller -> Run \cup {Idle}]
      BY <1>1, RunnerFacts DEF TInv, TypeOK
    <2>3. x = GroupImages(run[c].plan)
      <3>1. \A d \in GroupData(run[c].plan) : isos[d] = disks[d].iso /\ isos[d].id = d
        BY <1>1, GroupPassed
      <3> QED
        BY <3>1 DEF GroupImages
    <2> HIDE DEF x
    <2>4. /\ run'[c].plan = run[c].plan /\ run'[c].image.id = ID(c) /\ run'[c].step = "parity"
          /\ run'[c].image.xor = x
          /\ \A e \in Caller : e # c => run'[e] = run[e]
      BY <2>1, <2>2 DEF Run
    <2>5. run'[c].step \notin WithImage /\ run'[c].step \notin Inserted
      BY <2>4 DEF WithImage, Inserted
    <2>6. \A d \in DOMAIN isos' : isos'[d].id = d
      BY <1>1 DEF XInv, SpoolInv
    <2> QED
      BY <1>1, <2>1, <2>3, <2>4, <2>5, <2>6, ProceedParity DEF State
  <1> QED
    BY <1>2, <1>3

(* BuildISO puts the current disc's image into the spool.                  *)
LEMMA BuildISOParity ==
    ASSUME TInv, PInv, XInv, NEW c \in Caller, BuildISO(c)
    PROVE  XInv'
  <1>1. /\ run[c].step = "iso" /\ run[c].step \in Step /\ UNCHANGED <<disks, groups, planning>>
        /\ SetState("BURNING") /\ isos' = Extend(isos, ID(c), run[c].image)
        /\ run' = [run EXCEPT ![c].step = "burn"]
    BY DEF BuildISO, Step, Goto, catalogVars
  <1>2. run[c] \in Run /\ run \in [Caller -> Run \cup {Idle}] /\ Building(c)
    BY <1>1, CurrentDisc DEF TInv, TypeOK
  <1>3. /\ run'[c].plan = run[c].plan /\ run'[c].image = run[c].image /\ run'[c].step = "burn"
        /\ \A e \in Caller : e # c => run'[e] = run[e]
    BY <1>1, <1>2 DEF Run
  <1>4. /\ run[c].image.id = ID(c)
        /\ run[c].plan.role = "parity" => run[c].image.xor = GroupImages(run[c].plan)
    BY <1>1, <1>2 DEF Building, Packed
  <1>5. /\ \A d \in DOMAIN isos : d # ID(c) => d \in DOMAIN isos' /\ isos'[d] = isos[d]
        /\ \A d \in DOMAIN isos' : isos'[d].id = d
        /\ isos'[ID(c)] = run[c].image
    BY <1>1, <1>4 DEF Extend, XInv, SpoolInv
  <1>6. run'[c].step \notin Inserted
    BY <1>3 DEF Inserted
  <1> QED
    BY <1>1, <1>3, <1>4, <1>5, <1>6, ProceedParity DEF State

(* The next disc is claimed.                                               *)
LEMMA ClaimParity ==
    ASSUME TInv, XInv, NEW c \in Caller, Claim(c)
    PROVE  XInv'
  <1>1. /\ UNCHANGED <<disks, groups, planning, isos>> /\ job.state = "AWAITING_DISC"
        /\ SetState("PACKING") /\ run[c] = Idle
        /\ run' = [run EXCEPT ![c] =
                     [step |-> "clear", plan |-> job.plans[job.idx],
                      image |-> NoImage(job.plans[job.idx].id), good |-> FALSE,
                      todo |-> {}, file |-> 0, hash |-> Absent, tagged |-> FALSE]]
    BY DEF Claim, catalogVars
  <1>2. job \in Job /\ run \in [Caller -> Run \cup {Idle}]
    BY <1>1, JobType DEF TInv, TypeOK
  <1>3. job'.plans = job.plans /\ job'.idx = job.idx /\ job.state # "NONE"
    BY <1>1, <1>2, JobKept DEF State
  <1>4. /\ run'[c].step = "clear" /\ run'[c].plan = job.plans[job.idx]
        /\ run'[c].image.id = run'[c].plan.id
        /\ \A e \in Caller : e # c => run'[e] = run[e]
    BY <1>1, <1>2 DEF NoImage
  <1>5. \A e \in Caller : run[e] = Idle
    BY <1>1 DEF TInv, OneRunner, Claimed
  <1>6. RunnerBuilds'
    <2>1. Building(c)'
      BY <1>3, <1>4 DEF Building, ID, WithImage, Inserted, Packed
    <2> QED
      BY <1>4, <1>5, <2>1 DEF RunnerBuilds
  <1>7. RowInv' /\ SpoolInv' /\ ParityCovers' /\ FreshGroups'
    BY <1>1 DEF XInv, RowInv, SpoolInv, ParityCovers, GroupRows, FreshGroups
  <1>8. RowsPlanned' /\ PassedCatalogued'
    BY <1>1, <1>3 DEF XInv, RowsPlanned, PassedCatalogued, IsRowOf
  <1>9. ImagesKept'
    <2>1. \A g : AwaitsParity(g)' <=> AwaitsParity(g)
      BY <1>3 DEF AwaitsParity
    <2> QED
      BY <1>1, <1>3, <2>1 DEF XInv, ImagesKept
  <1> QED
    BY <1>6, <1>7, <1>8, <1>9 DEF XInv

(* The faults at a step of runDisc.                                        *)
LEMMA FaultParity ==
    ASSUME TInv, PInv, XInv, NEW c \in Caller, StepFails(c) \/ DryRunCopyFails(c)
    PROVE  XInv'
  <1>1. /\ run[c].step \in Step /\ Fail(c) /\ UNCHANGED <<disks, groups, planning>>
        /\ isos' = isos \/ isos' = Without(isos, StaleISOs(c))
    BY ModeAssumption DEF StepFails, DryRunCopyFails, Step, catalogVars
  <1> QED
    BY <1>1, FailParity

-----------------------------------------------------------------------------
(* As many discs have a number as there are numbers.                       *)
LEMMA CountDistinct ==
    ASSUME NEW plans, DistinctIDs(plans), NEW a \in Int, NEW b \in Int, a <= b + 1,
           a..b \subseteq DOMAIN plans,
           NEW ids, ids = {plans[j].id : j \in a..b}
    PROVE  Cardinality(ids) = b - a + 1
  <1> DEFINE f == [j \in a..b |-> plans[j].id]
  <1>1. f \in Injection(a..b, ids)
    BY DEF Injection, IsInjective, DistinctIDs
  <1>2. f \in Surjection(a..b, ids)
    BY DEF Surjection
  <1>3. ExistsBijection(a..b, ids)
    BY <1>1, <1>2 DEF ExistsBijection, Bijection
  <1>4. IsFiniteSet(a..b) /\ Cardinality(a..b) = b - a + 1
    BY FS_Interval
  <1> QED
    BY <1>3, <1>4, FS_Bijection

(* When a parity disc is due its group is complete in the catalog.         *)
LEMMA GroupComplete ==
    ASSUME TInv, PInv, XInv, NEW c \in Caller, run[c].step \in Step,
           run[c].plan.role = "parity"
    PROVE  /\ GroupRows(run[c].plan.group) = GroupData(run[c].plan)
           /\ Cardinality(GroupRows(run[c].plan.group)) = groups[run[c].plan.group]
           /\ run[c].plan.group \in 1..Len(groups)
  <1> DEFINE k == job.idx
             plan == run[c].plan
             size == groups[plan.group]
  <1>1. /\ job.state # "NONE" /\ job.plans \in Seq(DiscPlan) /\ k \in DOMAIN job.plans
        /\ plan = job.plans[k] /\ k \in Nat
    BY CurrentDisc
  <1>2. /\ plan.group \in 1..Len(groups) /\ size \in Nat /\ k - size >= 1
        /\ \A j \in DOMAIN job.plans :
             job.plans[j].group = plan.group /\ job.plans[j].role = "data"
               <=> j \in (k - size)..(k - 1)
    BY <1>1, ParityPlace
  <1>3. ASSUME NEW d \in GroupRows(plan.group) PROVE d \in GroupData(plan)
    <2>1. d \in DOMAIN disks /\ disks[d].group = plan.group /\ disks[d].role = "data"
      BY DEF GroupRows
    <2>2. plan.group # NoGroup
      BY <1>2 DEF NoGroup
    <2>3. PICK j \in DOMAIN job.plans : IsRowOf(d, job.plans[j])
      BY <1>1, <2>1, <2>2 DEF XInv, RowsPlanned
    <2> QED
      BY <1>1, <2>1, <2>3 DEF IsRowOf, GroupData
  <1>4. ASSUME NEW d \in GroupData(plan) PROVE d \in GroupRows(plan.group)
    BY GroupPassed DEF GroupRows
  <1>5. GroupData(plan) = {job.plans[j].id : j \in (k - size)..(k - 1)}
    <2>1. {j \in 1..Len(job.plans) : job.plans[j].group = plan.group /\ job.plans[j].role = "data"}
            = (k - size)..(k - 1)
      <3>1. DOMAIN job.plans = 1..Len(job.plans) /\ Len(job.plans) \in Nat
        BY <1>1
      <3> HIDE DEF size, plan, k
      <3>2. \A j \in (k - size)..(k - 1) : j \in 1..Len(job.plans)
        BY <1>1, <1>2, <3>1
      <3> QED
        BY <1>2, <3>1, <3>2
    <2> QED
      BY <2>1 DEF GroupData
  <1>6. Cardinality(GroupData(plan)) = size
    <2>1. DistinctIDs(job.plans)
      BY <1>1 DEF PInv, PlanIDsDistinct
    <2> HIDE DEF size, plan, k
    <2>2. /\ k - size \in Int /\ k - 1 \in Int /\ k - size <= (k - 1) + 1
          /\ (k - 1) - (k - size) + 1 = size
      BY <1>1, <1>2
    <2>3. (k - size)..(k - 1) \subseteq DOMAIN job.plans
      <3>1. DOMAIN job.plans = 1..Len(job.plans) /\ Len(job.plans) \in Nat
        BY <1>1
      <3> QED
        BY <1>1, <1>2, <3>1
    <2> DEFINE a == k - size
               b == k - 1
    <2>4. /\ GroupData(plan) = {job.plans[j].id : j \in a..b} /\ a \in Int /\ b \in Int
          /\ a <= b + 1 /\ a..b \subseteq DOMAIN job.plans
      BY <1>5, <2>2, <2>3
    <2>5. b - a + 1 = size
      BY <2>2
    <2> HIDE DEF a, b
    <2>6. Cardinality(GroupData(plan)) = b - a + 1
      BY <2>1, <2>4, CountDistinct
    <2> QED
      BY <2>5, <2>6
  <1> QED
    BY <1>2, <1>3, <1>4, <1>6

(* The row of the current disc: a parity disc's group is complete, and no  *)
(* data disc joins a group whose parity disc is catalogued.                *)
LEMMA InsertDiskRowParity ==
    ASSUME TInv, PInv, XInv, NEW c \in Caller, InsertDiskRow(c)
    PROVE  XInv'
  <1>1. /\ run[c].step = "disk" /\ run[c].step \in Step
        /\ UNCHANGED <<groups, planning, isos>>
    BY DEF InsertDiskRow, Step
  <1>2. CASE Fail(c) /\ UNCHANGED disks
    BY <1>1, <1>2, FailParity
  <1>3. CASE InsertDisk(ID(c), DiskRowOf(c)) /\ UNCHANGED job
             /\ run' = [run EXCEPT ![c].step = "hash", ![c].todo = BucketPaths(run[c].plan)]
    <2> DEFINE k == job.idx
               plan == run[c].plan
    <2>1. /\ job.state # "NONE" /\ job.plans \in Seq(DiscPlan) /\ k \in DOMAIN job.plans
          /\ plan = job.plans[k] /\ k \in Nat /\ run[c] \in Run /\ Building(c)
          /\ planning = NoPlanning /\ \A e \in Caller : e # c => run[e] = Idle
      BY <1>1, CurrentDisc
    <2>2. /\ ID(c) \notin DOMAIN disks /\ DOMAIN disks' = DOMAIN disks \cup {ID(c)}
          /\ disks'[ID(c)] = DiskRowOf(c)
          /\ \A d \in DOMAIN disks : disks'[d] = disks[d]
      BY <1>3 DEF InsertDisk, Extend
    <2>3. /\ DiskRowOf(c).role = plan.role /\ DiskRowOf(c).group = plan.group
          /\ DiskRowOf(c).iso = run[c].image
      BY DEF DiskRowOf
    <2>4. /\ run[c].image.id = ID(c) /\ ID(c) = plan.id /\ isos[ID(c)] = run[c].image
          /\ plan.role = "parity" => run[c].image.xor = GroupImages(plan)
      BY <1>1, <2>1 DEF Building, ID, WithImage, Packed
    <2>5. plan.group \in 0..Len(groups) /\ (plan.role = "parity" => plan.group # NoGroup)
      <3>1. groups \in Seq(Nat) /\ Grouped(groups, job.plans, job.opts, FALSE)
        BY <2>1 DEF TInv, TypeOK, CatalogTypeOK, PInv, GroupInv
      <3>2. CASE job.opts.crossDiscParity
        <4>1. plan.group \in 1..Len(groups) /\ Len(groups) \in Nat
          BY <2>1, <3>1, <3>2 DEF Grouped, InPlace
        <4> QED
          BY <4>1 DEF NoGroup
      <3>3. CASE ~job.opts.crossDiscParity
        BY <2>1, <3>1, <3>3 DEF Grouped, Ungrouped, NoGroup
      <3> QED
        BY <3>2, <3>3
    <2>6. RowInv'
      <3>1. \A d \in DOMAIN disks : /\ disks'[d].iso.id = d /\ disks'[d].group \in 0..Len(groups)
                                    /\ disks'[d].role = "parity" => disks'[d].group # NoGroup
        BY <2>2 DEF XInv, RowInv
      <3>2. /\ disks'[ID(c)].iso.id = ID(c) /\ disks'[ID(c)].group \in 0..Len(groups)
            /\ disks'[ID(c)].role = "parity" => disks'[ID(c)].group # NoGroup
        BY <2>2, <2>3, <2>4, <2>5
      <3> QED
        BY <1>1, <2>2, <3>1, <3>2 DEF RowInv
    <2>7. SpoolInv' /\ FreshGroups'
      BY <1>1, <2>1 DEF XInv, SpoolInv, FreshGroups, NoPlanning
    <2>8. RowsPlanned'
      <3> SUFFICES ASSUME NEW d \in DOMAIN disks', NEW i \in DOMAIN job.plans,
                          disks'[d].group # NoGroup, disks'[d].group = job.plans[i].group
                   PROVE  \E j \in DOMAIN job.plans :
                             /\ j <= k /\ job.plans[j].id = d
                             /\ disks'[d].role = job.plans[j].role
                             /\ disks'[d].group = job.plans[j].group
        BY <1>3 DEF RowsPlanned, IsRowOf
      <3>1. CASE d = ID(c)
        <4>1. k <= k
          BY <2>1
        <4> QED
          BY <2>1, <2>2, <2>3, <2>4, <3>1, <4>1
      <3>2. CASE d \in DOMAIN disks
        BY <2>1, <2>2, <3>2 DEF XInv, RowsPlanned, IsRowOf
      <3> QED
        BY <2>2, <3>1, <3>2
    <2>9. PassedCatalogued' /\ ImagesKept'
      <3>1. \A g : AwaitsParity(g)' <=> AwaitsParity(g)
        BY <1>3 DEF AwaitsParity
      <3> QED
        BY <1>1, <1>3, <2>1, <2>2, <3>1 DEF XInv, PassedCatalogued, ImagesKept, IsRowOf
    <2>10. RunnerBuilds'
      <3>1. run'[c].plan = plan /\ run'[c].image = run[c].image /\ run'[c].step = "hash"
            /\ \A e \in Caller : e # c => run'[e] = run[e]
        BY <1>3, <2>1 DEF Run, TInv, TypeOK
      <3>2. Building(c)'
        BY <1>1, <1>3, <2>1, <2>2, <2>3, <2>4, <3>1
           DEF Building, IsRowOf, ID, WithImage, Inserted, Packed
      <3> QED
        BY <2>1, <3>1, <3>2 DEF RunnerBuilds
    <2> DEFINE Rows(g) == {e \in DOMAIN disks' : disks'[e].group = g /\ disks'[e].role = "data"}
    <2>11. ASSUME NEW g, ~(plan.role = "data" /\ plan.group = g)
           PROVE  /\ Rows(g) = GroupRows(g)
                  /\ \A e \in GroupRows(g) : disks'[e] = disks[e]
      BY <2>2, <2>3, <2>11 DEF GroupRows
    <2>12. ASSUME NEW d \in DOMAIN disks, disks[d].role = "parity"
           PROVE  ~(plan.role = "data" /\ plan.group = disks[d].group)
      <3> SUFFICES ASSUME plan.role = "data", plan.group = disks[d].group PROVE FALSE
        OBVIOUS
      <3>1. disks[d].group # NoGroup
        BY <2>12 DEF XInv, RowInv
      <3>2. PICK j \in DOMAIN job.plans : j <= k /\ IsRowOf(d, job.plans[j])
        BY <2>1, <3>1 DEF XInv, RowsPlanned
      <3>3. job.plans[j].role = "parity" /\ job.plans[j].group = plan.group
        BY <2>12, <3>2 DEF IsRowOf
      <3>4. k \in (j - groups[plan.group])..(j - 1) /\ j \in Nat /\ groups[plan.group] \in Nat
        BY <2>1, <3>3, ParityPlace
      <3> QED
        BY <2>1, <3>2, <3>4
    <2>13. ASSUME NEW d \in DOMAIN disks', disks'[d].role = "parity"
           PROVE  /\ disks'[d].iso.xor = {[id |-> e, files |-> disks'[e].iso.files] :
                                             e \in Rows(disks'[d].group)}
                  /\ Cardinality(Rows(disks'[d].group)) = groups[disks'[d].group]
      <3> DEFINE g == disks'[d].group
      <3> HIDE DEF Rows
      <3>1. CASE d \in DOMAIN disks
        <4>1. disks'[d] = disks[d] /\ disks[d].role = "parity" /\ g = disks[d].group
          BY <2>2, <2>13, <3>1
        <4>2. /\ disks[d].iso.xor = {[id |-> e, files |-> disks[e].iso.files] : e \in GroupRows(g)}
              /\ Cardinality(GroupRows(g)) = groups[g]
          BY <3>1, <4>1 DEF XInv, ParityCovers
        <4>3. Rows(g) = GroupRows(g) /\ \A e \in GroupRows(g) : disks'[e] = disks[e]
          BY <2>11, <2>12, <3>1, <4>1
        <4> QED
          BY <4>1, <4>2, <4>3
      <3>2. CASE d = ID(c)
        <4>1. disks'[d] = DiskRowOf(c) /\ plan.role = "parity" /\ g = plan.group
              /\ disks'[d].iso = run[c].image
          BY <2>2, <2>3, <2>13, <3>2
        <4>2. GroupRows(g) = GroupData(plan) /\ Cardinality(GroupRows(g)) = groups[g]
          BY <1>1, <4>1, GroupComplete
        <4>3. Rows(g) = GroupRows(g) /\ \A e \in GroupRows(g) : disks'[e] = disks[e]
          BY <2>11, <4>1
        <4>4. run[c].image.xor = {[id |-> e, files |-> disks[e].iso.files] : e \in GroupRows(g)}
          BY <2>4, <4>1, <4>2 DEF GroupImages
        <4> QED
          BY <4>1, <4>2, <4>3, <4>4
      <3> QED
        BY <2>2, <3>1, <3>2
    <2>14. ParityCovers'
      BY <1>1, <2>13 DEF ParityCovers, GroupRows
    <2> QED
      BY <2>6, <2>7, <2>8, <2>9, <2>10, <2>14 DEF XInv
  <1> QED
    BY <1>2, <1>3 DEF InsertDiskRow

(* The job passes the disc; cleanupGroupDataISOs takes only images of the  *)
(* group whose parity disc it passes.                                      *)
LEMMA FinishDiscParity ==
    ASSUME TInv, PInv, XInv, NEW c \in Caller, FinishDisc(c)
    PROVE  XInv'
  <1>1. /\ run[c].step = "hash" /\ run[c].step \in Step
        /\ UNCHANGED <<disks, groups, planning>>
        /\ job' = [job EXCEPT !.idx = @ + 1,
                              !.state = IF job.idx + 1 > Len(job.plans) THEN "DONE"
                                        ELSE "AWAITING_DISC"]
        /\ run' = [run EXCEPT ![c] = Idle]
    BY DEF FinishDisc, Step, catalogVars
  <1>2. PICK gone \in SUBSET (IF run[c].plan.role = "parity" THEN GroupData(run[c].plan) ELSE {}) :
          isos' = Without(isos, gone)
    BY DEF FinishDisc
  <1> DEFINE k == job.idx
             plan == run[c].plan
  <1>3. /\ job \in Job /\ job.state # "NONE" /\ job.plans \in Seq(DiscPlan)
        /\ k \in DOMAIN job.plans /\ k \in Nat /\ plan = job.plans[k] /\ Building(c)
        /\ run[c] # Idle /\ planning = NoPlanning /\ \A e \in Caller : e # c => run[e] = Idle
    BY <1>1, CurrentDisc
  <1>4. job'.plans = job.plans /\ job'.idx = k + 1
    BY <1>1, <1>3 DEF Job
  <1>5. RunnerBuilds'
    <2>1. \A e \in Caller : run'[e] = Idle
      BY <1>1, <1>3 DEF TInv, TypeOK
    <2> QED
      BY <2>1 DEF RunnerBuilds
  <1>6. /\ DOMAIN isos' = DOMAIN isos \ gone
        /\ \A d \in DOMAIN isos' : isos'[d] = isos[d]
    BY <1>2 DEF Without
  <1>7. RowInv' /\ SpoolInv' /\ ParityCovers' /\ FreshGroups'
    BY <1>1, <1>6 DEF XInv, RowInv, SpoolInv, ParityCovers, GroupRows, FreshGroups
  <1>8. \A j \in DOMAIN job.plans : /\ j \in Nat /\ (j <= k => j <= k + 1)
                                    /\ (j < k + 1 => j < k \/ j = k)
    BY <1>3
  <1>9. RowsPlanned'
    BY <1>1, <1>3, <1>4, <1>8 DEF XInv, RowsPlanned, IsRowOf
  <1>10. /\ plan.id \in DOMAIN disks /\ IsRowOf(plan.id, plan)
         /\ disks[plan.id].iso = run[c].image /\ isos[plan.id] = run[c].image
         /\ plan.id \in DOMAIN isos
    BY <1>1, <1>3 DEF Building, Inserted, WithImage, ID, TInv, RunShape
  <1>11. PassedCatalogued'
    BY <1>1, <1>3, <1>4, <1>8, <1>10 DEF XInv, PassedCatalogued, IsRowOf
  <1>12. ImagesKept'
    <2> SUFFICES ASSUME NEW j \in DOMAIN job.plans, j < k + 1, job.plans[j].role = "data",
                        AwaitsParity(job.plans[j].group)'
                 PROVE  /\ job.plans[j].id \in DOMAIN isos'
                        /\ isos'[job.plans[j].id] = disks[job.plans[j].id].iso
      <3>1. \A j \in DOMAIN job.plans : AwaitsParity(job.plans[j].group)' <=>
              \A l \in DOMAIN job.plans :
                 job.plans[l].group = job.plans[j].group /\ job.plans[l].role = "parity" => l >= k + 1
        BY <1>4 DEF AwaitsParity
      <3> QED
        BY <1>1, <1>4 DEF ImagesKept
    <2>1. \A l \in DOMAIN job.plans :
            job.plans[l].group = job.plans[j].group /\ job.plans[l].role = "parity" => l >= k + 1
      BY <1>4 DEF AwaitsParity
    <2>2. CASE j = k
      <3>1. gone = {}
        BY <1>2, <1>3, <2>2
      <3> QED
        BY <1>3, <1>6, <1>10, <2>2, <3>1
    <2>3. CASE j < k
      <3>1. \A l \in DOMAIN job.plans : l >= k + 1 => l >= k
        BY <1>3
      <3>2. AwaitsParity(job.plans[j].group)
        BY <2>1, <3>1 DEF AwaitsParity
      <3>3. /\ job.plans[j].id \in DOMAIN isos
            /\ isos[job.plans[j].id] = disks[job.plans[j].id].iso
        BY <1>3, <2>3, <3>2 DEF XInv, ImagesKept
      <3>4. job.plans[j].id \notin gone
        <4> SUFFICES ASSUME job.plans[j].id \in gone PROVE FALSE
          OBVIOUS
        <4>1. plan.role = "parity" /\ job.plans[j].id \in GroupData(plan)
          BY <1>2
        <4>2. PICK i \in DOMAIN job.plans : /\ job.plans[i].id = job.plans[j].id
                                           /\ job.plans[i].group = plan.group
          BY <1>3, <4>1 DEF GroupData
        <4>3. i = j
          BY <1>3, <4>2 DEF PInv, PlanIDsDistinct, DistinctIDs
        <4>4. k >= k + 1
          BY <1>3, <2>1, <4>1, <4>2, <4>3
        <4> QED
          BY <1>3, <4>4
      <3> QED
        BY <1>6, <3>3, <3>4
    <2> QED
      BY <1>8, <2>2, <2>3
  <1> QED
    BY <1>5, <1>7, <1>9, <1>11, <1>12 DEF XInv

-----------------------------------------------------------------------------
(* Steps that leave spool, catalog and the runners alone.                  *)
LEMMA OtherFrame ==
    ASSUME XInv, UNCHANGED <<disks, groups, isos>>,
           planning' = planning \/ planning'.phase = "idle",
           \/ /\ run' = run
              /\ job'.plans = job.plans /\ job'.idx = job.idx
              /\ job'.state = "NONE" <=> job.state = "NONE"
           \/ (\A c \in Caller : run'[c] = Idle) /\ job'.state = "NONE"
    PROVE  XInv'
  <1>1. RowInv' /\ SpoolInv'
    BY DEF XInv, RowInv, SpoolInv
  <1>2. ParityCovers'
    BY DEF XInv, ParityCovers, GroupRows
  <1>3. FreshGroups'
    BY DEF XInv, FreshGroups
  <1>4. RowsPlanned' /\ PassedCatalogued'
    BY DEF XInv, RowsPlanned, PassedCatalogued, IsRowOf
  <1>5. ImagesKept'
    <2>1. job'.plans = job.plans /\ job'.idx = job.idx =>
            \A g : AwaitsParity(g)' <=> AwaitsParity(g)
      BY DEF AwaitsParity
    <2> QED
      BY <2>1 DEF XInv, ImagesKept
  <1>6. RunnerBuilds'
    <2>1. CASE \A c \in Caller : run'[c] = Idle
      BY <2>1 DEF RunnerBuilds
    <2>2. ASSUME run' = run, job'.plans = job.plans, job'.idx = job.idx,
                 NEW c \in Caller, run[c] # Idle
          PROVE  Building(c)'
      <3>1. GroupData(run[c].plan)' = GroupData(run[c].plan)
        BY <2>2 DEF GroupData
      <3>2. GroupImages(run[c].plan)' = GroupImages(run[c].plan)
        BY <3>1 DEF GroupImages
      <3>3. Building(c)
        BY <2>2 DEF XInv, RunnerBuilds
      <3> QED
        BY <2>2, <3>2, <3>3 DEF Building, ID, IsRowOf
    <2> QED
      BY <2>1, <2>2 DEF RunnerBuilds
  <1> QED
    BY <1>1, <1>2, <1>3, <1>4, <1>5, <1>6 DEF XInv

(* A step of planJob that does not end it.                                 *)
LEMMA PlanFrame ==
    ASSUME TInv, XInv, UNCHANGED <<disks, run, isos, job>>, FreshGroups',
           groups' = groups \/ \E m \in Nat : groups' = Append(groups, m)
    PROVE  XInv'
  <1>1. /\ groups \in Seq(Nat) /\ Len(groups) \in Nat
        /\ \A g \in 1..Len(groups) : groups'[g] = groups[g]
        /\ Len(groups') \in Nat /\ Len(groups') >= Len(groups)
    BY DEF TInv, TypeOK, CatalogTypeOK
  <1>2. RowInv'
    BY <1>1 DEF XInv, RowInv
  <1>3. ParityCovers'
    <2>1. \A d \in DOMAIN disks : disks[d].role = "parity" => disks[d].group \in 1..Len(groups)
      BY <1>1 DEF XInv, RowInv, NoGroup
    <2>2. ASSUME NEW d \in DOMAIN disks, disks[d].role = "parity"
          PROVE  /\ disks[d].iso.xor = {[id |-> e, files |-> disks[e].iso.files] :
                                           e \in GroupRows(disks[d].group)}
                 /\ Cardinality(GroupRows(disks[d].group)) = groups'[disks[d].group]
      <3>1. groups'[disks[d].group] = groups[disks[d].group]
        BY <1>1, <2>1, <2>2
      <3> QED
        BY <2>2, <3>1 DEF XInv, ParityCovers
    <2> QED
      BY <2>2 DEF ParityCovers, GroupRows
  <1>4. SpoolInv' /\ RowsPlanned' /\ PassedCatalogued'
    BY DEF XInv, SpoolInv, RowsPlanned, PassedCatalogued, IsRowOf
  <1>5. ImagesKept'
    <2>1. \A g : AwaitsParity(g)' <=> AwaitsParity(g)
      BY DEF AwaitsParity
    <2> QED
      BY <2>1 DEF XInv, ImagesKept
  <1>6. RunnerBuilds'
    BY DEF XInv, RunnerBuilds, Building, ID, IsRowOf, GroupImages, GroupData
  <1> QED
    BY <1>2, <1>3, <1>4, <1>5, <1>6 DEF XInv

(* planJob keeps its groups new.                                           *)
LEMMA PlanStepFresh ==
    ASSUME TInv, PInv, XInv, PlanStep, ~FinishStart
    PROVE  FreshGroups'
  <1>1. UNCHANGED disks /\ planning.phase # "idle"
    BY DEF PlanStep, PackFile, PackLast, PlanDisc, PlansComplete, PlanGroup, PlanParity,
           GroupsComplete, catalogVars
  <1>2. planning \in Planning /\ groups \in Seq(Nat)
    BY <1>1, PlanningType
  <1> DEFINE W == planning.withGroups
             V == planning'.withGroups
  <1>3. \A i \in DOMAIN W, d \in DOMAIN disks : disks[d].group = W[i].group => disks[d].group = NoGroup
    BY <1>1 DEF XInv, FreshGroups
  <1>4. SUFFICES ASSUME NEW i \in DOMAIN V, NEW d \in DOMAIN disks, disks[d].group = V[i].group
                 PROVE  disks[d].group = NoGroup
    BY <1>1 DEF FreshGroups
  <1>5. W \in Seq(DiscPlan) /\ DOMAIN W = 1..Len(W) /\ Len(W) \in Nat
    BY <1>2 DEF Planning
  <1>6. CASE V = W
    BY <1>3, <1>4, <1>6
  <1>7. CASE PlansComplete /\ ~(V = W)
    <2>1. V = planning.plans
      BY <1>2, <1>7 DEF PlansComplete, Planning
    <2>2. V[i].group = NoGroup
      <3>1. V[i] = DataPlan(i)
        BY <1>1, <2>1 DEF PInv, NumberInv
      <3> QED
        BY <3>1 DEF DataPlan
    <2> QED
      BY <1>4, <2>2
  <1>8. CASE PlanGroup
    <2>1. /\ V = W \o Members /\ Members \in Seq(DiscPlan)
          /\ Len(Members) = GroupEnd - planning.start
          /\ planning.phase = "group" /\ planning.start < Len(planning.plans)
      BY <1>2, <1>8, MembersType DEF PlanGroup, Members, Planning
    <2>2. \A k \in 1..Len(Members) : Members[k].group = Len(groups) + 1
      BY <2>1, MemberFields DEF PInv
    <2> HIDE DEF W, V
    <2>3. i \in 1..Len(W) \/ i - Len(W) \in 1..Len(Members)
      BY <1>5, <2>1, ConcatFacts
    <2>4. CASE i \in 1..Len(W)
      <3>1. V[i] = W[i]
        BY <1>5, <2>1, <2>4, ConcatFacts
      <3> QED
        BY <1>3, <1>4, <1>5, <2>4, <3>1
    <2>5. CASE i - Len(W) \in 1..Len(Members)
      <3>1. \A k \in 1..Len(Members) : V[Len(W) + k] = Members[k]
        BY <1>5, <2>1, ConcatFacts
      <3>2. DOMAIN V = 1..(Len(W) + Len(Members)) /\ Len(Members) \in Nat
        BY <1>5, <2>1, ConcatFacts
      <3>3. Len(W) + (i - Len(W)) = i
        BY <1>5, <3>2
      <3>4. V[i].group = Len(groups) + 1
        BY <2>2, <2>5, <3>1, <3>3
      <3>5. disks[d].group \in 0..Len(groups) /\ Len(groups) \in Nat
        BY <1>2 DEF XInv, RowInv
      <3> QED
        BY <1>4, <3>4, <3>5
    <2> QED
      BY <2>3, <2>4, <2>5
  <1>9. CASE PlanParity
    <2>1. /\ planning.phase = "parity"
          /\ V = Append(W, [id |-> NewID, role |-> "parity", group |-> Len(groups),
                            slot |-> ParitySlot, bucket |-> EmptyBucket])
      BY <1>2, <1>9 DEF PlanParity, Planning
    <2>2. Len(W) >= 1 /\ W[Len(W)].group = Len(groups)
      BY <1>1, <2>1 DEF PInv, GroupInv
    <2>3. PICK j \in DOMAIN W : V[i].group = W[j].group
      <3>1. CASE i = Len(W) + 1
        BY <1>5, <2>1, <2>2, <3>1
      <3>2. CASE i \in DOMAIN W
        BY <1>5, <2>1, <3>2
      <3> QED
        BY <1>5, <2>1, <3>1, <3>2
    <2> QED
      BY <1>3, <1>4, <2>3
  <1>10. CASE PackFile \/ PackLast \/ PlanDisc \/ GroupsComplete
    <2>1. V = W
      BY <1>2, <1>10 DEF PackFile, PackLast, PlanDisc, GroupsComplete, Planning
    <2> QED
      BY <1>6, <2>1
  <1> QED
    BY <1>6, <1>7, <1>8, <1>9, <1>10 DEF PlanStep

(* planJob inserts disk_groups rows and nothing else.                      *)
LEMMA PlanStepParity ==
    ASSUME TInv, PInv, XInv, PlanStep
    PROVE  XInv'
  <1>1. CASE ~FinishStart
    <2>1. UNCHANGED <<disks, run, isos, job>>
      BY <1>1 DEF PlanStep, PackFile, PackLast, PlanDisc, PlansComplete, PlanGroup, PlanParity,
                  GroupsComplete, catalogVars, pipelineVars
    <2>2. groups' = groups \/ \E m \in Nat : groups' = Append(groups, m)
      <3>1. CASE PlanGroup
        <4>1. GroupEnd - planning.start \in Nat
          BY <3>1, PlanningType, GroupEndType DEF PlanGroup, Planning
        <4> QED
          BY <3>1, <4>1 DEF PlanGroup, InsertDiskGroup
      <3>2. CASE ~PlanGroup
        BY <1>1, <3>2 DEF PlanStep, PackFile, PackLast, PlanDisc, PlansComplete, PlanParity,
                          GroupsComplete, catalogVars
      <3> QED
        BY <3>1, <3>2
    <2> QED
      BY <1>1, <2>1, <2>2, PlanStepFresh, PlanFrame
  <1>2. CASE FinishStart
    <2>1. /\ UNCHANGED <<disks, groups, run, isos>> /\ planning.phase = "done"
          /\ job'.plans = planning.withGroups /\ job'.idx = 1 /\ planning'.phase = "idle"
      BY <1>2 DEF PlanStep, FinishStart, catalogVars, pipelineVars, PackFile, PackLast, PlanDisc,
                  PlansComplete, PlanGroup, PlanParity, GroupsComplete, NoPlanning
    <2>2. \A c \in Caller : run[c] = Idle
      BY <2>1 DEF TInv, OneRunner, JobShape, Claimed
    <2>3. RowInv' /\ SpoolInv' /\ FreshGroups' /\ RunnerBuilds'
      BY <2>1, <2>2 DEF XInv, RowInv, SpoolInv, FreshGroups, RunnerBuilds
    <2>4. ParityCovers'
      BY <2>1 DEF XInv, ParityCovers, GroupRows
    <2>5. RowsPlanned'
      BY <2>1 DEF XInv, FreshGroups, RowsPlanned
    <2>6. \A j \in DOMAIN planning.withGroups : ~(j < 1)
      BY <2>1, PlanningType DEF Planning
    <2>7. PassedCatalogued' /\ ImagesKept'
      BY <2>1, <2>6 DEF PassedCatalogued, ImagesKept
    <2> QED
      BY <2>3, <2>4, <2>5, <2>7 DEF XInv
  <1> QED
    BY <1>1, <1>2

(* Start begins with an empty plan.                                        *)
LEMMA StartParity ==
    ASSUME TInv, XInv, NEW opts \in Options, Start(opts)
    PROVE  XInv'
  <1>1. /\ UNCHANGED <<disks, run, isos, job, groups>> /\ planning'.withGroups = <<>>
    BY DEF Start, BeginStart, catalogVars, pipelineVars
  <1>2. FreshGroups'
    BY <1>1 DEF FreshGroups
  <1> QED
    BY <1>1, <1>2, PlanFrame

(* Retry, a crash, a failed plan, edits and metadata.                      *)
LEMMA OthersParity ==
    ASSUME TInv, XInv,
           Retry \/ Crash \/ PlanningFails \/ Edit \/ UNCHANGED vars
             \/ \E p \in Path : ApplyMetadata(p)
    PROVE  XInv'
  <1>1. CASE Retry
    <2>1. /\ UNCHANGED <<disks, groups, isos, run, planning>>
          /\ SetState("AWAITING_DISC") /\ job.state = "FAILED"
      BY <1>1 DEF Retry, catalogVars, pipelineVars
    <2>2. job \in Job
      BY <2>1, JobType
    <2>3. job'.plans = job.plans /\ job'.idx = job.idx /\ job'.state # "NONE"
      BY <2>1, <2>2 DEF SetState, Job
    <2> QED
      BY <2>1, <2>3, OtherFrame
  <1>2. CASE Crash
    <2>1. /\ UNCHANGED <<disks, groups, isos>> /\ job'.state = "NONE" /\ planning'.phase = "idle"
          /\ \A c \in Caller : run'[c] = Idle
      BY <1>2 DEF Crash, catalogVars, NoJob, NoPlanning
    <2> QED
      BY <2>1, OtherFrame
  <1>3. CASE ~Retry /\ ~Crash
    <2>1. /\ UNCHANGED <<disks, groups, isos, run, job>>
          /\ planning' = planning \/ planning'.phase = "idle"
      BY <1>3 DEF PlanningFails, PlanFails, Edit, ApplyMetadata, vars, catalogVars, plannerVars,
                  pipelineVars, NoPlanning
    <2> QED
      BY <2>1, OtherFrame
  <1> QED
    BY <1>1, <1>2, <1>3

-----------------------------------------------------------------------------
(* At first there is no disc, no image and no job.                         *)
LEMMA XInvInit == Init => XInv
  <1> SUFFICES ASSUME Init PROVE XInv
    OBVIOUS
  <1>1. /\ DOMAIN disks = {} /\ DOMAIN isos = {} /\ planning.phase = "idle"
        /\ job.state = "NONE" /\ \A c \in Caller : run[c] = Idle
    BY DEF Init, CatalogInit, PlannerInit, NoJob, NoPlanning
  <1> QED
    BY <1>1 DEF XInv, RowInv, SpoolInv, FreshGroups, RowsPlanned, PassedCatalogued, ImagesKept,
                RunnerBuilds, ParityCovers

(* Every step keeps the parity invariant.                                  *)
LEMMA XInvNext == TInv /\ PInv /\ XInv /\ [Next]_vars => XInv'
  <1> SUFFICES ASSUME TInv, PInv, XInv, [Next]_vars PROVE XInv'
    OBVIOUS
  <1>1. ASSUME NEW c \in Caller, RunStep(c) PROVE XInv'
    BY <1>1, ClearStaleParity, PackDataParity, PackParityParity, BuildISOParity, MovesParity,
       InsertDiskRowParity, FinishDiscParity DEF RunStep
  <1>2. ASSUME NEW c \in Caller, Claim(c) \/ DryRunCopyFails(c) \/ StepFails(c) PROVE XInv'
    BY <1>2, ClaimParity, FaultParity
  <1>3. CASE PlanStep
    BY <1>3, PlanStepParity
  <1>4. ASSUME NEW opts \in Options, Start(opts) PROVE XInv'
    BY <1>4, StartParity
  <1>5. CASE Retry \/ Crash \/ PlanningFails \/ Edit \/ UNCHANGED vars
             \/ \E p \in Path : ApplyMetadata(p)
    BY <1>5, OthersParity
  <1> QED
    BY <1>1, <1>2, <1>3, <1>4, <1>5 DEF Next, Put, Delete, Move

(* The parity invariant holds in every behaviour.                          *)
LEMMA ParityInvariant == Spec => []XInv
  BY ControlInvariant, PlannerInvariant, XInvInit, XInvNext, PTL DEF Spec

(* A catalogued parity disc is the XOR of the images that its group's data *)
(* discs are catalogued with, and the group has all its discs, whatever    *)
(* crashes, faults, retries, disc-number conflicts and later jobs happen   *)
(* and even while the share is edited during a burn.                       *)
THEOREM ParityIsExact == Spec => []ParityCovers
  <1>1. XInv => ParityCovers
    BY DEF XInv
  <1> QED
    BY <1>1, ParityInvariant, PTL

(* When buildParityPayload runs, the spool has the image of every data     *)
(* disc of the group as it was catalogued: removeStaleArtifacts and        *)
(* cleanupGroupDataISOs never take one too early.                          *)
THEOREM ParityCanBeBuilt == Spec => []ParityBuildable
  <1>1. TInv /\ PInv /\ XInv => ParityBuildable
    <2> SUFFICES ASSUME TInv, PInv, XInv, NEW c \in Caller, run[c] # Idle,
                        run[c].plan.role = "parity", NEW d \in GroupData(run[c].plan)
                 PROVE  d \in DOMAIN isos /\ d \in DOMAIN disks /\ isos[d] = disks[d].iso
      BY DEF ParityBuildable
    <2>1. run[c].step \in Step
      BY DEF TInv, TypeOK, Run
    <2> QED
      BY <2>1, GroupPassed
  <1> QED
    BY <1>1, ControlInvariant, PlannerInvariant, ParityInvariant, PTL
=============================================================================
