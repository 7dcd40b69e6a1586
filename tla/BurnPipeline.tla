---------------------------- MODULE BurnPipeline ----------------------------
(***************************************************************************)
(* burn.Manager: the state machine that burns a planned job one disc at a  *)
(* time (ContinueNextDisc, runDisc, commitDisc, Retry), composed with the  *)
(* planner (Start) and with what the rest of the system does meanwhile:    *)
(* the WebDAV share edits the staging directory, metadata is applied to    *)
(* staged files, steps fail, and the process crashes and restarts.         *)
(*                                                                         *)
(* Every HTTP request runs on its own goroutine: Caller is the set of      *)
(* concurrent "continue" requests.  A caller that claimed a disc runs      *)
(* runDisc without the lock; one action is one call of runDisc that        *)
(* touches shared state (a file, a medium, a table).                       *)
(***************************************************************************)
EXTENDS Planner

CONSTANTS
    Caller,          \* concurrent HTTP requests for ContinueNextDisc
    Corrupt,         \* the contents of an image file whose copy was cut short
    InitialStaging,  \* the staging directories the model starts from
    EditsDuringBurn, \* whether the share is edited while a disc is burned
    MaxEdits,        \* bound: no more edits of the share and tags than this
    TaggedPaths,     \* the paths metadata may be applied to
    FaultSteps,      \* the steps of runDisc at which a fault may strike
    Crashes,         \* whether the process may crash
    OldVolumes,      \* what par2create may do about recovery volumes it finds:
                     \* be "refused", or leave them "overwritten"
    MaxFaults        \* bound: no more faults than this in one behaviour

Step == {"clear", "pack", "parity", "iso", "burn", "verify", "disk", "hash",
         "consume", "insert", "remove"}

ASSUME CorruptAssumption == Corrupt \notin Image
ASSUME StagingAssumption == InitialStaging \subseteq [Path -> Content \cup {Absent}]
ASSUME ModeAssumption ==
    /\ EditsDuringBurn \in BOOLEAN
    /\ MaxEdits \in Nat
    /\ TaggedPaths \subseteq Path
    /\ FaultSteps \subseteq Step
    /\ Crashes \in BOOLEAN
    /\ OldVolumes \subseteq {"refused", "overwritten"} /\ OldVolumes # {}
    /\ MaxFaults \in Nat

VARIABLES
    run,       \* per caller: the locals of its runDisc call
    isos,      \* the spool's <diskID>.iso files
    vols,      \* disks whose <diskID>.tar.vol*.par2 files are in the spool
    media,     \* the images on physical discs (or filesystem targets)
    dryRun,    \* the dry-run directory's <diskID>.iso files
    removed,   \* history: what the pipeline deleted from staging
    faults,    \* history: the number of faults so far
    edits      \* history: the number of edits of the share and tags so far

pipelineVars == <<run, isos, vols, media, dryRun, removed, faults, edits>>
vars == <<catalogVars, plannerVars, pipelineVars>>

Idle == [step |-> "idle"]
Run == [step : Step, plan : DiscPlan, image : Image, good : BOOLEAN,
        todo : SUBSET Path, file : Nat, hash : Content \cup {Absent},
        tagged : BOOLEAN]

NoImage(id) == [id |-> id, files |-> {}, xor |-> {}]

Removal == [path : Path, content : Content, dry : BOOLEAN]

TypeOK ==
    /\ CatalogTypeOK
    /\ PlannerTypeOK
    /\ run \in [Caller -> Run \cup {Idle}]
    /\ DOMAIN isos \subseteq DiskID /\ isos \in [DOMAIN isos -> Image]
    /\ vols \subseteq DiskID
    /\ media \subseteq Image
    /\ DOMAIN dryRun \subseteq DiskID
    /\ dryRun \in [DOMAIN dryRun -> Image \cup {Corrupt}]
    /\ removed \subseteq Removal
    /\ faults \in 0..MaxFaults
    /\ edits \in 0..MaxEdits

Init ==
    /\ CatalogInit
    /\ PlannerInit
    /\ staging \in InitialStaging
    /\ run = [c \in Caller |-> Idle]
    /\ isos = [d \in {} |-> 0]
    /\ vols = {}
    /\ media = {}
    /\ dryRun = [d \in {} |-> 0]
    /\ removed = {}
    /\ faults = 0
    /\ edits = 0

-----------------------------------------------------------------------------
Claimed == {"PACKING", "PARITY", "ISO", "BURNING", "VERIFYING"}

ID(c) == run[c].plan.id
BucketPaths(plan) == {f.path : f \in plan.bucket.files}
IsDryRun == job.opts.kind = "dryrun"

GroupDataShort(plan) ==
    {job.plans[i].id : i \in {j \in 1..(Len(job.plans) - 2) :
        job.plans[j].group = plan.group /\ job.plans[j].role = "data"}}

(* The data discs of plan's group, in the job that plans it.               *)
GroupData(plan) ==
    {job.plans[i].id : i \in {j \in 1..Len(job.plans) :
        job.plans[j].group = plan.group /\ job.plans[j].role = "data"}}

SetState(s) == job' = [job EXCEPT !.state = s]
Goto(c, step) == run' = [run EXCEPT ![c].step = step]
Without(f, ids) == [d \in DOMAIN f \ ids |-> f[d]]

FailSilently(c) == UNCHANGED job /\ run' = [run EXCEPT ![c] = Idle]

(* runDisc returned an error: ContinueNextDisc marks the job FAILED.       *)
Fail(c) ==
    /\ SetState("FAILED")
    /\ run' = [run EXCEPT ![c] = Idle]

Fault == faults < MaxFaults /\ faults' = faults + 1

(* The critical section of ContinueNextDisc: the check and the claim are   *)
(* one step; Start holds the same lock while it plans.                     *)
ClaimUnclaimed(c) ==
    /\ run[c] = Idle
    /\ planning.phase = "idle"
    /\ job.state = "AWAITING_DISC"
    /\ UNCHANGED job
    /\ run' = [run EXCEPT ![c] =
                 [step |-> "clear", plan |-> job.plans[job.idx],
                  image |-> NoImage(job.plans[job.idx].id), good |-> FALSE,
                  todo |-> {}, file |-> 0, hash |-> Absent, tagged |-> FALSE]]
    /\ UNCHANGED <<catalogVars, staging, planning, isos, vols, media, dryRun,
                   removed, faults, edits>>

Claim(c) ==
    /\ run[c] = Idle
    /\ planning.phase = "idle"
    /\ job.state = "AWAITING_DISC"
    /\ SetState("PACKING")
    /\ run' = [run EXCEPT ![c] =
                 [step |-> "clear", plan |-> job.plans[job.idx],
                  image |-> NoImage(job.plans[job.idx].id), good |-> FALSE,
                  todo |-> {}, file |-> 0, hash |-> Absent, tagged |-> FALSE]]
    /\ UNCHANGED <<catalogVars, staging, planning, isos, vols, media, dryRun,
                   removed, faults, edits>>

WholeSpool(c) == DOMAIN isos

(* removeStaleArtifacts: the recovery volumes are not among its paths.     *)
StaleISOs(c) == {ID(c)}

ClearStale(c) ==
    /\ run[c].step = "clear"
    /\ isos' = Without(isos, StaleISOs(c))
    /\ SetState("PACKING")
    /\ Goto(c, "pack")
    /\ UNCHANGED <<catalogVars, staging, planning, vols, media, dryRun, removed,
                   faults, edits>>

PackableUnchecked(c) == TRUE

(* addFileToTar opens every file of the bucket: a missing one is an error. *)
Packable(c) == BucketPaths(run[c].plan) \subseteq Staged

(* WriteTar: pack the bucket's files as they are now.                      *)
PackData(c) ==
    /\ run[c].step = "pack"
    /\ run[c].plan.role = "data"
    /\ IF Packable(c)
       THEN /\ SetState("PARITY")
            /\ run' = [run EXCEPT
                         ![c].step = "parity",
                         ![c].image = [id |-> ID(c), xor |-> {},
                                       files |-> {<<p, staging[p]>> :
                                                   p \in BucketPaths(run[c].plan)}]]
       ELSE Fail(c)
    /\ UNCHANGED <<catalogVars, staging, planning, isos, vols, media, dryRun,
                   removed, faults, edits>>

(* buildParityPayload: XOR the group's data images, read from the spool.   *)
PackParity(c) ==
    /\ run[c].step = "pack"
    /\ run[c].plan.role = "parity"
    /\ LET members == GroupData(run[c].plan) IN
         IF members \subseteq DOMAIN isos /\ members # {}
         THEN /\ SetState("PARITY")
              /\ run' = [run EXCEPT
                           ![c].step = "parity",
                           ![c].image = [id |-> ID(c), files |-> {},
                                         xor |-> {[id |-> isos[d].id,
                                                   files |-> isos[d].files] :
                                                  d \in members}]]
         ELSE Fail(c)
    /\ UNCHANGED <<catalogVars, staging, planning, isos, vols, media, dryRun,
                   removed, faults, edits>>

(* CreateParity and the TOC.  Recovery volumes of an earlier attempt, or   *)
(* of a disc that had the number before, are still in the spool.           *)
CreateParity(c) ==
    /\ run[c].step = "parity"
    /\ \/ /\ ID(c) \notin vols \/ "overwritten" \in OldVolumes
          /\ vols' = vols \cup {ID(c)}
          /\ SetState("ISO")
          /\ Goto(c, "iso")
       \/ /\ ID(c) \in vols
          /\ "refused" \in OldVolumes
          /\ Fail(c)
          /\ UNCHANGED vols
    /\ UNCHANGED <<catalogVars, staging, planning, isos, media, dryRun, removed,
                   faults, edits>>

(* movePathsInto, BuildISO and the hash of the image.                      *)
BuildISO(c) ==
    /\ run[c].step = "iso"
    /\ isos' = Extend(isos, ID(c), run[c].image)
    /\ SetState("BURNING")
    /\ Goto(c, "burn")
    /\ UNCHANGED <<catalogVars, staging, planning, vols, media, dryRun, removed,
                   faults, edits>>

(* The dry-run branch: a copy, no verification, the state stays BURNING.   *)
WriteDryRun(c) ==
    /\ run[c].step = "burn"
    /\ IsDryRun
    /\ dryRun' = Extend(dryRun, ID(c), isos[ID(c)])
    /\ Goto(c, "disk")
    /\ UNCHANGED <<catalogVars, plannerVars, isos, vols, media, removed, faults, edits>>

(* copyFile fails after os.Create: what is left under the disc's name, be  *)
(* it new or an ISO that was there before, is cut short unless only the    *)
(* final Close failed.                                                     *)
DryRunCopyFails(c) ==
    /\ run[c].step = "burn"
    /\ "burn" \in FaultSteps
    /\ IsDryRun
    /\ Fault
    /\ \E left \in {isos[ID(c)], Corrupt} : dryRun' = Extend(dryRun, ID(c), left)
    /\ Fail(c)
    /\ UNCHANGED <<catalogVars, staging, planning, isos, vols, media, removed, edits>>

(* The optical and filesystem branches write the medium the operator put   *)
(* in for this disc, and then verify it.                                   *)
WriteDisc(c) ==
    /\ run[c].step = "burn"
    /\ ~IsDryRun
    /\ \/ /\ media' = media \cup {isos[ID(c)]}
          /\ run' = [run EXCEPT ![c].step = "verify", ![c].good = TRUE]
          /\ UNCHANGED faults
       \/ /\ "burn" \in FaultSteps
          /\ Fault
          /\ run' = [run EXCEPT ![c].step = "verify", ![c].good = FALSE]
          /\ UNCHANGED media
    /\ SetState("VERIFYING")
    /\ UNCHANGED <<catalogVars, staging, planning, isos, vols, dryRun, removed, edits>>

VerifyBurnTrusting(c) ==
    /\ run[c].step = "verify"
    /\ Goto(c, "disk")
    /\ UNCHANGED <<catalogVars, plannerVars, isos, vols, media, dryRun, removed,
                   faults, edits>>

(* VerifyBurn reads the medium back and compares its hash with the image.  *)
VerifyBurn(c) ==
    /\ run[c].step = "verify"
    /\ IF run[c].good THEN Goto(c, "disk") /\ UNCHANGED job ELSE Fail(c)
    /\ UNCHANGED <<catalogVars, staging, planning, isos, vols, media, dryRun,
                   removed, faults, edits>>

-----------------------------------------------------------------------------
(* commitDisc, one statement or file operation at a time.                  *)
DiskRowOf(c) ==
    [role |-> run[c].plan.role, group |-> run[c].plan.group,
     slot |-> run[c].plan.slot, dry |-> IsDryRun, iso |-> run[c].image]

InsertDiskRow(c) ==
    /\ run[c].step = "disk"
    /\ \/ /\ InsertDisk(ID(c), DiskRowOf(c))
          /\ run' = [run EXCEPT ![c].step = "hash",
                                ![c].todo = BucketPaths(run[c].plan)]
          /\ UNCHANGED job
       \/ /\ InsertDiskConflicts(ID(c))
          /\ Fail(c)
          /\ UNCHANGED disks
    /\ UNCHANGED <<files, groups, metadata, staging, planning, isos, vols, media,
                   dryRun, removed, faults, edits>>

(* The commit loop takes the bucket's files in path order and hashes the   *)
(* staged file as it is now.                                               *)
HashStaged(c) ==
    /\ run[c].step = "hash"
    /\ \E p \in run[c].todo :
         /\ \A q \in run[c].todo : p <= q
         /\ IF p \in Staged
            THEN /\ run' = [run EXCEPT ![c].step = "consume", ![c].file = p,
                                       ![c].hash = staging[p]]
                 /\ UNCHANGED job
            ELSE Fail(c)
    /\ UNCHANGED <<catalogVars, staging, planning, isos, vols, media, dryRun,
                   removed, faults, edits>>

ConsumeMetadata(c) ==
    /\ run[c].step = "consume"
    /\ ConsumeStagedMetadata(run[c].file)
    /\ run' = [run EXCEPT ![c].step = "insert",
                          ![c].tagged = run[c].file \in metadata]
    /\ UNCHANGED <<disks, files, groups, plannerVars, isos, vols, media, dryRun,
                   removed, faults, edits>>

InsertFileRowBestEffort(c) ==
    /\ run[c].step = "insert"
    /\ \/ InsertFile([disk |-> ID(c), path |-> run[c].file, hash |-> run[c].hash,
                      tagged |-> run[c].tagged])
       \/ UNCHANGED files
    /\ Goto(c, "remove")
    /\ UNCHANGED <<disks, groups, metadata, plannerVars, isos, vols, media, dryRun,
                   removed, faults, edits>>

InsertFileRow(c) ==
    /\ run[c].step = "insert"
    /\ InsertFile([disk |-> ID(c), path |-> run[c].file, hash |-> run[c].hash,
                   tagged |-> run[c].tagged])
    /\ Goto(c, "remove")
    /\ UNCHANGED <<disks, groups, metadata, plannerVars, isos, vols, media, dryRun,
                   removed, faults, edits>>

(* os.Remove of the archived file; it is an error if it is gone already.   *)
RemoveStaged(c) ==
    /\ run[c].step = "remove"
    /\ LET p == run[c].file IN
         IF p \in Staged
         THEN /\ staging' = [staging EXCEPT ![p] = Absent]
              /\ removed' = removed \cup {[path |-> p, content |-> staging[p],
                                           dry |-> IsDryRun]}
              /\ run' = [run EXCEPT ![c].step = "hash", ![c].todo = @ \ {p}]
              /\ UNCHANGED job
         ELSE Fail(c) /\ UNCHANGED <<staging, removed>>
    /\ UNCHANGED <<catalogVars, planning, isos, vols, media, dryRun, faults, edits>>

(* cleanupGroupDataISOs, whose failures are only logged, and the advance   *)
(* of ContinueNextDisc.                                                    *)
FinishDisc(c) ==
    /\ run[c].step = "hash"
    /\ run[c].todo = {}
    /\ \E gone \in SUBSET (IF run[c].plan.role = "parity"
                           THEN GroupData(run[c].plan) ELSE {}) :
         isos' = Without(isos, gone)
    /\ job' = [job EXCEPT !.idx = @ + 1,
                          !.state = IF job.idx + 1 > Len(job.plans) THEN "DONE"
                                    ELSE "AWAITING_DISC"]
    /\ run' = [run EXCEPT ![c] = Idle]
    /\ UNCHANGED <<catalogVars, staging, planning, vols, media, dryRun, removed,
                   faults, edits>>

-----------------------------------------------------------------------------
(* An error of the tool, the file system or the database at caller c's     *)
(* step; a database step may have taken effect, which is the fault at the  *)
(* step after it.  removeStaleArtifacts may have removed the ISO before it *)
(* failed, and par2create may have left recovery volumes; other leftovers  *)
(* of a failed attempt are cleared by the next one before they are read.   *)
StepFails(c) ==
    /\ run[c].step \in FaultSteps
    /\ run[c].step = "hash" => (run[c].todo # {} \/ run[c].plan.role = "parity")
    /\ Fault
    /\ Fail(c)
    /\ \/ UNCHANGED <<isos, vols>>
       \/ /\ run[c].step = "clear"
          /\ isos' = Without(isos, StaleISOs(c))
          /\ UNCHANGED vols
       \/ /\ run[c].step = "parity"
          /\ vols' = vols \cup {ID(c)}
          /\ UNCHANGED isos
    /\ UNCHANGED <<catalogVars, staging, planning, media, dryRun, removed, edits>>

RetryUnclaimable ==
    /\ planning.phase = "idle"
    /\ job.state = "FAILED"
    /\ SetState("PACKING")
    /\ UNCHANGED <<catalogVars, staging, planning, pipelineVars>>

Retry ==
    /\ planning.phase = "idle"
    /\ job.state = "FAILED"
    /\ SetState("AWAITING_DISC")
    /\ UNCHANGED <<catalogVars, staging, planning, pipelineVars>>

(* The process dies and starts again: nothing of a job is persisted.       *)
Crash ==
    /\ Crashes
    /\ Fault
    /\ job' = NoJob
    /\ planning' = NoPlanning
    /\ run' = [c \in Caller |-> Idle]
    /\ UNCHANGED <<catalogVars, staging, isos, vols, media, dryRun, removed, edits>>

AtBound == NewID.num > MaxDisks \/ Len(groups) >= MaxGroups

PlanningFails ==
    /\ PlanFails
    /\ \/ Fault
       \/ AtBound /\ UNCHANGED faults
    /\ UNCHANGED <<run, isos, vols, media, dryRun, removed, edits>>

-----------------------------------------------------------------------------
(* The users of the WebDAV share and of the staging page.                  *)
Edit ==
    /\ EditsDuringBurn \/ \A c \in Caller : run[c] = Idle
    /\ edits < MaxEdits
    /\ edits' = edits + 1
    /\ UNCHANGED <<catalogVars, job, planning, run, isos, vols, media, dryRun,
                   removed, faults>>

Put(p, content) ==
    /\ Edit
    /\ staging' = [staging EXCEPT ![p] = content]

Delete(p) ==
    /\ Edit
    /\ p \in Staged
    /\ staging' = [staging EXCEPT ![p] = Absent]

Move(p, q) ==
    /\ Edit
    /\ p # q
    /\ p \in Staged
    /\ staging' = [staging EXCEPT ![p] = Absent, ![q] = staging[p]]

(* One upsert of applyMetadata.  A path selected on a page rendered before *)
(* the file left staging is upserted all the same.                         *)
ApplyMetadata(p) ==
    /\ p \in TaggedPaths
    /\ edits < MaxEdits
    /\ edits' = edits + 1
    /\ UpsertStagedMetadata(p)
    /\ UNCHANGED <<disks, files, groups, plannerVars, run, isos, vols, media,
                   dryRun, removed, faults>>

-----------------------------------------------------------------------------
(* What caller c's goroutine does once it runs runDisc.                    *)
RunStep(c) ==
    \/ ClearStale(c)
    \/ PackData(c)
    \/ PackParity(c)
    \/ CreateParity(c)
    \/ BuildISO(c)
    \/ WriteDryRun(c)
    \/ WriteDisc(c)
    \/ VerifyBurn(c)
    \/ InsertDiskRow(c)
    \/ HashStaged(c)
    \/ ConsumeMetadata(c)
    \/ InsertFileRow(c)
    \/ RemoveStaged(c)
    \/ FinishDisc(c)

PlanStep ==
    /\ \/ PackFile
       \/ PackLast
       \/ PlanDisc
       \/ PlansComplete
       \/ PlanGroup
       \/ PlanParity
       \/ GroupsComplete
       \/ FinishStart
    /\ UNCHANGED pipelineVars

Start(opts) == BeginStart(opts) /\ UNCHANGED pipelineVars

Next ==
    \/ \E opts \in Options : Start(opts)
    \/ PlanStep
    \/ PlanningFails
    \/ \E c \in Caller : Claim(c) \/ RunStep(c) \/ DryRunCopyFails(c) \/ StepFails(c)
    \/ Retry
    \/ Crash
    \/ \E p \in Path : Delete(p) \/ ApplyMetadata(p)
    \/ \E p \in Path, content \in Content : Put(p, content)
    \/ \E p, q \in Path : Move(p, q)

(* A handler goroutine, once started, is scheduled until it returns.       *)
Fairness ==
    /\ WF_vars(PlanStep \/ PlanningFails)
    /\ \A c \in Caller : WF_vars(RunStep(c))

Spec == Init /\ [][Next]_vars /\ Fairness

(* The operator keeps supplying media and retrying a failed disc, also     *)
(* when attempts to start another job instead keep failing in between.     *)
RetrySpec == Spec /\ SF_vars(Retry) /\ WF_vars(\E c \in Caller : Claim(c))

-----------------------------------------------------------------------------
(***************************************************************************)
(* Properties of the plan (Start and planJob).                             *)
(***************************************************************************)
NonEmpty(b) == {f \in b.files : f.size > 0}

Fits(b, opts) ==
    \/ b.total <= Target(opts)
    \/ \A f, g \in NonEmpty(b) : f = g

(* Pack never puts two non-empty files on a disc that they overflow, in    *)
(* the buckets being filled and in the plans of the job: only a single     *)
(* file larger than the target may make a disc oversized, whatever int64   *)
(* overflow does to the target.                                            *)
BucketsFit ==
    /\ planning.phase # "idle" =>
         /\ Fits(planning.current, planning.opts)
         /\ \A i \in DOMAIN planning.buckets : Fits(planning.buckets[i], planning.opts)
    /\ job.state # "NONE" =>
         \A i \in DOMAIN job.plans : Fits(job.plans[i].bucket, job.opts)

BucketFiles(seq) == UNION {seq[i].files : i \in DOMAIN seq}

(* planJob neither forgets a scanned file nor plans it twice: the files    *)
(* still to pack, the open bucket and the closed buckets always partition  *)
(* the scan, and the finished plan holds exactly the scan.                 *)
PlanCoversScan ==
    /\ planning.phase # "idle" =>
         /\ planning.scan = planning.todo \cup planning.current.files
                              \cup BucketFiles(planning.buckets)
         /\ planning.todo \cap planning.current.files = {}
         /\ \A i \in DOMAIN planning.buckets :
              /\ planning.buckets[i].files
                   \cap (planning.todo \cup planning.current.files) = {}
              /\ \A j \in DOMAIN planning.buckets :
                   i # j => planning.buckets[i].files \cap planning.buckets[j].files = {}
    /\ planning.phase = "done" =>
         planning.scan = UNION {planning.withGroups[i].bucket.files :
                                  i \in DOMAIN planning.withGroups}

DistinctIDs(plans) ==
    \A i, j \in DOMAIN plans : plans[i].id = plans[j].id => i = j

(* As long as nobody deletes a row of disks while planJob runs, no two     *)
(* discs of a job share an ID, although every ID of the job is computed    *)
(* from the same row count before any row is inserted.                     *)
PlanIDsDistinct ==
    /\ planning.phase # "idle" =>
         DistinctIDs(planning.plans) /\ DistinctIDs(planning.withGroups)
    /\ job.state # "NONE" => DistinctIDs(job.plans)

(* NextDiskID "returns the next sequential ID", "safe without locking":    *)
(* when planJob is done, it has handed out each ID once, and none that     *)
(* belongs to a disc already in the catalog.                               *)
FreshIDs ==
    planning.phase = "done" =>
        /\ DistinctIDs(planning.withGroups)
        /\ \A i \in DOMAIN planning.withGroups :
             planning.withGroups[i].id \notin DOMAIN disks

(* Every group of a job is burned as one run of data discs in slots 0, 1,  *)
(* ..., as many as its disk_groups row says, directly followed by its one  *)
(* parity disc in the next slot.                                           *)
GroupsWellFormed ==
    job.state # "NONE" =>
      \A i \in DOMAIN job.plans :
        LET p == job.plans[i] IN
        IF p.group = NoGroup
        THEN p.role = "data" /\ ~job.opts.crossDiscParity
        ELSE /\ p.slot <= groups[p.group]
             /\ p.role = "parity" <=> p.slot = groups[p.group]
             /\ p.slot > 0 => /\ i > 1
                              /\ job.plans[i - 1].group = p.group
                              /\ job.plans[i - 1].slot = p.slot - 1
             /\ p.role = "data" => /\ i < Len(job.plans)
                                   /\ job.plans[i + 1].group = p.group

(***************************************************************************)
(* Properties of the pipeline.                                             *)
(***************************************************************************)

(* At most one caller runs runDisc, and only while the job is in a claimed *)
(* state: the claim in ContinueNextDisc serialises concurrent requests.    *)
OneRunner ==
    /\ \A c, d \in Caller : run[c] # Idle /\ run[d] # Idle => c = d
    /\ (\E c \in Caller : run[c] # Idle) <=> job.state \in Claimed

OnMedium(id) == disks[id].dry \/ disks[id].iso \in media

(* Every file row tells the truth: the disc it names is catalogued, its    *)
(* image holds that very content under that path, and unless it is a dry   *)
(* run the image is on a medium that was read back.                        *)
CatalogTruthful ==
    \A r \in files :
        /\ r.disk \in DOMAIN disks
        /\ <<r.path, r.hash>> \in disks[r.disk].iso.files
        /\ OnMedium(r.disk)

(* Nothing leaves staging until its disc has been written, read back and   *)
(* catalogued: whatever a real burn removed from staging is, with that     *)
(* content, in a file row whose disc's medium holds it.                    *)
NothingLost ==
    \A x \in removed :
        ~x.dry => \E r \in files :
                     /\ r.path = x.path
                     /\ r.hash = x.content
                     /\ r.disk \in DOMAIN disks
                     /\ ~disks[r.disk].dry
                     /\ <<x.path, x.content>> \in disks[r.disk].iso.files
                     /\ disks[r.disk].iso \in media

GroupRows(g) == {d \in DOMAIN disks : disks[d].group = g /\ disks[d].role = "data"}

(* A catalogued parity disc is the XOR of exactly the images its group's   *)
(* data discs are catalogued with, and the group is complete: any one of   *)
(* them can be recomputed from the others.                                 *)
ParityCovers ==
    \A d \in DOMAIN disks :
        disks[d].role = "parity" =>
            /\ disks[d].iso.xor =
                 {[id |-> e, files |-> disks[e].iso.files] :
                    e \in GroupRows(disks[d].group)}
            /\ Cardinality(GroupRows(disks[d].group)) = groups[disks[d].group]

(* When a parity disc is due, the spool holds the image of every data disc *)
(* of its group, as it was catalogued: buildParityPayload does not fail,   *)
(* on the first attempt or on a retry.                                     *)
ParityBuildable ==
    \A c \in Caller :
        (run[c] # Idle /\ run[c].plan.role = "parity" /\ ID(c) \notin DOMAIN disks) =>
            \A d \in GroupData(run[c].plan) :
                d \in DOMAIN isos /\ d \in DOMAIN disks /\ isos[d] = disks[d].iso

(* What an attempt, or an earlier job, leaves behind that no retry clears. *)
CurrentPlan == job.plans[job.idx]
NumberTaken == CurrentPlan.id \in DOMAIN disks
VolumesLeft == CurrentPlan.id \in vols /\ "refused" \in OldVolumes
FilesGone == ~(BucketPaths(CurrentPlan) \subseteq Staged)

(* While the operator keeps retrying and faults are finitely many, a       *)
(* failed disc is burned and the job moves on to its end, unless something *)
(* no retry can clear is in the way: its number is in the catalog, its     *)
(* recovery volumes are in the spool, or a file of it has left staging.    *)
(* Spool artifacts, the group's images and the claim never are.            *)
RetryFailsOnlyOnLeftovers ==
    (job.state = "FAILED")
        ~> \/ job.state \in {"DONE", "NONE"}
           \/ job.state = "FAILED" /\ (NumberTaken \/ VolumesLeft \/ FilesGone)

(* "Retries must start from a clean slate regardless of where the previous *)
(* attempt failed", and "the burn as a whole is safe to retry": the same   *)
(* without exceptions.                                                     *)
RetrySucceeds == (job.state = "FAILED") ~> (job.state \in {"DONE", "NONE"})
=============================================================================
