-------------------------- MODULE BurnSafetyProofs --------------------------
(***************************************************************************)
(* The catalog tells the truth and nothing is lost, for every value of the *)
(* constants under which the staging share is not edited while a disc is   *)
(* being burned: crashes, faults at every step, retries, new jobs over     *)
(* failed ones and edits between discs included.                           *)
(***************************************************************************)
EXTENDS BurnTypeProofs

(* Parity discs carry no files of their own.                               *)
NoFilesOnParity(plans) ==
    \A i \in DOMAIN plans : plans[i].role = "parity" => plans[i].bucket.files = {}

ParityEmpty ==
    /\ planning.phase # "idle" =>
         /\ \A i \in DOMAIN planning.plans : planning.plans[i].role = "data"
         /\ NoFilesOnParity(planning.withGroups)
    /\ job.state # "NONE" => NoFilesOnParity(job.plans)

BeforeCommit == {"parity", "iso", "burn", "verify", "disk"}
Committing == {"hash", "consume", "insert", "remove"}

(* The disk row caller c inserted, which for a dry run may be gone: the    *)
(* dry-run page deletes it at any time.                                    *)
OwnRow(c) ==
    /\ ID(c) \in DOMAIN disks => /\ disks[ID(c)].iso = run[c].image
                                 /\ disks[ID(c)].dry <=> IsDryRun
    /\ ID(c) \notin DOMAIN disks => IsDryRun

(* What caller c's locals say about the rest of the state.                 *)
Faithful(c) ==
    /\ run[c].plan.role = "parity" => BucketPaths(run[c].plan) = {}
    /\ run[c].step \in BeforeCommit =>
         \A p \in BucketPaths(run[c].plan) : <<p, staging[p]>> \in run[c].image.files
    /\ run[c].step \in WithImage => isos[ID(c)] = run[c].image
    /\ run[c].step = "verify" /\ run[c].good => run[c].image \in media
    /\ run[c].step \in {"disk"} \cup Committing => IsDryRun \/ run[c].image \in media
    /\ run[c].step \in Committing =>
         /\ OwnRow(c)
         /\ \A p \in run[c].todo : <<p, staging[p]>> \in run[c].image.files
    /\ run[c].step \in {"consume", "insert", "remove"} =>
         run[c].file \in run[c].todo /\ run[c].hash = staging[run[c].file]
    /\ run[c].step = "remove" /\ ~IsDryRun =>
         \E r \in files : /\ r.disk = ID(c)
                          /\ r.path = run[c].file
                          /\ r.hash = run[c].hash

RunFaithful == \A c \in Caller : run[c] # Idle => Faithful(c)

SInv == TInv /\ ParityEmpty /\ RunFaithful /\ CatalogTruthful /\ NothingLost

-----------------------------------------------------------------------------
(* The catalog part, when no row changes and media are only added.         *)
LEMMA CatalogFrame ==
    ASSUME CatalogTruthful, NothingLost, UNCHANGED <<disks, files, removed>>,
           media \subseteq media'
    PROVE  CatalogTruthful' /\ NothingLost'
  <1>1. CatalogTruthful'
    BY DEF CatalogTruthful, OnMedium
  <1>2. NothingLost'
    BY DEF NothingLost
  <1> QED
    BY <1>1, <1>2

(* In the next state only c may be inside runDisc.                         *)
LEMMA RunnerFrame ==
    ASSUME TInv', NEW c \in Caller, run'[c] # Idle, Faithful(c)'
    PROVE  RunFaithful'
  BY DEF RunFaithful, TInv, OneRunner

(* With no caller inside runDisc there is nothing to be faithful about.    *)
LEMMA IdleFrame ==
    ASSUME \A c \in Caller : run'[c] = Idle
    PROVE  RunFaithful'
  BY DEF RunFaithful

(* The caller that fails was the only one inside runDisc.                  *)
LEMMA FailIdle ==
    ASSUME TInv, NEW c \in Caller, run[c].step \in Step, run' = [run EXCEPT ![c] = Idle]
    PROVE  \A d \in Caller : run'[d] = Idle
  BY RunnerFacts DEF TInv, TypeOK

(* Changing the job's state leaves its plans as they are.                  *)
LEMMA JobFrame ==
    ASSUME ParityEmpty, job \in Job, planning' = planning, NEW s, SetState(s)
    PROVE  ParityEmpty'
  <1>1. job'.plans = job.plans /\ job.state # "NONE"
    BY DEF SetState, Job, State
  <1> QED
    BY <1>1 DEF ParityEmpty

(* A step of caller c's runDisc that returned an error.                    *)
LEMMA FailSafe ==
    ASSUME SInv, NEW c \in Caller, run[c].step \in Step, Fail(c), planning' = planning,
           UNCHANGED <<disks, files, removed, media>>
    PROVE  ParityEmpty' /\ RunFaithful' /\ CatalogTruthful' /\ NothingLost'
  <1>1. job \in Job
    BY RunnerFacts DEF SInv
  <1>2. ParityEmpty'
    BY <1>1, JobFrame DEF Fail, SInv
  <1>3. RunFaithful'
    BY FailIdle, IdleFrame DEF Fail, SInv
  <1> QED
    BY <1>2, <1>3, CatalogFrame DEF SInv

-----------------------------------------------------------------------------
(* The conclusion of every lemma below: the conjuncts of SInv that TInv    *)
(* does not contain.                                                       *)
Safe == ParityEmpty /\ RunFaithful /\ CatalogTruthful /\ NothingLost

(* ContinueNextDisc's claim: the new locals say nothing yet, and the plan  *)
(* comes from the job.                                                     *)
LEMMA ClaimSafe ==
    ASSUME SInv, TInv', NEW c \in Caller, Claim(c)
    PROVE  Safe'
  <1>1. job \in Job /\ job.idx \in DOMAIN job.plans /\ job.plans[job.idx] \in DiscPlan
    BY DEF SInv, TInv, TypeOK, PlannerTypeOK, JobShape, Claim, NoJob, Job
  <1>2. ParityEmpty'
    BY <1>1, JobFrame DEF Claim, SInv
  <1>3. run'[c].step = "clear" /\ run'[c].plan = job.plans[job.idx]
    BY DEF Claim, SInv, TInv, TypeOK
  <1>4. run'[c].plan.role = "parity" => BucketPaths(run'[c].plan) = {}
    BY <1>1, <1>3 DEF SInv, ParityEmpty, NoFilesOnParity, BucketPaths, Claim
  <1>5. Faithful(c)'
    BY <1>3, <1>4 DEF Faithful, BeforeCommit, WithImage, Committing
  <1>6. RunFaithful'
    BY <1>3, <1>5, RunnerFrame DEF Idle
  <1> QED
    BY <1>2, <1>6, CatalogFrame DEF Safe, SInv, Claim, catalogVars

(* A step of runDisc that goes on.                                         *)
LEMMA ProceedControl ==
    ASSUME SInv, TInv', NEW c \in Caller, run[c].step \in Step,
           NEW r \in Run, run' = [run EXCEPT ![c] = r],
           job' = job \/ \E s \in Claimed : SetState(s),
           planning' = planning, Faithful(c)'
    PROVE  ParityEmpty' /\ RunFaithful'
  <1>1. job \in Job /\ run \in [Caller -> Run \cup {Idle}]
    BY RunnerFacts DEF SInv, TInv, TypeOK
  <1>2. ParityEmpty'
    BY <1>1, JobFrame DEF SInv, ParityEmpty
  <1>3. run'[c] # Idle
    BY <1>1 DEF Run, Idle, Step
  <1>4. RunFaithful'
    BY <1>3, RunnerFrame
  <1> QED
    BY <1>2, <1>4

(* A step of runDisc that goes on, adding media at most.                   *)
LEMMA ProceedSafe ==
    ASSUME SInv, TInv', NEW c \in Caller, run[c].step \in Step,
           NEW r \in Run, run' = [run EXCEPT ![c] = r],
           job' = job \/ \E s \in Claimed : SetState(s),
           planning' = planning, Faithful(c)',
           UNCHANGED <<disks, files, removed>>, media \subseteq media'
    PROVE  Safe'
  BY ProceedControl, CatalogFrame DEF Safe, SInv

(* The caller inside runDisc is faithful.                                  *)
LEMMA RunnerFaithful ==
    ASSUME SInv, NEW c \in Caller, run[c].step \in Step
    PROVE  /\ Faithful(c) /\ run[c] \in Run /\ job \in Job
           /\ run \in [Caller -> Run \cup {Idle}]
  BY RunnerFacts DEF SInv, RunFaithful, TInv, TypeOK

(* Clearing the spool precedes any claim about the image.                  *)
LEMMA ClearStaleSafe ==
    ASSUME SInv, TInv', NEW c \in Caller, ClearStale(c)
    PROVE  Safe'
  <1>1. run[c].step \in Step /\ run[c] \in Run /\ Faithful(c) /\ job \in Job
        /\ run \in [Caller -> Run \cup {Idle}]
    BY RunnerFaithful DEF ClearStale, Step
  <1> DEFINE r == [run[c] EXCEPT !.step = "pack"]
  <1>2. r \in Run /\ r.step = "pack" /\ r.plan = run[c].plan /\ run' = [run EXCEPT ![c] = r]
    BY <1>1 DEF ClearStale, Goto, Run, Step
  <1> HIDE DEF r
  <1>3. run'[c] = r
    BY <1>1, <1>2
  <1>4. Faithful(c)'
    BY <1>1, <1>2, <1>3 DEF Faithful, BeforeCommit, WithImage, Committing
  <1>5. \E s \in Claimed : SetState(s)
    BY DEF ClearStale, Claimed
  <1> QED
    BY <1>1, <1>2, <1>4, <1>5, ProceedSafe DEF ClearStale, catalogVars

(* WriteTar packs the content that is staged now, which is what Faithful   *)
(* says from here to the commit.                                           *)
LEMMA PackDataSafe ==
    ASSUME SInv, TInv', NEW c \in Caller, PackData(c)
    PROVE  Safe'
  <1>1. run[c].step \in Step /\ run[c] \in Run /\ Faithful(c) /\ job \in Job
        /\ run \in [Caller -> Run \cup {Idle}]
    BY RunnerFaithful DEF PackData, Step
  <1>2. CASE Packable(c)
    <2> DEFINE fs == {<<p, staging[p]>> : p \in BucketPaths(run[c].plan)}
    <2>1. run' = [run EXCEPT ![c] = [run[c] EXCEPT !.step = "parity",
                     !.image = [id |-> ID(c), xor |-> {}, files |-> fs]]]
      BY <1>1, <1>2 DEF PackData
    <2>2. /\ run'[c].step = "parity" /\ run'[c].plan = run[c].plan
          /\ run'[c].image.files = fs
      BY <1>1, <2>1 DEF Run
    <2>3. run' = [run EXCEPT ![c] = run'[c]] /\ run'[c] \in Run
      <3>1. run' \in [Caller -> Run \cup {Idle}] /\ run'[c] # Idle
        BY <2>2 DEF TInv, TypeOK, Idle
      <3> QED
        BY <1>1, <2>1, <3>1
    <2>4. Faithful(c)'
      BY <1>1, <2>2 DEF PackData, Faithful, BeforeCommit, WithImage, Committing
    <2>5. \E s \in Claimed : SetState(s)
      BY <1>2 DEF PackData, Claimed
    <2> QED
      BY <1>1, <2>3, <2>4, <2>5, ProceedSafe DEF PackData, catalogVars
  <1>3. CASE ~Packable(c)
    BY <1>1, <1>3, FailSafe DEF PackData, Safe, catalogVars
  <1> QED
    BY <1>2, <1>3

(* A parity disc has no bucket, so its image owes staging nothing.         *)
LEMMA PackParitySafe ==
    ASSUME SInv, TInv', NEW c \in Caller, PackParity(c)
    PROVE  Safe'
  <1>1. run[c].step \in Step /\ run[c] \in Run /\ Faithful(c) /\ job \in Job
        /\ run \in [Caller -> Run \cup {Idle}]
    BY RunnerFaithful DEF PackParity, Step
  <1> DEFINE members == GroupData(run[c].plan)
             xs == {[id |-> isos[d].id, files |-> isos[d].files] : d \in members}
  <1>2. CASE members \subseteq DOMAIN isos /\ members # {}
    <2>1. run' = [run EXCEPT ![c] = [run[c] EXCEPT !.step = "parity",
                     !.image = [id |-> ID(c), files |-> {}, xor |-> xs]]]
      BY <1>1, <1>2 DEF PackParity
    <2>2. run'[c].step = "parity" /\ run'[c].plan = run[c].plan
      BY <1>1, <2>1 DEF Run
    <2>3. run' = [run EXCEPT ![c] = run'[c]] /\ run'[c] \in Run
      <3>1. run' \in [Caller -> Run \cup {Idle}] /\ run'[c] # Idle
        BY <2>2 DEF TInv, TypeOK, Idle
      <3> QED
        BY <1>1, <2>1, <3>1
    <2>4. BucketPaths(run'[c].plan) = {}
      BY <1>1, <2>2 DEF PackParity, Faithful
    <2>5. Faithful(c)'
      BY <2>2, <2>4 DEF Faithful, BeforeCommit, WithImage, Committing
    <2>6. \E s \in Claimed : SetState(s)
      BY <1>2 DEF PackParity, Claimed
    <2> QED
      BY <1>1, <2>3, <2>5, <2>6, ProceedSafe DEF PackParity, catalogVars
  <1>3. CASE ~(members \subseteq DOMAIN isos /\ members # {})
    BY <1>1, <1>3, FailSafe DEF PackParity, Safe, catalogVars
  <1> QED
    BY <1>2, <1>3

(* par2create does not touch the image.                                    *)
LEMMA CreateParitySafe ==
    ASSUME SInv, TInv', NEW c \in Caller, CreateParity(c)
    PROVE  Safe'
  <1>1. run[c].step \in Step /\ run[c] \in Run /\ Faithful(c) /\ job \in Job
        /\ run \in [Caller -> Run \cup {Idle}]
    BY RunnerFaithful DEF CreateParity, Step
  <1>2. CASE Fail(c) /\ UNCHANGED vols
    BY <1>1, <1>2, FailSafe DEF CreateParity, Safe, catalogVars
  <1>3. CASE SetState("ISO") /\ Goto(c, "iso")
    <2> DEFINE r == [run[c] EXCEPT !.step = "iso"]
    <2>1. /\ r \in Run /\ run' = [run EXCEPT ![c] = r]
          /\ r.step = "iso" /\ r.plan = run[c].plan /\ r.image = run[c].image
      BY <1>1, <1>3 DEF CreateParity, Goto, Run, Step
    <2> HIDE DEF r
    <2>2. run'[c] = r
      BY <1>1, <2>1
    <2>3. Faithful(c)'
      BY <1>1, <2>1, <2>2 DEF CreateParity, Faithful, BeforeCommit, WithImage, Committing
    <2>4. \E s \in Claimed : SetState(s)
      BY <1>3 DEF CreateParity, Claimed
    <2> QED
      BY <1>1, <2>1, <2>3, <2>4, ProceedSafe DEF CreateParity, catalogVars
  <1> QED
    BY <1>2, <1>3 DEF CreateParity

(* From here on the spool holds the image of the locals.                   *)
LEMMA BuildISOSafe ==
    ASSUME SInv, TInv', NEW c \in Caller, BuildISO(c)
    PROVE  Safe'
  <1>1. run[c].step \in Step /\ run[c] \in Run /\ Faithful(c) /\ job \in Job
        /\ run \in [Caller -> Run \cup {Idle}]
    BY RunnerFaithful DEF BuildISO, Step
  <1> DEFINE r == [run[c] EXCEPT !.step = "burn"]
  <1>2. /\ r \in Run /\ run' = [run EXCEPT ![c] = r]
        /\ r.step = "burn" /\ r.plan = run[c].plan /\ r.image = run[c].image
    BY <1>1 DEF BuildISO, Goto, Run, Step
  <1> HIDE DEF r
  <1>3. run'[c] = r
    BY <1>1, <1>2
  <1>4. isos'[r.plan.id] = r.image
    BY <1>2 DEF BuildISO, Extend, ID
  <1>5. Faithful(c)'
    BY <1>1, <1>2, <1>3, <1>4 DEF BuildISO, Faithful, BeforeCommit, WithImage, Committing, ID
  <1>6. \E s \in Claimed : SetState(s)
    BY DEF BuildISO, Claimed
  <1> QED
    BY <1>1, <1>2, <1>5, <1>6, ProceedSafe DEF BuildISO, catalogVars

(* A dry run commits without a medium.                                     *)
LEMMA WriteDryRunSafe ==
    ASSUME SInv, TInv', NEW c \in Caller, WriteDryRun(c)
    PROVE  Safe'
  <1>1. run[c].step \in Step /\ run[c] \in Run /\ Faithful(c) /\ job \in Job
        /\ run \in [Caller -> Run \cup {Idle}]
    BY RunnerFaithful DEF WriteDryRun, Step
  <1> DEFINE r == [run[c] EXCEPT !.step = "disk"]
  <1>2. /\ r \in Run /\ run' = [run EXCEPT ![c] = r]
        /\ r.step = "disk" /\ r.plan = run[c].plan /\ r.image = run[c].image
    BY <1>1 DEF WriteDryRun, Goto, Run, Step
  <1> HIDE DEF r
  <1>3. run'[c] = r
    BY <1>1, <1>2
  <1>4. Faithful(c)'
    BY <1>1, <1>2, <1>3 DEF WriteDryRun, plannerVars, Faithful, BeforeCommit, WithImage,
                            Committing, ID, IsDryRun
  <1> QED
    BY <1>1, <1>2, <1>4, ProceedSafe DEF WriteDryRun, catalogVars, plannerVars

(* A good write puts the very image on a medium; a bad one leaves good     *)
(* FALSE.                                                                  *)
LEMMA WriteDiscSafe ==
    ASSUME SInv, TInv', NEW c \in Caller, WriteDisc(c)
    PROVE  Safe'
  <1>1. run[c].step \in Step /\ run[c] \in Run /\ Faithful(c) /\ job \in Job
        /\ run \in [Caller -> Run \cup {Idle}]
    BY RunnerFaithful DEF WriteDisc, Step
  <1>2. isos[ID(c)] = run[c].image
    BY <1>1 DEF WriteDisc, Faithful, WithImage
  <1>3. PICK good \in BOOLEAN :
          /\ run' = [run EXCEPT ![c].step = "verify", ![c].good = good]
          /\ media \subseteq media'
          /\ good => run[c].image \in media'
    BY <1>2 DEF WriteDisc
  <1> DEFINE r == [run[c] EXCEPT !.step = "verify", !.good = good]
  <1>4. /\ r \in Run /\ run' = [run EXCEPT ![c] = r] /\ r.good = good
        /\ r.step = "verify" /\ r.plan = run[c].plan /\ r.image = run[c].image
    BY <1>1, <1>3 DEF Run, Step
  <1> HIDE DEF r
  <1>5. run'[c] = r
    BY <1>1, <1>4
  <1>6. Faithful(c)'
    BY <1>1, <1>2, <1>3, <1>4, <1>5 DEF WriteDisc, Faithful, BeforeCommit, WithImage,
                                        Committing, ID
  <1>7. \E s \in Claimed : SetState(s)
    BY DEF WriteDisc, Claimed
  <1> QED
    BY <1>1, <1>3, <1>4, <1>6, <1>7, ProceedSafe DEF WriteDisc, catalogVars

(* Only a verified image goes on to commitDisc.                            *)
LEMMA VerifyBurnSafe ==
    ASSUME SInv, TInv', NEW c \in Caller, VerifyBurn(c)
    PROVE  Safe'
  <1>1. run[c].step \in Step /\ run[c] \in Run /\ Faithful(c) /\ job \in Job
        /\ run \in [Caller -> Run \cup {Idle}]
    BY RunnerFaithful DEF VerifyBurn, Step
  <1>2. CASE run[c].good
    <2> DEFINE r == [run[c] EXCEPT !.step = "disk"]
    <2>1. /\ r \in Run /\ run' = [run EXCEPT ![c] = r]
          /\ r.step = "disk" /\ r.plan = run[c].plan /\ r.image = run[c].image
      BY <1>1, <1>2 DEF VerifyBurn, Goto, Run, Step
    <2> HIDE DEF r
    <2>2. run'[c] = r
      BY <1>1, <2>1
    <2>3. Faithful(c)'
      BY <1>1, <1>2, <2>1, <2>2 DEF VerifyBurn, Faithful, BeforeCommit, WithImage, Committing,
                                    ID
    <2> QED
      BY <1>1, <1>2, <2>1, <2>3, ProceedSafe DEF VerifyBurn, catalogVars
  <1>3. CASE ~run[c].good
    BY <1>1, <1>3, FailSafe DEF VerifyBurn, Safe, catalogVars
  <1> QED
    BY <1>2, <1>3

-----------------------------------------------------------------------------
(* The new disk row has a fresh key, so no older file row changes its      *)
(* meaning.                                                                *)
LEMMA InsertDiskRowSafe ==
    ASSUME SInv, TInv', NEW c \in Caller, InsertDiskRow(c)
    PROVE  Safe'
  <1>1. run[c].step \in Step /\ run[c] \in Run /\ Faithful(c) /\ job \in Job
        /\ run \in [Caller -> Run \cup {Idle}]
    BY RunnerFaithful DEF InsertDiskRow, Step
  <1>2. CASE InsertDisk(ID(c), DiskRowOf(c)) /\ UNCHANGED job
               /\ run' = [run EXCEPT ![c].step = "hash", ![c].todo = BucketPaths(run[c].plan)]
    <2> DEFINE r == [run[c] EXCEPT !.step = "hash", !.todo = BucketPaths(run[c].plan)]
    <2>1. /\ r \in Run /\ run' = [run EXCEPT ![c] = r]
      <3>1. BucketPaths(run[c].plan) \in SUBSET Path
        BY <1>1, RunnerFacts DEF SInv
      <3> QED
        BY <1>1, <1>2, <3>1 DEF Run, Step
    <2>2. /\ r.step = "hash" /\ r.plan = run[c].plan /\ r.image = run[c].image
          /\ r.todo = BucketPaths(run[c].plan)
      BY <1>1 DEF Run
    <2> HIDE DEF r
    <2>3. run'[c] = r
      BY <1>1, <2>1
    <2>4. /\ ID(c) \notin DOMAIN disks /\ DOMAIN disks' = DOMAIN disks \cup {ID(c)}
          /\ \A d \in DOMAIN disks : disks'[d] = disks[d]
          /\ disks'[ID(c)].iso = run[c].image
      BY <1>2 DEF InsertDisk, Extend, DiskRowOf
    <2>5. disks'[ID(c)].dry <=> IsDryRun
      BY <1>2 DEF InsertDisk, Extend, DiskRowOf
    <2>6. Faithful(c)'
      BY <1>1, <1>2, <2>2, <2>3, <2>4, <2>5
         DEF InsertDiskRow, Faithful, BeforeCommit, WithImage, Committing, ID, IsDryRun, OwnRow
    <2>7. ParityEmpty' /\ RunFaithful'
      BY <1>1, <1>2, <2>1, <2>6, ProceedControl DEF InsertDiskRow
    <2>8. CatalogTruthful'
      BY <2>4 DEF InsertDiskRow, SInv, CatalogTruthful, OnMedium
    <2>9. NothingLost'
      BY <2>4 DEF InsertDiskRow, SInv, NothingLost
    <2> QED
      BY <2>7, <2>8, <2>9 DEF Safe
  <1>3. CASE Fail(c) /\ UNCHANGED disks
    BY <1>1, <1>3, FailSafe DEF InsertDiskRow, Safe
  <1> QED
    BY <1>2, <1>3 DEF InsertDiskRow

(* Nobody edited the share, so the hash is that of the packed content.     *)
LEMMA HashStagedSafe ==
    ASSUME SInv, TInv', NEW c \in Caller, HashStaged(c)
    PROVE  Safe'
  <1>1. run[c].step \in Step /\ run[c] \in Run /\ Faithful(c) /\ job \in Job
        /\ run \in [Caller -> Run \cup {Idle}]
    BY RunnerFaithful DEF HashStaged, Step
  <1>2. PICK p \in run[c].todo :
          IF p \in Staged
          THEN /\ run' = [run EXCEPT ![c].step = "consume", ![c].file = p,
                                     ![c].hash = staging[p]]
               /\ UNCHANGED job
          ELSE Fail(c)
    BY DEF HashStaged
  <1>3. CASE p \in Staged
    <2> DEFINE r == [run[c] EXCEPT !.step = "consume", !.file = p, !.hash = staging[p]]
    <2>1. p \in Nat /\ staging[p] \in Content
      BY <1>3, PathAssumption DEF Staged, SInv, TInv, TypeOK, PlannerTypeOK
    <2>2. r \in Run /\ run' = [run EXCEPT ![c] = r]
      BY <1>1, <1>2, <1>3, <2>1 DEF Run, Step
    <2>3. /\ r.step = "consume" /\ r.plan = run[c].plan /\ r.image = run[c].image
          /\ r.todo = run[c].todo /\ r.file = p /\ r.hash = staging[p]
      BY <1>1 DEF Run
    <2> HIDE DEF r
    <2>4. run'[c] = r
      BY <1>1, <2>2
    <2>5. Faithful(c)'
      BY <1>1, <1>2, <1>3, <2>3, <2>4
         DEF HashStaged, Faithful, BeforeCommit, WithImage, Committing, ID, IsDryRun,
             OwnRow, catalogVars
    <2> QED
      BY <1>1, <1>2, <1>3, <2>2, <2>5, ProceedSafe DEF HashStaged, catalogVars
  <1>4. CASE p \notin Staged
    BY <1>1, <1>2, <1>4, FailSafe DEF HashStaged, Safe, catalogVars
  <1> QED
    BY <1>3, <1>4

(* Tags do not matter to truth or loss.                                    *)
LEMMA ConsumeMetadataSafe ==
    ASSUME SInv, TInv', NEW c \in Caller, ConsumeMetadata(c)
    PROVE  Safe'
  <1>1. run[c].step \in Step /\ run[c] \in Run /\ Faithful(c) /\ job \in Job
        /\ run \in [Caller -> Run \cup {Idle}]
    BY RunnerFaithful DEF ConsumeMetadata, Step
  <1> DEFINE b == run[c].file \in metadata
             r == [run[c] EXCEPT !.step = "insert", !.tagged = b]
  <1>2. b \in BOOLEAN
    OBVIOUS
  <1>3. run' = [run EXCEPT ![c] = r]
    BY <1>1 DEF ConsumeMetadata
  <1> HIDE DEF b
  <1>4. r \in Run
    BY <1>1, <1>2 DEF Run, Step
  <1>5. /\ r.step = "insert" /\ r.plan = run[c].plan /\ r.image = run[c].image
        /\ r.todo = run[c].todo /\ r.file = run[c].file /\ r.hash = run[c].hash
    BY <1>1 DEF Run
  <1> HIDE DEF r
  <1>6. run'[c] = r
    BY <1>1, <1>3
  <1>7. Faithful(c)'
    BY <1>1, <1>5, <1>6
       DEF ConsumeMetadata, plannerVars, Faithful, BeforeCommit, WithImage, Committing, ID,
           IsDryRun, OwnRow
  <1> QED
    BY <1>1, <1>3, <1>4, <1>7, ProceedSafe DEF ConsumeMetadata, plannerVars

(* The new file row tells the truth: disk row, image and medium agree.     *)
LEMMA InsertFileRowSafe ==
    ASSUME SInv, TInv', NEW c \in Caller, InsertFileRow(c)
    PROVE  Safe'
  <1>1. run[c].step \in Step /\ run[c] \in Run /\ Faithful(c) /\ job \in Job
        /\ run \in [Caller -> Run \cup {Idle}]
    BY RunnerFaithful DEF InsertFileRow, Step
  <1> DEFINE r == [run[c] EXCEPT !.step = "remove"]
  <1>2. r \in Run /\ run' = [run EXCEPT ![c] = r]
    BY <1>1 DEF InsertFileRow, Goto, Run, Step
  <1>3. /\ r.step = "remove" /\ r.plan = run[c].plan /\ r.image = run[c].image
        /\ r.todo = run[c].todo /\ r.file = run[c].file /\ r.hash = run[c].hash
    BY <1>1 DEF Run
  <1> HIDE DEF r
  <1>4. run'[c] = r
    BY <1>1, <1>2
  <1> DEFINE row == [disk |-> ID(c), path |-> run[c].file, hash |-> run[c].hash,
                     tagged |-> run[c].tagged]
  <1>5. files' = files \cup {row}
    BY DEF InsertFileRow, InsertFile
  <1>6. row.disk = ID(c) /\ row.path = run[c].file /\ row.hash = run[c].hash
    OBVIOUS
  <1> HIDE DEF row
  <1>7. Faithful(c)'
    BY <1>1, <1>3, <1>4, <1>5, <1>6
       DEF InsertFileRow, plannerVars, Faithful, BeforeCommit, WithImage, Committing, ID,
           IsDryRun, OwnRow
  <1>8. ParityEmpty' /\ RunFaithful'
    BY <1>1, <1>2, <1>7, ProceedControl DEF InsertFileRow, plannerVars
  <1>9. /\ row.disk \in DOMAIN disks
        /\ <<row.path, row.hash>> \in disks[row.disk].iso.files
        /\ OnMedium(row.disk)
    BY <1>1, <1>6 DEF InsertFileRow, InsertFile, Faithful, Committing, OwnRow, OnMedium
  <1>10. CatalogTruthful'
    BY <1>5, <1>9 DEF InsertFileRow, SInv, CatalogTruthful, OnMedium
  <1>11. NothingLost'
    BY <1>5 DEF InsertFileRow, SInv, NothingLost
  <1> QED
    BY <1>8, <1>10, <1>11 DEF Safe

(* What is removed from staging is in the row just inserted.               *)
LEMMA RemoveStagedSafe ==
    ASSUME SInv, TInv', NEW c \in Caller, RemoveStaged(c)
    PROVE  Safe'
  <1>1. run[c].step \in Step /\ run[c] \in Run /\ Faithful(c) /\ job \in Job
        /\ run \in [Caller -> Run \cup {Idle}]
    BY RunnerFaithful DEF RemoveStaged, Step
  <1> DEFINE p == run[c].file
  <1>2. CASE p \in Staged
    <2> DEFINE r == [run[c] EXCEPT !.step = "hash", !.todo = @ \ {p}]
    <2>1. r \in Run /\ run' = [run EXCEPT ![c] = r]
      BY <1>1, <1>2 DEF RemoveStaged, Run, Step
    <2>2. /\ r.step = "hash" /\ r.plan = run[c].plan /\ r.image = run[c].image
          /\ r.todo = run[c].todo \ {p}
      BY <1>1 DEF Run
    <2> HIDE DEF r
    <2>3. run'[c] = r
      BY <1>1, <2>1
    <2>4. \A q \in run[c].todo \ {p} : staging'[q] = staging[q]
      BY <1>1, <1>2 DEF RemoveStaged, SInv, TInv, TypeOK, PlannerTypeOK, Run
    <2>5. Faithful(c)'
      BY <1>1, <1>2, <2>2, <2>3, <2>4
         DEF RemoveStaged, Faithful, BeforeCommit, WithImage, Committing, ID, IsDryRun,
             OwnRow, catalogVars
    <2>6. ParityEmpty' /\ RunFaithful'
      BY <1>1, <1>2, <2>1, <2>5, ProceedControl DEF RemoveStaged
    <2>7. CatalogTruthful'
      BY <1>2 DEF RemoveStaged, catalogVars, SInv, CatalogTruthful, OnMedium
    <2> DEFINE x == [path |-> p, content |-> staging[p], dry |-> IsDryRun]
    <2>8. removed' = removed \cup {x}
      BY <1>2 DEF RemoveStaged
    <2>9. x.path = p /\ x.content = staging[p] /\ (x.dry <=> IsDryRun)
      OBVIOUS
    <2> HIDE DEF x
    <2>10. ASSUME IsDryRun PROVE NothingLost'
      BY <2>8, <2>9, <2>10 DEF RemoveStaged, catalogVars, SInv, NothingLost
    <2>11. ASSUME ~IsDryRun PROVE NothingLost'
      <3>1. PICK row \in files : row.disk = ID(c) /\ row.path = p /\ row.hash = staging[p]
        BY <1>1, <2>11 DEF RemoveStaged, Faithful
      <3>2. /\ ID(c) \in DOMAIN disks /\ disks[ID(c)].iso = run[c].image
            /\ ~disks[ID(c)].dry
            /\ <<p, staging[p]>> \in run[c].image.files
            /\ run[c].image \in media
        BY <1>1, <2>11 DEF RemoveStaged, Faithful, Committing, OwnRow
      <3>3. /\ row.path = x.path /\ row.hash = x.content
            /\ row.disk \in DOMAIN disks /\ ~disks[row.disk].dry
            /\ <<x.path, x.content>> \in disks[row.disk].iso.files
            /\ disks[row.disk].iso \in media
        BY <2>9, <3>1, <3>2
      <3> QED
        BY <2>8, <3>1, <3>3 DEF RemoveStaged, catalogVars, SInv, NothingLost
    <2> QED
      BY <2>6, <2>7, <2>10, <2>11 DEF Safe
  <1>3. CASE p \notin Staged
    BY <1>1, <1>3, FailSafe DEF RemoveStaged, Safe, catalogVars
  <1> QED
    BY <1>2, <1>3

(* Cleaning the spool and advancing the job touch no row and no medium.    *)
LEMMA FinishDiscSafe ==
    ASSUME SInv, TInv', NEW c \in Caller, FinishDisc(c)
    PROVE  Safe'
  <1>1. run[c].step \in Step /\ job \in Job
    BY RunnerFaithful DEF FinishDisc, Step
  <1>2. RunFaithful'
    BY <1>1, FailIdle, IdleFrame DEF FinishDisc, SInv
  <1>3. job'.plans = job.plans /\ job.state # "NONE" /\ planning' = planning
    BY <1>1 DEF FinishDisc, Job, State
  <1>4. ParityEmpty'
    BY <1>3 DEF SInv, ParityEmpty
  <1> QED
    BY <1>2, <1>4, CatalogFrame DEF Safe, SInv, FinishDisc, catalogVars

(* A cut-short dry-run copy fails the disc before any row is inserted.     *)
LEMMA DryRunCopyFailsSafe ==
    ASSUME SInv, TInv', NEW c \in Caller, DryRunCopyFails(c)
    PROVE  Safe'
  <1>1. run[c].step \in Step
    BY DEF DryRunCopyFails, Step
  <1> QED
    BY <1>1, FailSafe DEF DryRunCopyFails, Safe, catalogVars

(* A fault at any step ends runDisc and touches no row and no medium.      *)
LEMMA StepFailsSafe ==
    ASSUME SInv, TInv', NEW c \in Caller, StepFails(c)
    PROVE  Safe'
  <1>1. run[c].step \in Step
    BY ModeAssumption DEF StepFails
  <1> QED
    BY <1>1, FailSafe DEF StepFails, Safe, catalogVars

(* Every step of runDisc, by cases.                                        *)
LEMMA RunStepSafe ==
    ASSUME SInv, TInv', NEW c \in Caller, RunStep(c)
    PROVE  Safe'
  BY ClearStaleSafe, PackDataSafe, PackParitySafe, CreateParitySafe, BuildISOSafe,
     WriteDryRunSafe, WriteDiscSafe, VerifyBurnSafe, InsertDiskRowSafe, HashStagedSafe,
     ConsumeMetadataSafe, InsertFileRowSafe, RemoveStagedSafe, FinishDiscSafe DEF RunStep

-----------------------------------------------------------------------------
(* Start and planJob: nobody is inside runDisc, and the catalog rows that  *)
(* the invariant speaks of do not change.                                  *)
LEMMA PlanningSafe ==
    ASSUME SInv, planning.phase # "idle" \/ job.state \in {"NONE", "DONE", "FAILED"},
           UNCHANGED <<disks, files, removed, media, run>>, ParityEmpty'
    PROVE  Safe'
  <1>1. \A c \in Caller : run[c] = Idle
    BY DEF SInv, TInv, JobShape, OneRunner, Claimed
  <1>2. RunFaithful'
    BY <1>1, IdleFrame
  <1> QED
    BY <1>2, CatalogFrame DEF Safe, SInv

(* Start begins to plan with nothing planned.                              *)
LEMMA StartSafe ==
    ASSUME SInv, NEW opts \in Options, Start(opts)
    PROVE  Safe'
  <1>1. /\ planning'.plans = <<>> /\ planning'.withGroups = <<>> /\ UNCHANGED job
    BY DEF Start, BeginStart
  <1>2. ParityEmpty'
    BY <1>1 DEF SInv, ParityEmpty, NoFilesOnParity
  <1> QED
    BY <1>2, PlanningSafe DEF Start, BeginStart, catalogVars, pipelineVars

(* PlanDisc plans only data discs.                                         *)
LEMMA PlanDiscSafe ==
    ASSUME SInv, PlanDisc, UNCHANGED pipelineVars
    PROVE  Safe'
  <1>1. planning \in Planning
    BY PlanningType DEF PlanDisc, SInv
  <1> DEFINE d == [id |-> NewID, role |-> "data", group |-> NoGroup, slot |-> 0,
                   bucket |-> planning.buckets[Len(planning.plans) + 1]]
  <1>2. planning' = [planning EXCEPT !.allocated = @ + 1, !.plans = Append(@, d)]
    BY DEF PlanDisc
  <1>3. d.role = "data"
    OBVIOUS
  <1> HIDE DEF d
  <1>4. /\ planning'.plans = Append(planning.plans, d)
        /\ planning'.withGroups = planning.withGroups
        /\ planning.plans \in Seq(DiscPlan)
    BY <1>1, <1>2 DEF Planning
  <1>5. \A i \in DOMAIN planning'.plans : planning'.plans[i].role = "data"
    BY <1>3, <1>4 DEF SInv, ParityEmpty, PlanDisc
  <1>6. ParityEmpty'
    BY <1>4, <1>5 DEF SInv, ParityEmpty, PlanDisc
  <1> QED
    BY <1>6, PlanningSafe DEF PlanDisc, catalogVars, pipelineVars

(* The members of a group are data discs; its parity disc comes after them *)
(* with an empty bucket.                                                   *)
LEMMA PlanGroupSafe ==
    ASSUME SInv, PlanGroup, UNCHANGED pipelineVars
    PROVE  Safe'
  <1>1. planning \in Planning /\ groups \in Seq(Nat)
    BY PlanningType DEF PlanGroup, SInv
  <1>2. Members \in Seq(DiscPlan) /\ Len(Members) = GroupEnd - planning.start
    BY <1>1, MembersType DEF PlanGroup
  <1>3. ASSUME NEW i \in DOMAIN Members PROVE Members[i].role = "data"
    <2>1. /\ GroupEnd \in Nat /\ planning.start \in Nat /\ GroupEnd <= Len(planning.plans)
          /\ planning.plans \in Seq(DiscPlan)
      BY <1>1, GroupEndType DEF PlanGroup, Planning
    <2>2. i \in 1..(GroupEnd - planning.start)
      BY <1>2, <2>1
    <2>3. planning.start + i \in DOMAIN planning.plans
      BY <2>1, <2>2
    <2>4. planning.plans[planning.start + i].role = "data"
      BY <2>3 DEF SInv, ParityEmpty, PlanGroup
    <2>5. planning.plans[planning.start + i] \in DiscPlan
      BY <2>1, <2>3
    <2> QED
      BY <2>2, <2>4, <2>5 DEF Members, DiscPlan
  <1>4. planning' = [planning EXCEPT !.phase = "parity", !.withGroups = @ \o Members]
    BY DEF PlanGroup, Members
  <1>5. /\ planning'.plans = planning.plans
        /\ planning'.withGroups = planning.withGroups \o Members
        /\ planning.withGroups \in Seq(DiscPlan)
    BY <1>1, <1>4 DEF Planning
  <1>6. NoFilesOnParity(planning.withGroups \o Members)
    <2>1. NoFilesOnParity(planning.withGroups)
      BY DEF SInv, ParityEmpty, PlanGroup
    <2> QED
      BY <1>2, <1>3, <1>5, <2>1 DEF NoFilesOnParity
  <1>7. ParityEmpty'
    BY <1>5, <1>6 DEF SInv, ParityEmpty, PlanGroup
  <1> QED
    BY <1>7, PlanningSafe DEF PlanGroup, pipelineVars

(* planJob's parity discs carry no files.                                  *)
LEMMA PlanParitySafe ==
    ASSUME SInv, PlanParity, UNCHANGED pipelineVars
    PROVE  Safe'
  <1>1. planning \in Planning
    BY PlanningType DEF PlanParity, SInv
  <1> DEFINE d == [id |-> NewID, role |-> "parity", group |-> Len(groups),
                   slot |-> ParitySlot, bucket |-> EmptyBucket]
  <1>2. planning' = [planning EXCEPT
                       !.phase = "group", !.allocated = @ + 1,
                       !.start = planning.start + EffectiveGroupSize(planning.opts),
                       !.withGroups = Append(@, d)]
    BY DEF PlanParity
  <1>3. d.bucket.files = {}
    BY DEF EmptyBucket
  <1> HIDE DEF d
  <1>4. /\ planning'.plans = planning.plans
        /\ planning'.withGroups = Append(planning.withGroups, d)
        /\ planning.withGroups \in Seq(DiscPlan)
    BY <1>1, <1>2 DEF Planning
  <1>5. NoFilesOnParity(Append(planning.withGroups, d))
    BY <1>3, <1>4 DEF SInv, ParityEmpty, PlanParity, NoFilesOnParity
  <1>6. ParityEmpty'
    BY <1>4, <1>5 DEF SInv, ParityEmpty, PlanParity
  <1> QED
    BY <1>6, PlanningSafe DEF PlanParity, catalogVars, pipelineVars

(* Every step of planJob, by cases.                                        *)
LEMMA PlanStepSafe ==
    ASSUME SInv, PlanStep
    PROVE  Safe'
  <1>1. UNCHANGED pipelineVars
    BY DEF PlanStep
  <1>2. CASE PackFile
    <2>1. planning \in Planning
      BY <1>2, PlanningType DEF PackFile, SInv
    <2>2. planning'.plans = planning.plans /\ planning'.withGroups = planning.withGroups
      BY <1>2, <2>1 DEF PackFile, Planning
    <2>3. ParityEmpty'
      BY <1>2, <2>2 DEF SInv, ParityEmpty, PackFile
    <2> QED
      BY <1>1, <1>2, <2>3, PlanningSafe DEF PackFile, catalogVars, pipelineVars
  <1>3. CASE PackLast \/ GroupsComplete
    <2>1. planning \in Planning
      BY <1>3, PlanningType DEF PackLast, GroupsComplete, SInv
    <2>2. planning'.plans = planning.plans /\ planning'.withGroups = planning.withGroups
      BY <1>3, <2>1 DEF PackLast, GroupsComplete, Planning
    <2>3. ParityEmpty'
      BY <1>3, <2>2 DEF SInv, ParityEmpty, PackLast, GroupsComplete
    <2> QED
      BY <1>1, <1>3, <2>3, PlanningSafe DEF PackLast, GroupsComplete, catalogVars, pipelineVars
  <1>4. CASE PlansComplete
    <2>1. planning \in Planning
      BY <1>4, PlanningType DEF PlansComplete, SInv
    <2>2. planning'.plans = planning.plans
          /\ planning'.withGroups \in {planning.withGroups, planning.plans}
      BY <1>4, <2>1 DEF PlansComplete, Planning
    <2>3. ParityEmpty'
      BY <1>4, <2>2 DEF SInv, ParityEmpty, PlansComplete, NoFilesOnParity
    <2> QED
      BY <1>1, <1>4, <2>3, PlanningSafe DEF PlansComplete, catalogVars, pipelineVars
  <1>5. CASE FinishStart
    <2>1. ParityEmpty'
      BY <1>5 DEF SInv, ParityEmpty, FinishStart, NoPlanning
    <2> QED
      BY <1>1, <1>5, <2>1, PlanningSafe DEF FinishStart, catalogVars, pipelineVars
  <1> QED
    BY <1>1, <1>2, <1>3, <1>4, <1>5, PlanDiscSafe, PlanGroupSafe, PlanParitySafe DEF PlanStep

(* Abandoning a plan changes nothing but the plan.                         *)
LEMMA PlanningFailsSafe ==
    ASSUME SInv, PlanningFails
    PROVE  Safe'
  <1>1. ParityEmpty'
    BY DEF PlanningFails, PlanFails, SInv, ParityEmpty, NoPlanning
  <1> QED
    BY <1>1, PlanningSafe DEF PlanningFails, PlanFails, catalogVars

(* Retry changes only the job's state.                                     *)
LEMMA RetrySafe ==
    ASSUME SInv, Retry
    PROVE  Safe'
  <1>1. job \in Job
    BY DEF Retry, SInv, TInv, TypeOK, PlannerTypeOK, NoJob
  <1>2. ParityEmpty'
    BY <1>1, JobFrame DEF Retry, SInv
  <1> QED
    BY <1>2, PlanningSafe DEF Retry, catalogVars, pipelineVars

(* A crash loses the job and the locals, no row, no medium and no staged   *)
(* file.                                                                   *)
LEMMA CrashSafe ==
    ASSUME SInv, Crash
    PROVE  Safe'
  <1>1. RunFaithful'
    BY IdleFrame DEF Crash
  <1>2. ParityEmpty'
    BY DEF Crash, ParityEmpty, NoJob, NoPlanning
  <1> QED
    BY <1>1, <1>2, CatalogFrame DEF Crash, Safe, SInv, catalogVars

(* The share is edited while no disc is being burned.                      *)
LEMMA EditSafe ==
    ASSUME SInv, Edit, ~EditsDuringBurn
    PROVE  Safe'
  <1>1. RunFaithful'
    BY IdleFrame DEF Edit
  <1>2. ParityEmpty'
    BY DEF Edit, SInv, ParityEmpty
  <1> QED
    BY <1>1, <1>2, CatalogFrame DEF Edit, Safe, SInv, catalogVars

(* Steps that touch nothing the invariant speaks of.                       *)
LEMMA UnrelatedSafe ==
    ASSUME SInv, UNCHANGED <<disks, files, plannerVars, run, isos, media, removed>>
    PROVE  Safe'
  <1>1. RunFaithful'
    BY DEF SInv, RunFaithful, Faithful, OwnRow, ID, IsDryRun, plannerVars
  <1>2. ParityEmpty'
    BY DEF SInv, ParityEmpty, plannerVars
  <1> QED
    BY <1>1, <1>2, CatalogFrame DEF Safe, SInv

-----------------------------------------------------------------------------
(* The pipeline beside the other components, which share the catalog and   *)
(* the dry-run directory.                                                  *)
burnVars == <<plannerVars, run, isos, vols, media, removed, edits>>

LEMMA BesideType ==
    ASSUME TInv, UNCHANGED burnVars, CatalogTypeOK',
           DOMAIN dryRun' \subseteq DiskID, dryRun' \in [DOMAIN dryRun' -> Image \cup {Corrupt}],
           faults' \in 0..MaxFaults
    PROVE  TInv'
  <1> USE DEF burnVars, plannerVars
  <1>1. PipelineTypeOK'
    BY TypeParts DEF TInv, PipelineTypeOK
  <1>2. PlannerTypeOK' /\ PlanShape' /\ JobShape'
    BY DEF TInv, TypeOK, PlannerTypeOK, PlanShape, JobShape
  <1>3. RunShape' /\ OneRunner'
    BY DEF TInv, RunShape, OneRunner, ID
  <1> QED
    BY <1>1, <1>2, <1>3 DEF TInv, TypeOK, PipelineTypeOK

(* Somebody deletes rows of dry runs, and no disk row that a file row      *)
(* still names.                                                            *)
LEMMA BesideSafe ==
    ASSUME SInv, UNCHANGED burnVars,
           DOMAIN disks' \subseteq DOMAIN disks,
           \A d \in DOMAIN disks' : disks'[d] = disks[d],
           \A d \in DOMAIN disks \ DOMAIN disks' : disks[d].dry,
           files' \subseteq files,
           \A r \in files \ files' : r.disk \in DOMAIN disks => disks[r.disk].dry,
           \A r \in files' : r.disk \in DOMAIN disks'
    PROVE  Safe'
  <1> USE DEF burnVars, plannerVars
  <1>1. ParityEmpty'
    BY DEF SInv, ParityEmpty
  <1>2. CatalogTruthful'
    BY DEF SInv, CatalogTruthful, OnMedium
  <1>3. NothingLost'
    <2> SUFFICES ASSUME NEW x \in removed, ~x.dry
                 PROVE  \E r \in files' : /\ r.path = x.path /\ r.hash = x.content
                                           /\ r.disk \in DOMAIN disks' /\ ~disks'[r.disk].dry
                                           /\ <<x.path, x.content>> \in disks'[r.disk].iso.files
                                           /\ disks'[r.disk].iso \in media
      BY DEF NothingLost
    <2>1. PICK r \in files : /\ r.path = x.path /\ r.hash = x.content
                             /\ r.disk \in DOMAIN disks /\ ~disks[r.disk].dry
                             /\ <<x.path, x.content>> \in disks[r.disk].iso.files
                             /\ disks[r.disk].iso \in media
      BY DEF SInv, NothingLost
    <2>2. r \in files' /\ r.disk \in DOMAIN disks' /\ disks'[r.disk] = disks[r.disk]
      BY <2>1
    <2> QED
      BY <2>1, <2>2
  <1>4. ASSUME NEW c \in Caller, run[c] # Idle PROVE Faithful(c)'
    <2>1. Faithful(c)
      BY <1>4 DEF SInv, RunFaithful
    <2>2. run[c].step \in Committing => OwnRow(c)'
      BY <2>1 DEF Faithful, OwnRow, ID, IsDryRun
    <2>3. run[c].step = "remove" /\ ~IsDryRun =>
            \E r \in files' : r.disk = ID(c) /\ r.path = run[c].file /\ r.hash = run[c].hash
      <3> SUFFICES ASSUME run[c].step = "remove", ~IsDryRun
                   PROVE  \E r \in files' : /\ r.disk = ID(c) /\ r.path = run[c].file
                                             /\ r.hash = run[c].hash
        OBVIOUS
      <3>1. PICK r \in files : /\ r.disk = ID(c) /\ r.path = run[c].file
                               /\ r.hash = run[c].hash
        BY <2>1 DEF Faithful
      <3>2. r.disk \in DOMAIN disks => ~disks[r.disk].dry
        BY <2>1, <3>1 DEF Faithful, Committing, OwnRow
      <3>3. r.disk \in DOMAIN disks
        BY DEF SInv, CatalogTruthful
      <3> QED
        BY <3>1, <3>2, <3>3
    <2> QED
      BY <2>1, <2>2, <2>3 DEF Faithful, BeforeCommit, Committing, ID, IsDryRun
  <1>5. RunFaithful'
    BY <1>4 DEF RunFaithful
  <1> QED
    BY <1>1, <1>2, <1>3, <1>5 DEF Safe

(* The insert of a file row finds the disk row gone, and the disc fails.   *)
LEMMA RefusedType ==
    ASSUME TInv, NEW c \in Caller, run[c].step = "insert", Fail(c),
           UNCHANGED <<catalogVars, staging, planning, isos, vols, media, dryRun,
                       removed, faults, edits>>
    PROVE  TInv'
  <1>1. run[c].step \in Step
    BY DEF Step
  <1> QED
    BY <1>1, FailFrame, DataFrame DEF TInv

LEMMA RefusedSafe ==
    ASSUME SInv, NEW c \in Caller, run[c].step = "insert", Fail(c),
           UNCHANGED <<catalogVars, planning, media, removed>>
    PROVE  Safe'
  <1>1. run[c].step \in Step
    BY DEF Step
  <1> QED
    BY <1>1, FailSafe DEF Safe, catalogVars

-----------------------------------------------------------------------------
(* The safety invariant holds initially.                                   *)
LEMMA SInvInit == Init => SInv
  BY TInvInit DEF Init, CatalogInit, PlannerInit, SInv, ParityEmpty, RunFaithful,
                  CatalogTruthful, NothingLost, NoJob, NoPlanning

(* Every step preserves the safety invariant when the share is not edited  *)
(* during a burn.                                                          *)
LEMMA SInvNext ==
    ASSUME ~EditsDuringBurn
    PROVE  SInv /\ [Next]_vars => SInv'
  <1> SUFFICES ASSUME SInv, [Next]_vars PROVE SInv'
    OBVIOUS
  <1>1. TInv'
    BY TInvNext DEF SInv
  <1>2. Safe'
    <2>1. ASSUME NEW opts \in Options, Start(opts) PROVE Safe'
      BY <2>1, StartSafe
    <2>2. CASE PlanStep \/ PlanningFails \/ Retry \/ Crash
      BY <2>2, PlanStepSafe, PlanningFailsSafe, RetrySafe, CrashSafe
    <2>3. ASSUME NEW c \in Caller,
                 Claim(c) \/ RunStep(c) \/ DryRunCopyFails(c) \/ StepFails(c)
          PROVE  Safe'
      BY <1>1, <2>3, ClaimSafe, RunStepSafe, DryRunCopyFailsSafe, StepFailsSafe
    <2>4. ASSUME NEW p \in Path, ApplyMetadata(p) PROVE Safe'
      BY <2>4, UnrelatedSafe DEF ApplyMetadata
    <2>5. CASE Edit
      BY <2>5, EditSafe
    <2>6. CASE UNCHANGED vars
      BY <2>6, UnrelatedSafe DEF vars, catalogVars, pipelineVars
    <2> QED
      BY <2>1, <2>2, <2>3, <2>4, <2>5, <2>6 DEF Next, Put, Delete, Move
  <1> QED
    BY <1>1, <1>2 DEF SInv, Safe

(* The safety invariant holds in every reachable state.                    *)
LEMMA SafetyInvariant ==
    ASSUME ~EditsDuringBurn
    PROVE  Spec => []SInv
  <1>1. Init => SInv
    BY SInvInit
  <1>2. SInv /\ [Next]_vars => SInv'
    BY SInvNext
  <1> QED
    BY <1>1, <1>2, PTL DEF Spec

(* While the share is not edited during a burn, every file row names a     *)
(* catalogued disc whose image holds that content and, except in a dry     *)
(* run, is on a medium that was read back: whatever fails, crashes or is   *)
(* retried in runDisc and commitDisc.                                      *)
THEOREM CatalogIsTruthful ==
    ASSUME ~EditsDuringBurn
    PROVE  Spec => []CatalogTruthful
  <1>1. SInv => CatalogTruthful
    BY DEF SInv
  <1>2. Spec => []SInv
    BY SafetyInvariant
  <1> QED
    BY <1>1, <1>2, PTL

(* Under the same assumption commitDisc's os.Remove never deletes the only *)
(* copy of a file: what a real burn removed from staging is on a verified  *)
(* medium, and in the catalog with that content.                           *)
THEOREM NoArchivedFileLost ==
    ASSUME ~EditsDuringBurn
    PROVE  Spec => []NothingLost
  <1>1. SInv => NothingLost
    BY DEF SInv
  <1>2. Spec => []SInv
    BY SafetyInvariant
  <1> QED
    BY <1>1, <1>2, PTL

-----------------------------------------------------------------------------
(* A TOC carries its disc's ID, a tar has one member per path, and only    *)
(* parity discs carry an XOR.                                              *)
WellMade(image, id, role) ==
    /\ image.id = id
    /\ OneContentPerPath(image.files)
    /\ role = "data" => image.xor = {}

MadeInv ==
    /\ \A d \in DOMAIN disks : WellMade(disks[d].iso, d, disks[d].role)
    /\ \A c \in Caller : run[c] # Idle => WellMade(run[c].image, ID(c), run[c].plan.role)

LEMMA RunnerMade ==
    ASSUME MadeInv, NEW c \in Caller, disks' = disks,
           \A e \in Caller : e # c => run'[e] = run[e],
           run'[c] # Idle => WellMade(run'[c].image, run'[c].plan.id, run'[c].plan.role)
    PROVE  MadeInv'
  BY DEF MadeInv, ID

LEMMA FailMade ==
    ASSUME TInv, MadeInv, NEW c \in Caller, Fail(c), disks' = disks
    PROVE  MadeInv'
  <1>1. run \in [Caller -> Run \cup {Idle}]
    BY DEF TInv, TypeOK
  <1>2. run'[c] = Idle /\ \A e \in Caller : e # c => run'[e] = run[e]
    BY <1>1 DEF Fail
  <1> QED
    BY <1>2, RunnerMade

LEMMA PackMade ==
    ASSUME TInv, MadeInv, NEW c \in Caller, PackData(c) \/ PackParity(c)
    PROVE  MadeInv'
  <1>1. disks' = disks /\ run[c].step \in Step
    BY DEF PackData, PackParity, catalogVars, Step
  <1>2. run[c] \in Run /\ run \in [Caller -> Run \cup {Idle}]
    BY <1>1, RunnerFacts DEF TInv, TypeOK
  <1>3. CASE Fail(c)
    BY <1>1, <1>3, FailMade
  <1>4. CASE PackData(c) /\ ~Fail(c)
    <2> DEFINE copies == {<<p, staging[p]>> : p \in BucketPaths(run[c].plan)}
    <2>1. run' = [run EXCEPT ![c].step = "parity",
                             ![c].image = [id |-> ID(c), xor |-> {}, files |-> copies]]
      BY <1>4 DEF PackData
    <2>2. OneContentPerPath(copies)
      BY DEF OneContentPerPath
    <2> HIDE DEF copies
    <2>3. /\ run'[c].plan = run[c].plan
          /\ run'[c].image = [id |-> ID(c), xor |-> {}, files |-> copies]
          /\ \A e \in Caller : e # c => run'[e] = run[e]
      BY <1>2, <2>1 DEF Run
    <2>4. WellMade(run'[c].image, run'[c].plan.id, run'[c].plan.role)
      BY <2>2, <2>3 DEF WellMade, ID
    <2> QED
      BY <1>1, <2>3, <2>4, RunnerMade
  <1>5. CASE PackParity(c) /\ ~Fail(c)
    <2> DEFINE members == {[id |-> isos[d].id, files |-> isos[d].files] :
                             d \in GroupData(run[c].plan)}
    <2>1. run' = [run EXCEPT ![c].step = "parity",
                             ![c].image = [id |-> ID(c), files |-> {}, xor |-> members]]
      BY <1>5 DEF PackParity
    <2> HIDE DEF members
    <2>2. /\ run'[c].plan = run[c].plan
          /\ run'[c].image = [id |-> ID(c), files |-> {}, xor |-> members]
          /\ \A e \in Caller : e # c => run'[e] = run[e]
      BY <1>2, <2>1 DEF Run
    <2>3. run[c].plan.role = "parity"
      BY <1>5 DEF PackParity
    <2>4. WellMade(run'[c].image, run'[c].plan.id, run'[c].plan.role)
      BY <2>2, <2>3 DEF WellMade, OneContentPerPath, ID
    <2> QED
      BY <1>1, <2>2, <2>4, RunnerMade
  <1> QED
    BY <1>3, <1>4, <1>5

LEMMA InsertDiskRowMade ==
    ASSUME TInv, MadeInv, NEW c \in Caller, InsertDiskRow(c)
    PROVE  MadeInv'
  <1>1. run[c].step \in Step
    BY DEF InsertDiskRow, Step
  <1>2. run[c] \in Run /\ run[c] # Idle /\ run \in [Caller -> Run \cup {Idle}]
    BY <1>1, RunnerFacts DEF TInv, TypeOK
  <1>3. CASE Fail(c) /\ UNCHANGED disks
    BY <1>3, FailMade
  <1>4. CASE /\ InsertDisk(ID(c), DiskRowOf(c))
             /\ run' = [run EXCEPT ![c].step = "hash", ![c].todo = BucketPaths(run[c].plan)]
    <2>1. /\ run'[c].plan = run[c].plan /\ run'[c].image = run[c].image
          /\ \A e \in Caller : e # c => run'[e] = run[e]
      BY <1>2, <1>4 DEF Run
    <2>2. WellMade(DiskRowOf(c).iso, ID(c), DiskRowOf(c).role)
      BY <1>2 DEF DiskRowOf, MadeInv
    <2>3. \A d \in DOMAIN disks' : WellMade(disks'[d].iso, d, disks'[d].role)
      BY <1>4, <2>2 DEF InsertDisk, Extend, MadeInv
    <2>4. \A e \in Caller :
            run'[e] # Idle => WellMade(run'[e].image, run'[e].plan.id, run'[e].plan.role)
      BY <1>2, <2>1 DEF MadeInv, ID
    <2> QED
      BY <2>3, <2>4 DEF MadeInv, ID
  <1> QED
    BY <1>3, <1>4 DEF InsertDiskRow

LEMMA ClaimMade ==
    ASSUME TInv, MadeInv, NEW c \in Caller, Claim(c)
    PROVE  MadeInv'
  <1>1. run \in [Caller -> Run \cup {Idle}]
    BY DEF TInv, TypeOK
  <1>2. /\ run'[c].image = NoImage(run'[c].plan.id)
        /\ \A e \in Caller : e # c => run'[e] = run[e]
        /\ disks' = disks
    BY <1>1 DEF Claim, catalogVars
  <1>3. WellMade(run'[c].image, run'[c].plan.id, run'[c].plan.role)
    BY <1>2 DEF NoImage, WellMade, OneContentPerPath
  <1> QED
    BY <1>2, <1>3, RunnerMade

(* The other steps of runDisc keep the image they have, or end.            *)
LEMMA MovesMade ==
    ASSUME TInv, MadeInv, NEW c \in Caller,
           \/ ClearStale(c) \/ CreateParity(c) \/ BuildISO(c) \/ WriteDryRun(c)
           \/ WriteDisc(c) \/ VerifyBurn(c) \/ HashStaged(c) \/ ConsumeMetadata(c)
           \/ InsertFileRow(c) \/ RemoveStaged(c)
    PROVE  MadeInv'
  <1>1. disks' = disks /\ run[c].step \in Step
    BY DEF ClearStale, CreateParity, BuildISO, WriteDryRun, WriteDisc, VerifyBurn, HashStaged,
           ConsumeMetadata, InsertFileRow, RemoveStaged, catalogVars, Step
  <1>2. run[c] \in Run /\ run[c] # Idle /\ run \in [Caller -> Run \cup {Idle}]
    BY <1>1, RunnerFacts DEF TInv, TypeOK
  <1>3. CASE Fail(c)
    BY <1>1, <1>3, FailMade
  <1>4. ASSUME run'[c].plan = run[c].plan, run'[c].image = run[c].image,
               \A e \in Caller : e # c => run'[e] = run[e]
        PROVE  MadeInv'
    BY <1>1, <1>2, <1>4, RunnerMade DEF MadeInv, ID
  <1>5. CASE ClearStale(c) \/ BuildISO(c) \/ WriteDryRun(c) \/ InsertFileRow(c)
    <2>1. PICK s \in Step : Goto(c, s)
      BY <1>5 DEF ClearStale, BuildISO, WriteDryRun, InsertFileRow, Step
    <2>2. /\ run'[c].plan = run[c].plan /\ run'[c].image = run[c].image
          /\ \A e \in Caller : e # c => run'[e] = run[e]
      BY <1>2, <2>1 DEF Goto, Run
    <2> QED
      BY <1>4, <2>2
  <1>6. CASE (CreateParity(c) \/ VerifyBurn(c)) /\ ~Fail(c)
    <2>1. PICK s \in Step : Goto(c, s)
      BY <1>6 DEF CreateParity, VerifyBurn, Step
    <2>2. /\ run'[c].plan = run[c].plan /\ run'[c].image = run[c].image
          /\ \A e \in Caller : e # c => run'[e] = run[e]
      BY <1>2, <2>1 DEF Goto, Run
    <2> QED
      BY <1>4, <2>2
  <1>7. CASE WriteDisc(c) \/ ConsumeMetadata(c)
    BY <1>2, <1>4, <1>7 DEF WriteDisc, ConsumeMetadata, Run
  <1>8. CASE HashStaged(c) /\ ~Fail(c)
    <2>1. PICK p \in run[c].todo :
            run' = [run EXCEPT ![c].step = "consume", ![c].file = p, ![c].hash = staging[p]]
      BY <1>8 DEF HashStaged
    <2>2. /\ run'[c].plan = run[c].plan /\ run'[c].image = run[c].image
          /\ \A e \in Caller : e # c => run'[e] = run[e]
      BY <1>2, <2>1 DEF Run
    <2> QED
      BY <1>4, <2>2
  <1>9. CASE RemoveStaged(c) /\ ~Fail(c)
    BY <1>2, <1>4, <1>9 DEF RemoveStaged, Run
  <1> QED
    BY <1>3, <1>5, <1>6, <1>7, <1>8, <1>9

LEMMA MadeNext == TInv /\ MadeInv /\ [Next]_vars => MadeInv'
  <1> SUFFICES ASSUME TInv, MadeInv, [Next]_vars PROVE MadeInv'
    OBVIOUS
  <1>1. ASSUME NEW c \in Caller, Claim(c) \/ RunStep(c) \/ DryRunCopyFails(c) \/ StepFails(c)
        PROVE  MadeInv'
    <2>1. CASE FinishDisc(c)
      <3>1. run \in [Caller -> Run \cup {Idle}]
        BY DEF TInv, TypeOK
      <3>2. run'[c] = Idle /\ disks' = disks /\ \A e \in Caller : e # c => run'[e] = run[e]
        BY <2>1, <3>1 DEF FinishDisc, catalogVars
      <3> QED
        BY <3>2, RunnerMade
    <2>2. CASE DryRunCopyFails(c) \/ StepFails(c)
      <3>1. Fail(c) /\ disks' = disks
        BY <2>2 DEF DryRunCopyFails, StepFails, catalogVars
      <3> QED
        BY <3>1, FailMade
    <2> QED
      BY <1>1, <2>1, <2>2, ClaimMade, PackMade, InsertDiskRowMade, MovesMade DEF RunStep
  <1>2. CASE Crash
    <2>1. disks' = disks /\ \A c \in Caller : run'[c] = Idle
      BY <1>2 DEF Crash, catalogVars
    <2> QED
      BY <2>1 DEF MadeInv, ID
  <1>3. ASSUME UNCHANGED <<disks, run>> PROVE MadeInv'
    BY <1>3 DEF MadeInv, ID
  <1>4. ASSUME NEW opts \in Options, Start(opts) PROVE MadeInv'
    BY <1>3, <1>4 DEF Start, BeginStart, pipelineVars, catalogVars
  <1>5. CASE PlanStep
    <2>1. UNCHANGED <<disks, run>>
      BY <1>5 DEF PlanStep, pipelineVars, PackFile, PackLast, PlanDisc, PlansComplete, PlanGroup,
                  PlanParity, GroupsComplete, FinishStart, catalogVars
    <2> QED
      BY <1>3, <2>1
  <1>6. CASE \/ PlanningFails \/ Retry \/ UNCHANGED vars
             \/ \E p \in Path : Delete(p) \/ ApplyMetadata(p)
             \/ \E p \in Path, content \in Content : Put(p, content)
             \/ \E p, q \in Path : Move(p, q)
    <2>1. UNCHANGED <<disks, run>>
      BY <1>6 DEF PlanningFails, PlanFails, Retry, vars, Delete, ApplyMetadata, Put, Move, Edit,
                  catalogVars, plannerVars, pipelineVars
    <2> QED
      BY <1>3, <2>1
  <1> QED
    BY <1>1, <1>2, <1>4, <1>5, <1>6 DEF Next

LEMMA MadeInvariant == Spec => []MadeInv
  <1>1. Init => MadeInv
    BY DEF Init, CatalogInit, MadeInv
  <1> QED
    BY <1>1, MadeNext, ControlInvariant, PTL DEF Spec

-----------------------------------------------------------------------------
(* The burn pipeline only adds disc rows.                                  *)
LEMMA RowsStay ==
    ASSUME [Next]_vars
    PROVE  \A d \in DOMAIN disks : d \in DOMAIN disks' /\ disks'[d] = disks[d]
  <1>1. ASSUME NEW c \in Caller, InsertDiskRow(c)
        PROVE  \A d \in DOMAIN disks : d \in DOMAIN disks' /\ disks'[d] = disks[d]
    BY <1>1 DEF InsertDiskRow, InsertDisk, Extend
  <1>2. ASSUME NEW c \in Caller, RunStep(c), ~InsertDiskRow(c) PROVE disks' = disks
    BY <1>2 DEF RunStep, ClearStale, PackData, PackParity, CreateParity, BuildISO, WriteDryRun,
                WriteDisc, VerifyBurn, HashStaged, ConsumeMetadata, InsertFileRow, RemoveStaged,
                FinishDisc, catalogVars
  <1>3. ASSUME NEW c \in Caller, Claim(c) \/ DryRunCopyFails(c) \/ StepFails(c)
        PROVE  disks' = disks
    BY <1>3 DEF Claim, DryRunCopyFails, StepFails, catalogVars
  <1>4. ASSUME NEW opts \in Options, Start(opts) PROVE disks' = disks
    BY <1>4 DEF Start, BeginStart, catalogVars
  <1>5. CASE PlanStep \/ PlanningFails
    BY <1>5 DEF PlanStep, PackFile, PackLast, PlanDisc, PlansComplete, PlanGroup, PlanParity,
                GroupsComplete, FinishStart, PlanningFails, PlanFails, catalogVars
  <1>6. CASE \/ Retry \/ Crash \/ UNCHANGED vars
             \/ \E p \in Path : Delete(p) \/ ApplyMetadata(p)
             \/ \E p \in Path, content \in Content : Put(p, content)
             \/ \E p, q \in Path : Move(p, q)
    BY <1>6 DEF Retry, Crash, vars, Delete, ApplyMetadata, Put, Move, Edit, catalogVars
  <1> QED
    BY <1>1, <1>2, <1>3, <1>4, <1>5, <1>6 DEF Next
=============================================================================
