------------------------------ MODULE Planner ------------------------------
(***************************************************************************)
(* burn.Manager.Start and planJob: scan the staging directory, pack the    *)
(* files greedily into disc-sized buckets (internal/binpack), give every   *)
(* bucket a disk ID, and with cross-disc parity split the data discs into  *)
(* groups, each followed by its own parity disc.                           *)
(*                                                                         *)
(* Start holds Manager.mu from beginning to end, so while planning is not  *)
(* idle no other method of the burn manager runs; the WebDAV share and the *)
(* dry-run page do, between any two database statements of planJob.  Each  *)
(* action is therefore one statement, or one iteration of a loop.          *)
(***************************************************************************)
EXTENDS Catalog

CONSTANTS
    Absent,     \* the content of a path that is not staged
    Size,       \* Size[c] is the size in bytes of content c
    Options,    \* the burn.Options values the dashboard may submit
    IntLimit,   \* stands for 2^63: int64 arithmetic wraps beyond it
    MaxDisks,   \* bound: no more disc numbers than this per prefix
    MaxGroups   \* bound: no more disk_groups rows than this

ASSUME AbsentAssumption == Absent \notin Content
ASSUME SizeAssumption == Size \in [Content -> Nat]
ASSUME BoundAssumption == MaxDisks \in Nat /\ MaxGroups \in Nat
ASSUME IntLimitAssumption == IntLimit \in Nat \ {0}

(* WriteKind and DryRun together decide how a disc is written.             *)
Kind == {"optical", "filesystem", "dryrun"}

ASSUME OptionsAssumption ==
    Options \subseteq [prefix : Prefix, kind : Kind, capacity : Nat \ {0},
                       parityPercent : 5..50, crossDiscParity : BOOLEAN,
                       groupSize : Int]

VARIABLES
    staging,    \* the staging directory: path -> content, or Absent
    job,        \* Manager.job; state "NONE" stands for nil
    planning    \* the locals of the Start call in progress

plannerVars == <<staging, job, planning>>

FileInfo == [path : Path, size : Nat]
Bucket == [files : SUBSET FileInfo, total : Nat]
EmptyBucket == [files |-> {}, total |-> 0]
DiscPlan == [id : DiskID, role : Role, group : Nat, slot : Nat, bucket : Bucket]

State == {"AWAITING_DISC", "PACKING", "PARITY", "ISO", "BURNING", "VERIFYING",
          "DONE", "FAILED"}

NoJob == [state |-> "NONE"]
Job == [state : State, idx : Nat \ {0}, plans : Seq(DiscPlan), opts : Options]

Phase == {"pack", "ids", "group", "parity", "done"}
NoPlanning == [phase |-> "idle"]
Planning == [phase : Phase, opts : Options,
             scan : SUBSET FileInfo, todo : SUBSET FileInfo,
             current : Bucket, buckets : Seq(Bucket), allocated : Nat,
             plans : Seq(DiscPlan), start : Nat, withGroups : Seq(DiscPlan)]

PlannerTypeOK ==
    /\ staging \in [Path -> Content \cup {Absent}]
    /\ job = NoJob \/ job \in Job
    /\ planning = NoPlanning \/ planning \in Planning

PlannerInit ==
    /\ job = NoJob
    /\ planning = NoPlanning

-----------------------------------------------------------------------------
(* Go's int64 arithmetic: wrap-around, and division that truncates.        *)
Wrap(n) == ((n + IntLimit) % (2 * IntLimit)) - IntLimit

Quotient(n, d) == IF n < 0 THEN -((-n) \div d) ELSE n \div d

TargetDataSize(capacity, parityPercent) ==
    Quotient(Wrap(capacity * 100), 100 + parityPercent)

Target(opts) == TargetDataSize(opts.capacity, opts.parityPercent)

Staged == {p \in Path : staging[p] # Absent}

ScanStaging == {[path |-> p, size |-> Size[staging[p]]] : p \in Staged}

IsFirst(f, fs) == \A g \in fs : f.path <= g.path

(* A group size of one or less falls back to ten.                          *)
EffectiveGroupSize(opts) == IF opts.groupSize <= 1 THEN 10 ELSE opts.groupSize

-----------------------------------------------------------------------------
(* Manager.Start up to the end of ScanStaging.  An empty staging directory *)
(* and a spool without room for two discs are refused before anything      *)
(* changes, and so is a job in progress.                                   *)
BeginStart(opts) ==
    /\ planning.phase = "idle"
    /\ job.state \in {"NONE", "DONE", "FAILED"}
    /\ ScanStaging # {}
    /\ planning' = [phase |-> "pack", opts |-> opts,
                    scan |-> ScanStaging, todo |-> ScanStaging,
                    current |-> EmptyBucket, buckets |-> <<>>, allocated |-> 0,
                    plans |-> <<>>, start |-> 0, withGroups |-> <<>>]
    /\ UNCHANGED <<catalogVars, staging, job>>

CloseBucketIgnoresFile(f) ==
    /\ planning.current.total > 0
    /\ planning.current.total > Target(planning.opts)

(* The size test of binpack.Pack: f starts a new bucket.                   *)
CloseBucket(f) ==
    /\ planning.current.total > 0
    /\ planning.current.total + f.size > Target(planning.opts)

AddFile(b, f) == [files |-> b.files \cup {f}, total |-> b.total + f.size]

(* One iteration of Pack's loop, in path order.                            *)
PackFile ==
    /\ planning.phase = "pack"
    /\ \E f \in planning.todo :
         /\ IsFirst(f, planning.todo)
         /\ planning' =
              IF CloseBucket(f)
              THEN [planning EXCEPT !.todo = @ \ {f},
                                    !.current = AddFile(EmptyBucket, f),
                                    !.buckets = Append(@, planning.current)]
              ELSE [planning EXCEPT !.todo = @ \ {f},
                                    !.current = AddFile(@, f)]
    /\ UNCHANGED <<catalogVars, staging, job>>

PackLastForgotten ==
    /\ planning.phase = "pack"
    /\ planning.todo = {}
    /\ planning' = [planning EXCEPT !.phase = "ids", !.current = EmptyBucket]
    /\ UNCHANGED <<catalogVars, staging, job>>

(* The end of Pack: the last bucket is closed.                             *)
PackLast ==
    /\ planning.phase = "pack"
    /\ planning.todo = {}
    /\ planning' = [planning EXCEPT !.phase = "ids", !.current = EmptyBucket,
                                    !.buckets = Append(@, planning.current)]
    /\ UNCHANGED <<catalogVars, staging, job>>

NewID == NextDiskID(planning.opts.prefix, planning.allocated)

(* The ID loop of planJob: one NextDiskID query per bucket.                *)
PlanDisc ==
    /\ planning.phase = "ids"
    /\ Len(planning.plans) < Len(planning.buckets)
    /\ NewID.num <= MaxDisks
    /\ planning' =
         [planning EXCEPT
            !.allocated = @ + 1,
            !.plans = Append(@, [id |-> NewID, role |-> "data", group |-> NoGroup,
                                 slot |-> 0,
                                 bucket |-> planning.buckets[Len(planning.plans) + 1]])]
    /\ UNCHANGED <<catalogVars, staging, job>>

(* The early return of planJob, or the start of the group loop.            *)
PlansComplete ==
    /\ planning.phase = "ids"
    /\ Len(planning.plans) = Len(planning.buckets)
    /\ planning' =
         IF planning.opts.crossDiscParity
         THEN [planning EXCEPT !.phase = "group"]
         ELSE [planning EXCEPT !.phase = "done", !.withGroups = planning.plans]
    /\ UNCHANGED <<catalogVars, staging, job>>

GroupEnd ==
    IF planning.start + EffectiveGroupSize(planning.opts) > Len(planning.plans)
    THEN Len(planning.plans)
    ELSE planning.start + EffectiveGroupSize(planning.opts)

(* One iteration of the group loop, up to its NextDiskID call: the         *)
(* disk_groups row is inserted and the members get their group and slot.   *)
PlanGroup ==
    /\ planning.phase = "group"
    /\ planning.start < Len(planning.plans)
    /\ Len(groups) < MaxGroups
    /\ InsertDiskGroup(GroupEnd - planning.start)
    /\ planning' =
         [planning EXCEPT
            !.phase = "parity",
            !.withGroups = @ \o
              [i \in 1..(GroupEnd - planning.start) |->
                 [planning.plans[planning.start + i] EXCEPT
                    !.group = Len(groups) + 1, !.slot = i - 1]]]
    /\ UNCHANGED <<disks, files, metadata, staging, job>>

ParitySlotOfFullGroup == EffectiveGroupSize(planning.opts)

(* The parity disc takes the slot after the group's members.               *)
ParitySlot == GroupEnd - planning.start

(* The rest of the iteration: the group's parity disc, after its members.  *)
PlanParity ==
    /\ planning.phase = "parity"
    /\ NewID.num <= MaxDisks
    /\ planning' =
         [planning EXCEPT
            !.phase = "group",
            !.allocated = @ + 1,
            !.start = planning.start + EffectiveGroupSize(planning.opts),
            !.withGroups = Append(@, [id |-> NewID, role |-> "parity",
                                      group |-> Len(groups),
                                      slot |-> ParitySlot,
                                      bucket |-> EmptyBucket])]
    /\ UNCHANGED <<catalogVars, staging, job>>

GroupsComplete ==
    /\ planning.phase = "group"
    /\ planning.start >= Len(planning.plans)
    /\ planning' = [planning EXCEPT !.phase = "done"]
    /\ UNCHANGED <<catalogVars, staging, job>>

(* Start installs the job and releases the lock.                           *)
FinishStart ==
    /\ planning.phase = "done"
    /\ job' = [state |-> "AWAITING_DISC", idx |-> 1,
               plans |-> planning.withGroups, opts |-> planning.opts]
    /\ planning' = NoPlanning
    /\ UNCHANGED <<catalogVars, staging>>

(* A NextDiskID, NewBurnJobID or NextGroupID error: Start returns it, the  *)
(* previous job stays, and disk_groups rows already inserted stay too.     *)
PlanFails ==
    /\ planning.phase \in {"ids", "group", "parity"}
    /\ planning' = NoPlanning
    /\ UNCHANGED <<catalogVars, staging, job>>
=============================================================================
