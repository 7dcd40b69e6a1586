------------------------------- MODULE System -------------------------------
(***************************************************************************)
(* The running program: the burn manager (BurnPipeline) and the retrieval  *)
(* manager with the dry-run page (Retrieval), over one catalog, one        *)
(* dry-run directory and one shelf of discs, in one process that crashes   *)
(* as a whole, behind the web handlers that start their jobs.              *)
(*                                                                         *)
(* startBurn and startRetrieve each ask the OTHER manager for its current  *)
(* job and then start their own: two critical sections of two locks, and   *)
(* two steps here.  The handlers for continuing and retrying ask nobody.   *)
(***************************************************************************)
EXTENDS Catalog

CONSTANTS
    Absent, Size, Options, IntLimit, MaxDisks, MaxGroups, Corrupt,
    InitialStaging, EditsDuringBurn, MaxEdits, TaggedPaths, OldVolumes,
    Base, Partial, TooLong, Careful, Crashes, MaxFaults,
    BurnCaller,      \* concurrent "continue" requests
    RetrieveCaller,  \* concurrent requests of the library page
    Deleter,         \* concurrent requests of the dry-run page
    BurnFaults,      \* the steps of runDisc at which a fault may strike
    RetrieveFaults,  \* the steps of a retrieval at which a fault may strike
    MaxBad,          \* bound: no more damaged discs than this
    StartsOverlap,   \* whether two start handlers may run at the same time
    RetriesAnytime   \* whether a failed disc may be retried while a retrieval
                     \* is starting or open

ASSUME SystemAssumption ==
    StartsOverlap \in BOOLEAN /\ RetriesAnytime \in BOOLEAN /\ MaxBad \in Nat

VARIABLES
    staging, burnJob, planning, run, isos, vols, media, removed, edits,
    retrieveJob, call, recon, bad, retrieved,
    dryRun, deleting, faults,
    shelf,           \* the disc somebody takes who looks for a label
    starting         \* which start handlers have passed their check

burnVars == <<staging, burnJob, planning, run, isos, vols, media, removed, edits>>
retrieveVars == <<retrieveJob, call, recon, bad, retrieved, deleting>>
vars == <<catalogVars, burnVars, retrieveVars, dryRun, faults, shelf, starting>>

B == INSTANCE BurnPipeline WITH
        job <- burnJob, Caller <- BurnCaller, FaultSteps <- BurnFaults

R == INSTANCE Retrieval WITH
        job <- retrieveJob, Caller <- RetrieveCaller, FaultSteps <- RetrieveFaults,
        Archives <- {[disks |-> [d \in {} |-> 0], files |-> {}, groups |-> <<>>]}

(* What the components assume of the constants; the archive a retrieval    *)
(* starts from is empty.                                                   *)
ASSUME ComponentAssumption ==
    /\ B!PathAssumption /\ B!AbsentAssumption /\ B!SizeAssumption
    /\ B!BoundAssumption /\ B!IntLimitAssumption /\ B!OptionsAssumption
    /\ B!CorruptAssumption /\ B!StagingAssumption /\ B!ModeAssumption
    /\ R!PartialAssumption /\ R!RetrievalAssumption

TypeOK ==
    /\ B!TypeOK
    /\ R!TypeOK
    /\ starting \subseteq {"burn", "retrieve"}

Init ==
    /\ B!Init
    /\ R!Init
    /\ starting = {}

-----------------------------------------------------------------------------
Finished == {"NONE", "DONE", "FAILED"}
BurnBusy == burnJob.state \notin Finished
RetrieveBusy == retrieveJob.state \notin Finished

(* startBurn up to its answer from retrieveMgr.Current.                    *)
CheckRetrieveIdle ==
    /\ "burn" \notin starting
    /\ ~StartsOverlap => starting = {}
    /\ ~RetrieveBusy
    /\ starting' = starting \cup {"burn"}
    /\ UNCHANGED <<catalogVars, burnVars, retrieveVars, dryRun, faults, shelf>>

(* startBurn: burnMgr.Start.                                               *)
StartBurn ==
    /\ "burn" \in starting
    /\ \E opts \in Options : B!Start(opts)
    /\ starting' = starting \ {"burn"}
    /\ UNCHANGED <<retrieveVars, shelf>>

CheckNothing ==
    /\ "retrieve" \notin starting
    /\ ~StartsOverlap => starting = {}
    /\ planning.phase = "idle"
    /\ starting' = starting \cup {"retrieve"}
    /\ UNCHANGED <<catalogVars, burnVars, retrieveVars, dryRun, faults, shelf>>

(* startRetrieve up to its answer from burnMgr.Current, which waits while  *)
(* burn.Manager.Start holds the lock.                                      *)
CheckBurnIdle ==
    /\ "retrieve" \notin starting
    /\ ~StartsOverlap => starting = {}
    /\ planning.phase = "idle"
    /\ ~BurnBusy
    /\ starting' = starting \cup {"retrieve"}
    /\ UNCHANGED <<catalogVars, burnVars, retrieveVars, dryRun, faults, shelf>>

(* startRetrieve: retrieveMgr.Start.                                       *)
StartRetrieve ==
    /\ "retrieve" \in starting
    /\ starting' = starting \ {"retrieve"}
    /\ UNCHANGED burnVars
    /\ \E row \in files : R!Start(row)

(* Either handler returns an error instead: the form is invalid, there is  *)
(* nothing staged or no such file, or the manager refuses.                 *)
StartRefused(handler) ==
    /\ handler \in starting
    /\ starting' = starting \ {handler}
    /\ UNCHANGED <<catalogVars, burnVars, retrieveVars, dryRun, faults, shelf>>

(* retryDisc.                                                              *)
RetryDisc ==
    /\ ~RetriesAnytime => ~RetrieveBusy /\ starting = {}
    /\ B!Retry
    /\ UNCHANGED <<retrieveVars, shelf, starting>>

-----------------------------------------------------------------------------
(* InsertFile finds its disk row gone: the dry-run page deleted the disc   *)
(* that is being committed.                                                *)
InsertFileRefused(c) ==
    /\ run[c].step = "insert"
    /\ run[c].plan.id \notin DOMAIN disks
    /\ B!Fail(c)
    /\ UNCHANGED <<catalogVars, staging, planning, isos, vols, media, dryRun,
                   removed, faults, edits>>

(* A disc that has been written goes to the shelf under its label, whether *)
(* or not it ever gets into the catalog.                                   *)
NewDiscShelved ==
    IF media' = media THEN UNCHANGED shelf
    ELSE \E m \in media' \ media : shelf' = Extend(shelf, m.id, m)

(* What the burn manager and the users of the staging share do.            *)
BurnStep ==
    /\ \/ B!PlanStep
       \/ B!PlanningFails
       \/ \E c \in BurnCaller :
            \/ B!Claim(c) \/ B!RunStep(c)
            \/ B!DryRunCopyFails(c) \/ B!StepFails(c) \/ InsertFileRefused(c)
       \/ \E p \in Path : B!Delete(p) \/ B!ApplyMetadata(p)
       \/ \E p \in Path, content \in Content : B!Put(p, content)
       \/ \E p, q \in Path : B!Move(p, q)
    /\ NewDiscShelved
    /\ UNCHANGED <<retrieveVars, starting>>

(* The dry-run page may be asked for any ID.                               *)
PageIDs == [prefix : Prefix, num : 1..MaxDisks]

(* What the retrieval manager, its operator and the dry-run page do.       *)
RetrieveStep ==
    /\ UNCHANGED <<burnVars, starting>>
    /\ \/ \E c \in RetrieveCaller :
            R!OperatorStep(c) \/ R!RequestStep(c) \/ R!StepFails(c)
       \/ R!DryRunPageStep(PageIDs)
       \/ \E x \in Deleter : R!PageFails(x)
       \/ R!ShareStep

(* A disc on the shelf goes bad.                                           *)
DiscDecays(d) ==
    /\ d \in DOMAIN shelf \ bad
    /\ Cardinality(bad) < MaxBad
    /\ bad' = bad \cup {d}
    /\ UNCHANGED <<catalogVars, burnVars, retrieveJob, call, recon, retrieved,
                   deleting, dryRun, faults, shelf, starting>>

(* Several discs carry one label when a number was handed out again: the   *)
(* operator takes another one of them.                                     *)
OtherDiscTaken(m) ==
    /\ m \in media
    /\ shelf' = Extend(shelf, m.id, m)
    /\ UNCHANGED <<catalogVars, burnVars, retrieveVars, dryRun, faults, starting>>

(* The process dies with everything it had in memory.                      *)
Crash ==
    /\ B!Crash
    /\ R!Crash
    /\ starting' = {}

Next ==
    \/ CheckRetrieveIdle
    \/ StartBurn
    \/ CheckBurnIdle
    \/ StartRetrieve
    \/ \E handler \in {"burn", "retrieve"} : StartRefused(handler)
    \/ RetryDisc
    \/ BurnStep
    \/ RetrieveStep
    \/ \E d \in DOMAIN shelf : DiscDecays(d)
    \/ \E m \in media : OtherDiscTaken(m)
    \/ Crash

Spec == Init /\ [][Next]_vars

-----------------------------------------------------------------------------
BurnerInUse ==
    \E c \in BurnCaller :
        run[c].step \in {"burn", "verify"} /\ burnJob.opts.kind = "optical"

ReaderInUse ==
    \E c \in RetrieveCaller :
        /\ call[c].pc \in {"read", "readMember"}
        /\ ~call[c].dry /\ ~call[c].rebuilt

(* "Only one burn or one retrieval/reconstruction runs at a time (matches  *)
(* the single-drive reality)": no disc is read for a retrieval while the   *)
(* burn pipeline writes or verifies one in the same drive.                 *)
DriveExclusive == ~(BurnerInUse /\ ReaderInUse)

(* Whatever a real burn removed from staging stays catalogued on a medium, *)
(* although the dry-run page deletes rows at any time, with any disk_id,   *)
(* and frees disc numbers that the next burn hands out again.              *)
NothingLost == B!NothingLost

(* No file row outlives its disc row, or comes to name a disc that was     *)
(* burned later under the same number: the two DELETEs of the dry-run page *)
(* and the inserts of a commit interleave freely.                          *)
CatalogTruthful == B!CatalogTruthful

(* Caller c extracts the file of a row that is still catalogued from a     *)
(* real disc, not from an image rebuilt from the other discs of its group. *)
ReadsRealDisc(c) ==
    /\ call[c].pc = "extract" /\ ~call[c].dry /\ ~call[c].rebuilt
    /\ retrieveJob.row \in files

OnlyDiscOf(id) == \A m, n \in media : m.id = id /\ n.id = id => m = n

(* From staging to disc and back: a retrieval that extracts a file from a  *)
(* real disc delivers the content that was catalogued, although burns,     *)
(* deletions, freed numbers, decay, wrong discs and crashes went on        *)
(* between the burn and the retrieval, if no other disc has ever been      *)
(* burned with its label.                                                  *)
EndToEnd ==
    [][\A c \in RetrieveCaller :
         (/\ ReadsRealDisc(c) /\ OnlyDiscOf(retrieveJob.row.disk)
          /\ retrieveJob'.state = "DONE") => (R!RetrievedTruthful)']_vars

(* "You inserted the wrong disc" is a "hard failure": the same whichever   *)
(* disc with that label is taken.                                          *)
WrongDiscRejected ==
    [][\A c \in RetrieveCaller :
         (/\ ReadsRealDisc(c)
          /\ retrieveJob'.state = "DONE") => (R!RetrievedTruthful)']_vars

(* No two discs of a job share a number, and none of them has the number   *)
(* of a disc in the catalog, when planJob is done.                         *)
FreshIDs == B!FreshIDs

(* The same for dry runs, whose ISO files "catalog exactly as if it were a *)
(* real burn".                                                             *)
DryRunTruthful == R!RetrievedTruthful
=============================================================================
