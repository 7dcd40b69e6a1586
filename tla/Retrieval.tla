----------------------------- MODULE Retrieval -----------------------------
(***************************************************************************)
(* retrieve.Manager (src/internal/retrieve) with burn.Reconstructor, and   *)
(* the dry-run page's delete handler, over an archive the burn pipeline    *)
(* left behind: fetch one file from its disc, or, when the disc does not   *)
(* read, rebuild the disc's image from the other members of its group.     *)
(*                                                                         *)
(* Every request runs on its own goroutine.  A request that claimed the    *)
(* job in a critical section goes on without the lock; one action is one   *)
(* such section, catalog query or read of a medium.                        *)
(*                                                                         *)
(* Image bytes are abstracted to the set of blocks that were XORed to make *)
(* them: an ISO image is one block, XOR is symmetric difference, a silent  *)
(* read error adds a noise block, and an image cut off at the capacity is  *)
(* a block of its own, different from the whole image.                     *)
(***************************************************************************)
EXTENDS DryRunPage

CONSTANTS
    Caller,      \* concurrent HTTP requests
    Archives,    \* the catalogs the model starts from
    Base,        \* Base[p] is filepath.Base of path p
    TooLong,     \* discs whose payload extends past the media capacity
    Corrupt,     \* the contents of a dry run's ISO whose copy was cut short
    Partial,     \* the content of a file whose extraction was cut short
    Careful,     \* the operator inserts the disc the page names
    MaxBad,      \* bound: no more damaged discs than this
    FaultSteps,  \* the steps at which a fault may strike
    Crashes,     \* whether the process may crash
    MaxFaults    \* bound: no more faults than this in one behaviour

Step == {"lookup", "read", "extract", "resolve", "members", "lookupMember",
         "readMember", "fold", "write"}

(* Each is an archive that burns can leave.                                *)
ASSUME ArchiveAssumption == \A a \in Archives : Truthful(a)
ASSUME CorruptAssumption == Corrupt \notin Image
ASSUME PartialAssumption == Partial \notin Content
ASSUME RetrievalAssumption ==
    /\ Careful \in BOOLEAN
    /\ MaxBad \in Nat
    /\ FaultSteps \subseteq Step
    /\ Crashes \in BOOLEAN
    /\ MaxFaults \in Nat
    /\ DOMAIN Base = Path
    /\ TooLong \subseteq DiskID

VARIABLES
    job,        \* Manager.job: its state and the file row it is after
    call,       \* per caller: the locals of its request
    recon,      \* Manager.reconstructor
    shelf,      \* the physical discs: label -> image
    bad,        \* the physical discs that no longer read reliably
    retrieved,  \* the retrieved directory: base name -> content
    faults      \* history: the number of faults so far

vars == <<catalogVars, dryRunPageVars, job, call, recon, shelf, bad, retrieved, faults>>

Block == [kind : {"data", "cut", "wrapper", "noise"}, id : DiskID, files : SUBSET FileCopy]

State == {"AWAITING_MEDIA", "READING_DISC", "DONE", "FAILED", "NEEDS_RECONSTRUCTION",
          "STARTING_RECONSTRUCTION", "RECONSTRUCTING", "READING_RECONSTRUCTION_DISC"}
NoJob == [state |-> "NONE"]
Idle == [pc |-> "idle"]
NoReconstructor == [others |-> {}, images |-> [d \in {} |-> 0]]

(* disk: the disc asked for; medium: what is in the drive; group, dry,     *)
(* parity: what GetDisk said of the disc; image: what has been read or     *)
(* rebuilt.                                                                *)
Call == [pc : Step, disk : DiskID, medium : DiskID, group : Nat, dry : BOOLEAN,
         parity : BOOLEAN, rebuilt : BOOLEAN, image : SUBSET Block]

TypeOK ==
    /\ CatalogTypeOK
    /\ job = NoJob \/ job \in [state : State, row : FileRow]
    /\ call \in [Caller -> Call \cup {Idle}]
    /\ recon.others \subseteq DiskID
    /\ DOMAIN recon.images \subseteq recon.others
    /\ recon.images \in [DOMAIN recon.images -> SUBSET Block]
    /\ DOMAIN shelf \subseteq DiskID /\ shelf \in [DOMAIN shelf -> Image]
    /\ bad \subseteq DOMAIN shelf
    /\ DOMAIN dryRun \subseteq DiskID
    /\ dryRun \in [DOMAIN dryRun -> Image \cup {Corrupt}]
    /\ DOMAIN retrieved \subseteq {Base[p] : p \in Path}
    /\ retrieved \in [DOMAIN retrieved -> Content \cup {Partial}]
    /\ DeletingTypeOK
    /\ faults \in 0..MaxFaults

(* A dry run whose number was used again may have lost its ISO to a copy   *)
(* that failed half-way (BurnPipeline's DryRunCopyFails).                  *)
Init ==
    /\ \E a \in Archives :
         /\ disks = a.disks
         /\ files = a.files
         /\ groups = a.groups
         /\ shelf = [d \in {x \in DOMAIN a.disks : ~a.disks[x].dry} |-> a.disks[d].iso]
         /\ LET dryRuns == {x \in DOMAIN a.disks : a.disks[x].dry} IN
            \E damaged \in {x \in SUBSET DOMAIN a.disks : Cardinality(x) <= MaxBad} :
              /\ dryRun = [d \in dryRuns |-> IF d \in damaged THEN Corrupt
                                            ELSE a.disks[d].iso]
              /\ bad = damaged \ dryRuns
    /\ metadata = {}
    /\ job = NoJob
    /\ call = [c \in Caller |-> Idle]
    /\ recon = NoReconstructor
    /\ retrieved = [b \in {} |-> 0]
    /\ deleting = NothingDeleted
    /\ faults = 0

-----------------------------------------------------------------------------
(* What is on a disc.                                                      *)
IsoBlock(image) ==
    IF image.xor = {} THEN [kind |-> "data", id |-> image.id, files |-> image.files]
    ELSE [kind |-> "wrapper", id |-> image.id, files |-> {}]

Noise(d) == [kind |-> "noise", id |-> d, files |-> {}]

(* xordisk.XOR of one image per member.                                    *)
XOR(images) ==
    LET blocks == UNION {images[d] : d \in DOMAIN images} IN
    {b \in blocks : Cardinality({d \in DOMAIN images : b \in images[d]}) % 2 = 1}

(* What XOR at burn time and ReadRawImage later take of an image: at most  *)
(* the capacity, silently.                                                 *)
Truncated(block) ==
    IF block.kind = "data" /\ block.id \in TooLong
    THEN [block EXCEPT !.kind = "cut"] ELSE block

MemberBlock(x) == [kind |-> "data", id |-> x.id, files |-> x.files]

(* buildParityPayload's output: the XOR of the members' ISO images.        *)
PayloadIgnoresMember(image) ==
    {Truncated(MemberBlock(x)) :
        x \in {y \in image.xor : \E z \in image.xor : z.id.num < y.id.num}}

Payload(image) == {Truncated(MemberBlock(x)) : x \in image.xor}

(* What is left at the path caller c reads: the ISO of a dry run, or the   *)
(* disc in the drive.                                                      *)
Source(c) == IF call[c].dry THEN dryRun ELSE shelf
SourceID(c) == IF call[c].dry THEN call[c].disk ELSE call[c].medium
Present(c) == SourceID(c) \in DOMAIN Source(c)
CutShort(c) == Present(c) /\ Source(c)[SourceID(c)] = Corrupt
Unreliable(c) == ~call[c].dry /\ ~call[c].rebuilt /\ call[c].medium \in bad

Remaining == recon.others \ DOMAIN recon.images

SetState(s) == job' = [job EXCEPT !.state = s]
Return(c, s) == SetState(s) /\ call' = [call EXCEPT ![c] = Idle]

archiveVars == <<catalogVars, dryRunPageVars, shelf, bad>>

-----------------------------------------------------------------------------
Start(row) ==
    /\ job.state \in {"NONE", "DONE", "FAILED"}
    /\ job' = [state |-> "AWAITING_MEDIA", row |-> row]
    /\ UNCHANGED <<archiveVars, call, recon, retrieved, faults>>

NewCall(pc, disk, medium) ==
    [pc |-> pc, disk |-> disk, medium |-> medium, group |-> NoGroup, dry |-> FALSE,
     parity |-> FALSE, rebuilt |-> FALSE, image |-> {}]

(* ReadDisk: the claim, with any disc in the drive.                        *)
ClaimReadUnclaimed(c, medium) ==
    /\ call[c] = Idle
    /\ job.state = "AWAITING_MEDIA"
    /\ Careful => medium = job.row.disk
    /\ UNCHANGED job
    /\ call' = [call EXCEPT ![c] = NewCall("lookup", job.row.disk, medium)]
    /\ UNCHANGED <<archiveVars, recon, retrieved, faults>>

ClaimRead(c, medium) ==
    /\ call[c] = Idle
    /\ job.state = "AWAITING_MEDIA"
    /\ Careful => medium = job.row.disk
    /\ SetState("READING_DISC")
    /\ call' = [call EXCEPT ![c] = NewCall("lookup", job.row.disk, medium)]
    /\ UNCHANGED <<archiveVars, recon, retrieved, faults>>

(* ReadDisk: GetDisk, whose failure is final.                              *)
LookupDisk(c) ==
    /\ call[c].pc = "lookup"
    /\ \/ \E row \in GetDisk(call[c].disk) :
            /\ call' = [call EXCEPT ![c].pc = "read", ![c].dry = row.dry]
            /\ UNCHANGED job
       \/ GetDisk(call[c].disk) = {} /\ Return(c, "FAILED")
    /\ UNCHANGED <<archiveVars, recon, retrieved, faults>>

RawBlocks(c) ==
    IF CutShort(c) THEN {Noise(SourceID(c))} ELSE {IsoBlock(Source(c)[SourceID(c)])}

SourceBlocks(c) ==
    IF call[c].rebuilt THEN call[c].image
    ELSE IF Present(c) THEN RawBlocks(c) ELSE {}

IntactUnchecked(c) ==
    \E b \in SourceBlocks(c) : b.kind = "data"

(* The entries readFrom extracts are named after the disc: they are there  *)
(* only in that very disc's image.                                         *)
Intact(c) ==
    \E b \in SourceBlocks(c) :
        SourceBlocks(c) = {b} /\ b.kind = "data" /\ b.id = job.row.disk

(* readFrom up to VerifyParity: TOC, disc ID, tar, par2 index.  A disc in  *)
(* bad condition may still read well, may fail to read or to verify, or    *)
(* its unprotected TOC may name another disc.  The three extractions and   *)
(* the verification are one step: nothing but this request touches what    *)
(* they read, except that an ISO of a dry run may vanish between two of    *)
(* them, with the same outcome as before the first.                        *)
ReadPayload(c) ==
    /\ call[c].pc = "read"
    /\ \/ /\ Intact(c)
          /\ call' = [call EXCEPT ![c].pc = "extract", ![c].image = SourceBlocks(c)]
          /\ UNCHANGED job
       \/ /\ ~Intact(c) \/ Unreliable(c)
          /\ Return(c, "NEEDS_RECONSTRUCTION")
       \/ /\ Unreliable(c)
          /\ Return(c, "FAILED")
    /\ UNCHANGED <<archiveVars, recon, retrieved, faults>>

(* ExtractFile: the member named by the row's path goes to the retrieved   *)
(* directory under its base name.                                          *)
ExtractFile(c) ==
    /\ call[c].pc = "extract"
    /\ LET found == {x \in Content : \E b \in call[c].image :
                                        <<job.row.path, x>> \in b.files}
       IN \/ /\ found = {}
             /\ Return(c, "FAILED")
             /\ UNCHANGED retrieved
          \/ \E x \in found :
             /\ retrieved' = Extend(retrieved, Base[job.row.path], x)
             /\ Return(c, "DONE")
    /\ UNCHANGED <<archiveVars, recon, faults>>

-----------------------------------------------------------------------------
ClaimReconstruction(c) ==
    /\ call[c] = Idle
    /\ job.state = "NEEDS_RECONSTRUCTION"
    /\ SetState("STARTING_RECONSTRUCTION")
    /\ call' = [call EXCEPT ![c] = NewCall("resolve", job.row.disk, job.row.disk)]
    /\ UNCHANGED <<archiveVars, recon, retrieved, faults>>

(* StartReconstruction: GetDisk; the disc must belong to a group.          *)
ResolveGroup(c) ==
    /\ call[c].pc = "resolve"
    /\ LET grouped == {row \in GetDisk(call[c].disk) : row.group # NoGroup} IN
       \/ \E row \in grouped :
            /\ call' = [call EXCEPT ![c].pc = "members", ![c].group = row.group]
            /\ UNCHANGED job
       \/ grouped = {} /\ Return(c, "NEEDS_RECONSTRUCTION")
    /\ UNCHANGED <<archiveVars, recon, retrieved, faults>>

(* GroupMembers of the group GetDisk named; NewReconstructor refuses a     *)
(* group the missing disc is no longer a member of.                        *)
NewReconstructor(c) ==
    /\ call[c].pc = "members"
    /\ IF call[c].disk \in GroupMembers(call[c].group)
       THEN /\ recon' = [NoReconstructor EXCEPT
                           !.others = GroupMembers(call[c].group) \ {call[c].disk}]
            /\ Return(c, "RECONSTRUCTING")
       ELSE Return(c, "NEEDS_RECONSTRUCTION") /\ UNCHANGED recon
    /\ UNCHANGED <<archiveVars, retrieved, faults>>

(* ReadReconstructionDisc: the claim.  The page offers Remaining; the      *)
(* handler takes any disk_id.                                              *)
ClaimMember(c, disk, medium) ==
    /\ call[c] = Idle
    /\ job.state = "RECONSTRUCTING"
    /\ Careful => disk \in Remaining /\ medium = disk
    /\ SetState("READING_RECONSTRUCTION_DISC")
    /\ call' = [call EXCEPT ![c] = NewCall("lookupMember", disk, medium)]
    /\ UNCHANGED <<archiveVars, recon, retrieved, faults>>

LookupMember(c) ==
    /\ call[c].pc = "lookupMember"
    /\ \/ \E row \in GetDisk(call[c].disk) :
            /\ call' = [call EXCEPT ![c].pc = "readMember", ![c].dry = row.dry,
                                    ![c].parity = row.role = "parity"]
            /\ UNCHANGED job
       \/ GetDisk(call[c].disk) = {} /\ Return(c, "RECONSTRUCTING")
    /\ UNCHANGED <<archiveVars, recon, retrieved, faults>>

(* The operand a member contributes: a data disc's raw bytes, whichever    *)
(* disc is in the drive, or the payload inside the parity disc's ISO.      *)
Operand(c) ==
    IF call[c].parity /\ ~CutShort(c) THEN Payload(Source(c)[SourceID(c)])
    ELSE {Truncated(b) : b \in RawBlocks(c)}

MemberReadable(c) == Present(c) /\ (call[c].parity => SourceID(c) = call[c].disk)

(* A disc in bad condition may fail to read, or read with silent errors:   *)
(* nothing verifies a member before it is folded in.                       *)
ReadMember(c) ==
    /\ call[c].pc = "readMember"
    /\ \/ /\ MemberReadable(c)
          /\ \E noise \in {{}} \cup (IF Unreliable(c) THEN {{Noise(call[c].medium)}} ELSE {}) :
               call' = [call EXCEPT ![c].pc = "fold", ![c].image = Operand(c) \cup noise]
          /\ UNCHANGED job
       \/ /\ ~MemberReadable(c) \/ Unreliable(c) \/ CutShort(c)
          /\ Return(c, "RECONSTRUCTING")
    /\ UNCHANGED <<archiveVars, recon, retrieved, faults>>

FoldImageUnchecked(c) ==
    /\ call[c].pc = "fold"
    /\ LET images == Extend(recon.images, call[c].disk, call[c].image) IN
         /\ recon' = [recon EXCEPT !.images = images]
         /\ IF recon.others \subseteq DOMAIN images
            THEN /\ call' = [call EXCEPT ![c].pc = "write", ![c].image = XOR(images)]
                 /\ UNCHANGED job
            ELSE Return(c, "RECONSTRUCTING")
    /\ UNCHANGED <<archiveVars, retrieved, faults>>

(* foldReconstructionImage, under the lock: SupplyDiscImage, NeedsMore and *)
(* Reconstruct.                                                            *)
FoldImage(c) ==
    /\ call[c].pc = "fold"
    /\ IF call[c].disk \notin recon.others
       THEN Return(c, "RECONSTRUCTING") /\ UNCHANGED recon
       ELSE LET images == Extend(recon.images, call[c].disk, call[c].image) IN
            /\ recon' = [recon EXCEPT !.images = images]
            /\ IF DOMAIN images = recon.others
               THEN /\ call' = [call EXCEPT ![c].pc = "write", ![c].image = XOR(images)]
                    /\ UNCHANGED job
               ELSE Return(c, "RECONSTRUCTING")
    /\ UNCHANGED <<archiveVars, retrieved, faults>>

(* The rebuilt image is written to the scratch directory and read like a   *)
(* disc.                                                                   *)
WriteRebuilt(c) ==
    /\ call[c].pc = "write"
    /\ call' = [call EXCEPT ![c].pc = "read", ![c].rebuilt = TRUE]
    /\ UNCHANGED <<archiveVars, job, recon, retrieved, faults>>

-----------------------------------------------------------------------------
(* The dry-run page beside the retrieval.                                  *)
retrievalVars == <<job, call, recon, shelf, bad, retrieved>>

(* ids: the disk IDs somebody may submit; any will do.                     *)
DryRunPageStep(ids) ==
    \E x \in Deleter :
        \/ /\ \E d \in ids : RemoveISO(x, d)
           /\ UNCHANGED <<retrievalVars, faults>>
        \/ DeleteFiles(x) /\ UNCHANGED <<retrievalVars, faults>>
        \/ DeleteDisk(x) /\ UNCHANGED <<retrievalVars, faults>>

-----------------------------------------------------------------------------
Fault == faults < MaxFaults /\ faults' = faults + 1

AfterFailureClaimed(pc) ==
    CASE pc \in {"lookup", "extract"} -> {"FAILED"}
      [] pc = "read" -> {"FAILED", "NEEDS_RECONSTRUCTION"}
      [] pc \in {"resolve", "members"} -> {"NEEDS_RECONSTRUCTION"}
      [] pc \in {"lookupMember", "readMember", "fold", "write"} ->
           {"READING_RECONSTRUCTION_DISC"}

(* Where a request that fails at a step may leave the job: fail,           *)
(* needsReconstruction, revertToNeedsReconstruction or                     *)
(* revertToReconstructing.  In readFrom it is fail for the work directory  *)
(* and needsReconstruction for a tool that reads the disc.                 *)
AfterFailure(pc) ==
    CASE pc \in {"lookup", "extract"} -> {"FAILED"}
      [] pc = "read" -> {"FAILED", "NEEDS_RECONSTRUCTION"}
      [] pc \in {"resolve", "members"} -> {"NEEDS_RECONSTRUCTION"}
      [] pc \in {"lookupMember", "readMember", "fold", "write"} -> {"RECONSTRUCTING"}

(* A query, a tool or the file system fails; a cut-short extraction leaves *)
(* a partial file.                                                         *)
StepFails(c) ==
    /\ call[c] # Idle
    /\ call[c].pc \in FaultSteps
    /\ Fault
    /\ \E s \in AfterFailure(call[c].pc) : Return(c, s)
    /\ retrieved' = IF call[c].pc = "extract"
                    THEN Extend(retrieved, Base[job.row.path], Partial)
                    ELSE retrieved
    /\ UNCHANGED <<archiveVars, recon>>

PageFails(x) == DeleteFails(x) /\ Fault /\ UNCHANGED retrievalVars

(* Somebody meddles with the ISO files; the bound on faults bounds it too. *)
ShareStep ==
    /\ \/ \E d \in DOMAIN dryRun : ShareDeletes(d)
       \/ \E d \in DOMAIN dryRun, e \in DOMAIN disks : ShareMoves(d, e)
    /\ Fault
    /\ UNCHANGED retrievalVars

(* The process dies and starts again: no job or reconstruction survives.   *)
Crash ==
    /\ Crashes
    /\ Fault
    /\ job' = NoJob
    /\ call' = [c \in Caller |-> Idle]
    /\ recon' = NoReconstructor
    /\ deleting' = NothingDeleted
    /\ UNCHANGED <<catalogVars, shelf, bad, dryRun, retrieved>>

-----------------------------------------------------------------------------
RequestStep(c) ==
    \/ LookupDisk(c)
    \/ ReadPayload(c)
    \/ ExtractFile(c)
    \/ ResolveGroup(c)
    \/ NewReconstructor(c)
    \/ LookupMember(c)
    \/ ReadMember(c)
    \/ FoldImage(c)
    \/ WriteRebuilt(c)

(* What may be in the drive or named in a request: a disc of the catalog,  *)
(* or one that never got into it.                                          *)
Label == DOMAIN disks \cup DOMAIN shelf

(* What the operator does about the job on the library page.               *)
OperatorStep(c) ==
    \/ \E m \in Label : ClaimRead(c, m)
    \/ ClaimReconstruction(c)
    \/ \E d, m \in Label : ClaimMember(c, d, m)

Next ==
    \/ \E row \in files : Start(row)
    \/ \E c \in Caller : OperatorStep(c) \/ RequestStep(c) \/ StepFails(c)
    \/ DryRunPageStep(DOMAIN disks \cup DOMAIN dryRun)
    \/ \E x \in Deleter : PageFails(x)
    \/ ShareStep
    \/ Crash

(* A handler goroutine, once started, is scheduled until it returns.       *)
Fairness == \A c \in Caller : WF_vars(RequestStep(c))

Spec == Init /\ [][Next]_vars /\ Fairness

(* The operator follows the library page: reads the disc it asks for,      *)
(* asks for the reconstruction, and supplies each disc it still lists.     *)
OperatorSpec ==
    /\ Spec
    /\ WF_vars(\E c \in Caller : ClaimReconstruction(c))
    /\ WF_vars(\E c \in Caller, d \in DOMAIN disks : ClaimMember(c, d, d))

-----------------------------------------------------------------------------
Working == {"READING_DISC", "STARTING_RECONSTRUCTION", "READING_RECONSTRUCTION_DISC"}

(* The three claims serialise concurrent requests: at most one is past its *)
(* claim, and exactly while the job says so; the Reconstructor, which is   *)
(* "not safe for concurrent use", has one user.                            *)
OneRequest ==
    /\ \A c, d \in Caller : call[c] # Idle /\ call[d] # Idle => c = d
    /\ (\E c \in Caller : call[c] # Idle) <=> job.state \in Working

(* A retrieval that reports DONE has put the catalogued content of the     *)
(* file into the retrieved directory, whichever discs were in the drive,   *)
(* whatever they read as, and however the image was rebuilt, also when a   *)
(* member was longer than the capacity and the parity covers it in part.   *)
RetrievedTruthful ==
    job.state = "DONE" =>
        /\ Base[job.row.path] \in DOMAIN retrieved
        /\ retrieved[Base[job.row.path]] = job.row.hash

(* "If any one disc in a group of N is destroyed, its data is              *)
(* reconstructed from the other N-1 members": with an operator who inserts *)
(* the discs the page asks for, a disc that does not read ends in DONE,    *)
(* whatever fails on the way; only when the rebuilt image cannot be        *)
(* written does it end with no disc left to ask for.                       *)
LostDiscRecovered ==
    (job.state = "NEEDS_RECONSTRUCTION")
        ~> \/ job.state = "DONE"
           \/ job.state = "RECONSTRUCTING" /\ Remaining = {}

(* Every request that claimed the job gives it back, also when it failed.  *)
RequestReturns == (job.state \in Working) ~> (job.state \notin Working)

(* "If verification fails outright, and the disc belongs to a group, offer *)
(* the reconstruction flow; otherwise report failure": a retrieval does    *)
(* not stay open for ever, refusing every later Start.                     *)
RetrievalEnds == (job.state = "NEEDS_RECONSTRUCTION") ~> (job.state \in {"DONE", "FAILED"})
=============================================================================
