--------------------------- MODULE RetrievalProofs --------------------------
(***************************************************************************)
(* The retrieval, for every value of the constants: one request at a time  *)
(* is past its claim, and a retrieval that reports DONE has delivered the  *)
(* catalogued content.                                                     *)
(***************************************************************************)
EXTENDS Retrieval, FiniteSetTheorems, TLAPS

(* Whatever the files fs of the image with this ID hold for one of the     *)
(* rows is what the row says.                                              *)
Agrees(rows, id, fs) ==
    \A r \in rows, x \in Content : (r.disk = id /\ <<r.path, x>> \in fs) => x = r.hash

ImageAgrees(rows, image) ==
    /\ Agrees(rows, image.id, image.files)
    /\ \A y \in image.xor : Agrees(rows, y.id, y.files)

BlocksAgree(rows, blocks) ==
    \A b \in blocks : b.kind = "data" => Agrees(rows, b.id, b.files)

(* Every image a request can come by agrees with the catalog: on the       *)
(* shelf, in the dry-run directory, supplied to the reconstructor, or in   *)
(* the hands of a request.                                                 *)
ShelfAgrees(rows) ==
    /\ \A d \in DOMAIN shelf : ImageAgrees(rows, shelf[d])
    /\ \A d \in DOMAIN dryRun : dryRun[d] # Corrupt => ImageAgrees(rows, dryRun[d])

ReconAgrees(rows) ==
    \A d \in DOMAIN recon.images : BlocksAgree(rows, recon.images[d])

CallsAgree(rows) ==
    \A c \in Caller : call[c] # Idle => BlocksAgree(rows, call[c].image)

(* Only an image of the row's own disc gets as far as the extraction.      *)
Extracting ==
    \A c \in Caller : call[c].pc = "extract" =>
        \A b \in call[c].image : b.kind = "data" /\ b.id = job.row.disk

ReconShape == recon = [others |-> recon.others, images |-> recon.images]

ImagesInv(rows) ==
    /\ ShelfAgrees(rows)
    /\ ReconAgrees(rows)
    /\ CallsAgree(rows)

(* A job that says DONE, and is after one of the rows, has delivered what  *)
(* the row says.                                                           *)
Delivered(rows) ==
    (job.state = "DONE" /\ job.row \in rows) =>
        /\ Base[job.row.path] \in DOMAIN retrieved
        /\ retrieved[Base[job.row.path]] = job.row.hash

(* The invariant of the requests, for a fixed set of rows that every image *)
(* agrees with. With no rows it is about the control alone.                *)
IInv(rows) ==
    /\ TypeOK
    /\ ReconShape
    /\ OneRequest
    /\ ImagesInv(rows)
    /\ Extracting
    /\ Delivered(rows)

-----------------------------------------------------------------------------
(* The parts of TypeOK.                                                    *)
ArchiveTypeOK ==
    /\ CatalogTypeOK
    /\ DOMAIN shelf \subseteq DiskID /\ shelf \in [DOMAIN shelf -> Image]
    /\ bad \subseteq DOMAIN shelf
    /\ DOMAIN dryRun \subseteq DiskID
    /\ dryRun \in [DOMAIN dryRun -> Image \cup {Corrupt}]
    /\ DeletingTypeOK

Job == [state : State, row : FileRow]

ReconTypeOK ==
    /\ recon.others \subseteq DiskID
    /\ DOMAIN recon.images \subseteq recon.others
    /\ recon.images \in [DOMAIN recon.images -> SUBSET Block]

RetrievedTypeOK ==
    /\ DOMAIN retrieved \subseteq {Base[p] : p \in Path}
    /\ retrieved \in [DOMAIN retrieved -> Content \cup {Partial}]

LEMMA TypeParts ==
    TypeOK <=> /\ ArchiveTypeOK
               /\ job = NoJob \/ job \in Job
               /\ call \in [Caller -> Call \cup {Idle}]
               /\ ReconTypeOK
               /\ RetrievedTypeOK
               /\ faults \in 0..MaxFaults
  BY DEF TypeOK, ArchiveTypeOK, Job, ReconTypeOK, RetrievedTypeOK

LEMMA TypePartsNext ==
    TypeOK' <=> /\ ArchiveTypeOK'
                /\ job' = NoJob \/ job' \in Job
                /\ call' \in [Caller -> Call \cup {Idle}]
                /\ ReconTypeOK'
                /\ RetrievedTypeOK'
                /\ faults' \in 0..MaxFaults
  BY DEF TypeOK, ArchiveTypeOK, Job, ReconTypeOK, RetrievedTypeOK

LEMMA ArchiveUnchanged ==
    ASSUME ArchiveTypeOK, UNCHANGED archiveVars
    PROVE  ArchiveTypeOK'
  BY DEF ArchiveTypeOK, archiveVars, catalogVars, dryRunPageVars, CatalogTypeOK,
         DeletingTypeOK

LEMMA CallFacts ==
    ASSUME call \in [Caller -> Call \cup {Idle}], NEW c \in Caller
    PROVE  /\ call[c] # Idle => call[c] \in Call
           /\ call[c].pc \in Step => call[c] # Idle
           /\ call[c] # Idle => call[c].pc \in Step
           /\ call[c] = Idle => call[c].pc = "idle"
  <1>1. Idle.pc = "idle" /\ "idle" \notin Step
    BY DEF Idle, Step
  <1>2. call[c] \in Call \/ call[c] = Idle
    OBVIOUS
  <1>3. call[c] \in Call => call[c].pc \in Step
    BY DEF Call
  <1> QED
    BY <1>1, <1>2, <1>3

LEMMA NoJobFacts ==
    /\ NoJob.state = "NONE"
    /\ "NONE" \notin State
    /\ "NONE" \notin Working
    /\ NoJob \notin Job
    /\ Working \subseteq State
    /\ "DONE" \notin Working
  BY DEF NoJob, State, Working, Job

(* Past its claim, a request is the only one, and the job is its own.      *)
LEMMA Claimed ==
    ASSUME NEW rows, IInv(rows), NEW c \in Caller, call[c] # Idle
    PROVE  /\ call[c] \in Call
           /\ job \in Job
           /\ job # NoJob
           /\ job.state \in Working
           /\ job.row \in FileRow
           /\ \A d \in Caller : d # c => call[d] = Idle
  <1>1. TypeOK /\ OneRequest
    BY DEF IInv
  <1>2. job.state \in Working /\ \A d \in Caller : d # c => call[d] = Idle
    BY <1>1 DEF OneRequest
  <1>3. job # NoJob
    BY <1>2, NoJobFacts
  <1>4. job \in Job
    BY <1>1, <1>3, TypeParts
  <1>5. job.row \in FileRow
    BY <1>4 DEF Job
  <1>6. call[c] \in Call
    BY <1>1, TypeParts, CallFacts
  <1> QED
    BY <1>2, <1>3, <1>4, <1>5, <1>6

-----------------------------------------------------------------------------
(* What every step leaves alone.                                           *)
LEMMA ShelfUnchanged ==
    ASSUME NEW rows, ShelfAgrees(rows), UNCHANGED <<shelf, dryRun>>
    PROVE  ShelfAgrees(rows)'
  BY DEF ShelfAgrees

LEMMA ReconUnchanged ==
    ASSUME NEW rows, ReconTypeOK, ReconShape, ReconAgrees(rows), recon' = recon
    PROVE  ReconTypeOK' /\ ReconShape' /\ ReconAgrees(rows)'
  BY DEF ReconAgrees, ReconTypeOK, ReconShape

ReconInv(rows) == ReconTypeOK /\ ReconShape /\ ReconAgrees(rows)

-----------------------------------------------------------------------------
(* The three ways in which a request moves on.                             *)
LEMMA Continues ==
    ASSUME NEW rows, IInv(rows), NEW c \in Caller, call[c] # Idle,
           job' = job, UNCHANGED <<archiveVars, retrieved, faults>>,
           call' \in [Caller -> Call \cup {Idle}],
           call'[c] \in Call,
           \A d \in Caller : d # c => call'[d] = call[d],
           BlocksAgree(rows, call'[c].image),
           call'[c].pc = "extract" =>
               \A b \in call'[c].image : b.kind = "data" /\ b.id = job.row.disk,
           ReconInv(rows)'
    PROVE  IInv(rows)'
  <1>1. /\ job \in Job /\ job # NoJob /\ job.state \in Working
        /\ \A d \in Caller : d # c => call'[d] = Idle
    BY Claimed
  <1>3. call'[c] # Idle /\ call'[c].pc \in Step
    <2>1. Idle.pc = "idle" /\ "idle" \notin Step
      BY DEF Idle, Step
    <2> QED
      BY <2>1 DEF Call
  <1>4. TypeOK'
    <2>1. ArchiveTypeOK /\ RetrievedTypeOK /\ faults \in 0..MaxFaults
      BY TypeParts DEF IInv
    <2>2. ArchiveTypeOK'
      BY <2>1, ArchiveUnchanged
    <2>3. RetrievedTypeOK'
      BY <2>1 DEF RetrievedTypeOK
    <2> QED
      BY <1>1, <2>1, <2>2, <2>3, TypePartsNext DEF ReconInv
  <1>5. OneRequest'
    BY <1>1, <1>3 DEF OneRequest
  <1>6. ImagesInv(rows)'
    <2>1. ShelfAgrees(rows)'
      BY ShelfUnchanged DEF IInv, ImagesInv, archiveVars, dryRunPageVars
    <2>2. CallsAgree(rows)'
      BY <1>1 DEF CallsAgree
    <2> QED
      BY <2>1, <2>2 DEF ImagesInv, ReconInv
  <1>7. Extracting'
    <2>1. \A d \in Caller : d # c => call'[d].pc # "extract"
      BY <1>1 DEF Idle
    <2> QED
      BY <2>1 DEF Extracting
  <1>8. Delivered(rows)'
    BY <1>1, NoJobFacts DEF Delivered
  <1> QED
    BY <1>4, <1>5, <1>6, <1>7, <1>8 DEF IInv, ReconInv

(* What Return does, whatever it says of the job.                          *)
LEMMA ReturnEffect ==
    ASSUME NEW rows, IInv(rows), NEW c \in Caller, call[c] # Idle,
           NEW s \in State \ Working, Return(c, s)
    PROVE  /\ job' \in Job /\ job' # NoJob /\ job'.state = s /\ job'.row = job.row
           /\ call' \in [Caller -> Call \cup {Idle}]
           /\ \A d \in Caller : call'[d] = Idle
  <1>1. /\ job \in Job
        /\ \A d \in Caller : d # c => call[d] = Idle
    BY Claimed
  <1>2. call \in [Caller -> Call \cup {Idle}]
    BY TypeParts DEF IInv
  <1>3. job' \in Job /\ job'.state = s /\ job'.row = job.row
    BY <1>1 DEF Return, SetState, Job
  <1>4. job' # NoJob
    BY <1>3, NoJobFacts
  <1>5. /\ call' \in [Caller -> Call \cup {Idle}]
        /\ \A d \in Caller : call'[d] = Idle
    BY <1>1, <1>2 DEF Return
  <1> QED
    BY <1>3, <1>4, <1>5

LEMMA Returns ==
    ASSUME NEW rows, IInv(rows), NEW c \in Caller, call[c] # Idle,
           NEW s \in State \ Working, Return(c, s), UNCHANGED archiveVars,
           RetrievedTypeOK', faults' \in 0..MaxFaults,
           s = "DONE" => Delivered(rows)',
           ReconInv(rows)'
    PROVE  IInv(rows)'
  <1>1. /\ job' \in Job /\ job' # NoJob /\ job'.state = s /\ job'.row = job.row
        /\ call' \in [Caller -> Call \cup {Idle}]
        /\ \A d \in Caller : call'[d] = Idle
    BY ReturnEffect
  <1>3. TypeOK'
    BY <1>1, ArchiveUnchanged, TypeParts, TypePartsNext DEF IInv, ReconInv
  <1>4. OneRequest'
    BY <1>1 DEF OneRequest
  <1>5. ImagesInv(rows)'
    <2>1. ShelfAgrees(rows)'
      BY ShelfUnchanged DEF IInv, ImagesInv, archiveVars, dryRunPageVars
    <2>2. CallsAgree(rows)'
      BY <1>1 DEF CallsAgree
    <2> QED
      BY <2>1, <2>2 DEF ImagesInv, ReconInv
  <1>6. Extracting'
    <2>1. \A d \in Caller : call'[d].pc # "extract"
      BY <1>1 DEF Idle
    <2> QED
      BY <2>1 DEF Extracting
  <1>7. Delivered(rows)'
    BY <1>1 DEF Delivered
  <1> QED
    BY <1>3, <1>4, <1>5, <1>6, <1>7 DEF IInv, ReconInv

LEMMA Claims ==
    ASSUME NEW rows, IInv(rows), NEW c \in Caller, call[c] = Idle,
           job.state \in State \ Working,
           NEW s \in Working, SetState(s),
           NEW pc \in Step \ {"extract"}, NEW disk \in DiskID, NEW medium \in DiskID,
           call' = [call EXCEPT ![c] = NewCall(pc, disk, medium)],
           UNCHANGED <<archiveVars, recon, retrieved, faults>>
    PROVE  IInv(rows)'
  <1>1. job # NoJob
    BY NoJobFacts
  <1>2. job \in Job /\ call \in [Caller -> Call \cup {Idle}]
    BY <1>1, TypeParts DEF IInv
  <1>3. job' \in Job /\ job'.state = s /\ job'.row = job.row
    BY <1>2, NoJobFacts DEF SetState, Job
  <1>4. job' # NoJob
    BY <1>3, NoJobFacts
  <1>6. \A d \in Caller : call[d] = Idle
    BY DEF IInv, OneRequest
  <1>7. NewCall(pc, disk, medium) \in Call
    BY DEF NewCall, Call, NoGroup
  <1>8. /\ call' \in [Caller -> Call \cup {Idle}]
        /\ call'[c] = NewCall(pc, disk, medium)
        /\ \A d \in Caller : d # c => call'[d] = Idle
    BY <1>2, <1>6, <1>7
  <1>9. call'[c] # Idle /\ call'[c].image = {} /\ call'[c].pc # "extract"
    BY <1>8 DEF NewCall, Idle
  <1>10. ReconInv(rows)'
    BY ReconUnchanged, TypeParts DEF IInv, ImagesInv, ReconInv
  <1>11. TypeOK'
    <2>1. RetrievedTypeOK' /\ faults' \in 0..MaxFaults
      BY TypeParts DEF IInv, RetrievedTypeOK
    <2> QED
      BY <1>3, <1>8, <1>10, <2>1, ArchiveUnchanged, TypeParts, TypePartsNext DEF IInv, ReconInv
  <1>12. OneRequest'
    BY <1>3, <1>8, <1>9 DEF OneRequest
  <1>13. ImagesInv(rows)'
    <2>1. ShelfAgrees(rows)'
      BY ShelfUnchanged DEF IInv, ImagesInv, archiveVars, dryRunPageVars
    <2>2. CallsAgree(rows)'
      BY <1>8, <1>9 DEF CallsAgree, BlocksAgree
    <2> QED
      BY <1>10, <2>1, <2>2 DEF ImagesInv, ReconInv
  <1>14. Extracting'
    <2>1. \A d \in Caller : call'[d].pc # "extract"
      BY <1>8, <1>9 DEF Idle
    <2> QED
      BY <2>1 DEF Extracting
  <1>15. Delivered(rows)'
    BY <1>3, NoJobFacts DEF Delivered
  <1> QED
    BY <1>10, <1>11, <1>12, <1>13, <1>14, <1>15 DEF IInv, ReconInv

-----------------------------------------------------------------------------
(* What is read.                                                           *)
LEMMA IsoBlockFacts ==
    ASSUME NEW image \in Image, NEW rows, ImageAgrees(rows, image)
    PROVE  /\ IsoBlock(image) \in Block
           /\ IsoBlock(image).kind = "data" => Agrees(rows, IsoBlock(image).id, IsoBlock(image).files)
  <1>1. CASE image.xor = {}
    BY <1>1 DEF Image, IsoBlock, Block, ImageAgrees
  <1>2. CASE image.xor # {}
    BY <1>2 DEF Image, IsoBlock, Block
  <1> QED
    BY <1>1, <1>2

LEMMA TruncatedFacts ==
    ASSUME NEW rows, NEW b \in Block, b.kind = "data" => Agrees(rows, b.id, b.files)
    PROVE  /\ Truncated(b) \in Block
           /\ Truncated(b).kind = "data" => Agrees(rows, Truncated(b).id, Truncated(b).files)
  <1>1. CASE b.kind = "data" /\ b.id \in TooLong
    <2>1. Truncated(b) = [b EXCEPT !.kind = "cut"]
      BY <1>1 DEF Truncated
    <2> QED
      BY <2>1 DEF Block
  <1>2. CASE ~(b.kind = "data" /\ b.id \in TooLong)
    <2>1. Truncated(b) = b
      BY <1>2 DEF Truncated
    <2> QED
      BY <2>1
  <1> QED
    BY <1>1, <1>2

LEMMA PayloadFacts ==
    ASSUME NEW image \in Image, NEW rows, ImageAgrees(rows, image)
    PROVE  Payload(image) \subseteq Block /\ BlocksAgree(rows, Payload(image))
  <1>1. ASSUME NEW x \in image.xor
        PROVE  /\ MemberBlock(x) \in Block
               /\ Agrees(rows, MemberBlock(x).id, MemberBlock(x).files)
    <2>1. x \in DataImage
      BY DEF Image
    <2>2. Agrees(rows, x.id, x.files)
      BY DEF ImageAgrees
    <2> QED
      BY <2>1, <2>2 DEF MemberBlock, Block, DataImage
  <1>2. ASSUME NEW b \in Payload(image)
        PROVE  b \in Block /\ (b.kind = "data" => Agrees(rows, b.id, b.files))
    <2>1. PICK x \in image.xor : b = Truncated(MemberBlock(x))
      BY DEF Payload
    <2> QED
      BY <1>1, <2>1, TruncatedFacts
  <1> QED
    BY <1>2 DEF BlocksAgree

(* XOR makes no block that was not in one of the images.                   *)
LEMMA XORFacts ==
    ASSUME NEW rows, NEW images, images \in [DOMAIN images -> SUBSET Block],
           \A d \in DOMAIN images : BlocksAgree(rows, images[d])
    PROVE  XOR(images) \subseteq Block /\ BlocksAgree(rows, XOR(images))
  <1>1. ASSUME NEW b \in XOR(images)
        PROVE  \E d \in DOMAIN images : b \in images[d]
    BY DEF XOR
  <1> QED
    BY <1>1 DEF BlocksAgree

(* Whatever lies at the path a request reads agrees with the catalog, if it *)
(* is an image at all.                                                     *)
LEMMA SourceFacts ==
    ASSUME NEW rows, IInv(rows), NEW c \in Caller, Present(c), ~CutShort(c)
    PROVE  /\ Source(c)[SourceID(c)] \in Image
           /\ ImageAgrees(rows, Source(c)[SourceID(c)])
  <1>1. /\ shelf \in [DOMAIN shelf -> Image]
        /\ dryRun \in [DOMAIN dryRun -> Image \cup {Corrupt}]
    BY DEF IInv, TypeOK
  <1>2. ShelfAgrees(rows)
    BY DEF IInv, ImagesInv
  <1>3. CASE call[c].dry
    BY <1>1, <1>2, <1>3 DEF Source, Present, CutShort, ShelfAgrees
  <1>4. CASE ~call[c].dry
    BY <1>1, <1>2, <1>4 DEF Source, Present, CutShort, ShelfAgrees
  <1> QED
    BY <1>3, <1>4

(* What a cut-short copy reads as is noise.                                *)
LEMMA RawFacts ==
    ASSUME NEW rows, IInv(rows), NEW c \in Caller, call[c] \in Call, Present(c)
    PROVE  RawBlocks(c) \subseteq Block /\ BlocksAgree(rows, RawBlocks(c))
  <1>1. CASE CutShort(c)
    <2>1. SourceID(c) \in DiskID
      BY DEF SourceID, Call
    <2>2. RawBlocks(c) = {Noise(SourceID(c))}
      BY <1>1 DEF RawBlocks
    <2> QED
      BY <2>1, <2>2 DEF Noise, Block, BlocksAgree
  <1>2. CASE ~CutShort(c)
    <2> DEFINE image == Source(c)[SourceID(c)]
    <2>1. RawBlocks(c) = {IsoBlock(image)}
      BY <1>2 DEF RawBlocks
    <2>2. image \in Image /\ ImageAgrees(rows, image)
      BY <1>2, SourceFacts
    <2> HIDE DEF image
    <2>3. /\ IsoBlock(image) \in Block
          /\ IsoBlock(image).kind = "data" =>
               Agrees(rows, IsoBlock(image).id, IsoBlock(image).files)
      BY <2>2, IsoBlockFacts
    <2> QED
      BY <2>1, <2>3 DEF BlocksAgree
  <1> QED
    BY <1>1, <1>2

LEMMA SourceBlocksFacts ==
    ASSUME NEW rows, IInv(rows), NEW c \in Caller, call[c] # Idle
    PROVE  SourceBlocks(c) \subseteq Block /\ BlocksAgree(rows, SourceBlocks(c))
  <1>1. call[c] \in Call
    BY Claimed
  <1>2. CASE call[c].rebuilt
    <2>1. call[c].image \subseteq Block
      BY <1>1 DEF Call
    <2> QED
      BY <1>2, <2>1 DEF SourceBlocks, IInv, ImagesInv, CallsAgree
  <1>3. CASE ~call[c].rebuilt /\ Present(c)
    BY <1>1, <1>3, RawFacts DEF SourceBlocks
  <1>4. CASE ~call[c].rebuilt /\ ~Present(c)
    BY <1>4 DEF SourceBlocks, BlocksAgree
  <1> QED
    BY <1>2, <1>3, <1>4

LEMMA OperandFacts ==
    ASSUME NEW rows, IInv(rows), NEW c \in Caller, call[c] \in Call, Present(c)
    PROVE  Operand(c) \subseteq Block /\ BlocksAgree(rows, Operand(c))
  <1>1. CASE call[c].parity /\ ~CutShort(c)
    <2> DEFINE image == Source(c)[SourceID(c)]
    <2>1. image \in Image /\ ImageAgrees(rows, image)
      BY <1>1, SourceFacts
    <2>2. Operand(c) = Payload(image)
      BY <1>1 DEF Operand
    <2> HIDE DEF image
    <2> QED
      BY <2>1, <2>2, PayloadFacts
  <1>2. CASE ~(call[c].parity /\ ~CutShort(c))
    <2>1. RawBlocks(c) \subseteq Block /\ BlocksAgree(rows, RawBlocks(c))
      BY RawFacts
    <2>2. Operand(c) = {Truncated(b) : b \in RawBlocks(c)}
      BY <1>2 DEF Operand
    <2>3. ASSUME NEW b \in RawBlocks(c)
          PROVE  /\ Truncated(b) \in Block
                 /\ Truncated(b).kind = "data" =>
                      Agrees(rows, Truncated(b).id, Truncated(b).files)
      BY <2>1, TruncatedFacts DEF BlocksAgree
    <2>4. \A t \in Operand(c) : t \in Block /\ (t.kind = "data" => Agrees(rows, t.id, t.files))
      BY <2>2, <2>3
    <2> QED
      BY <2>4 DEF BlocksAgree
  <1> QED
    BY <1>1, <1>2

-----------------------------------------------------------------------------
(* A request's step that leaves the reconstructor and the retrieved        *)
(* directory alone keeps what is said of them.                             *)
LEMMA RestUnchanged ==
    ASSUME NEW rows, IInv(rows), UNCHANGED <<recon, retrieved, faults>>
    PROVE  ReconInv(rows)' /\ RetrievedTypeOK' /\ faults' \in 0..MaxFaults
  <1>1. ReconInv(rows)'
    BY ReconUnchanged, TypeParts DEF IInv, ImagesInv, ReconInv
  <1>2. RetrievedTypeOK'
    BY TypeParts DEF IInv, RetrievedTypeOK
  <1> QED
    BY <1>1, <1>2, TypeParts DEF IInv

LEMMA PlainReturn ==
    ASSUME NEW rows, IInv(rows), NEW c \in Caller, call[c] # Idle,
           NEW s \in State \ (Working \cup {"DONE"}), Return(c, s),
           UNCHANGED <<archiveVars, recon, retrieved, faults>>
    PROVE  IInv(rows)'
  BY RestUnchanged, Returns

LEMMA PlainStep ==
    ASSUME NEW rows, IInv(rows), NEW c \in Caller, call[c] # Idle,
           job' = job, UNCHANGED <<archiveVars, recon, retrieved, faults>>,
           call' \in [Caller -> Call \cup {Idle}],
           call'[c] \in Call,
           \A d \in Caller : d # c => call'[d] = call[d],
           BlocksAgree(rows, call'[c].image),
           call'[c].pc = "extract" =>
               \A b \in call'[c].image : b.kind = "data" /\ b.id = job.row.disk
    PROVE  IInv(rows)'
  BY RestUnchanged, Continues

LEMMA ReturnStates ==
    /\ "FAILED" \in State \ (Working \cup {"DONE"})
    /\ "NEEDS_RECONSTRUCTION" \in State \ (Working \cup {"DONE"})
    /\ "RECONSTRUCTING" \in State \ (Working \cup {"DONE"})
    /\ "DONE" \in State \ Working
    /\ "AWAITING_MEDIA" \in State \ Working
  BY DEF State, Working

LEMMA GetDiskType ==
    ASSUME NEW rows, IInv(rows), NEW id, NEW row \in GetDisk(id)
    PROVE  row \in DiskRow
  BY DEF IInv, TypeOK, CatalogTypeOK, GetDisk

LEMMA ImageTypeAgrees ==
    ASSUME NEW rows, IInv(rows), NEW c \in Caller, call[c] # Idle
    PROVE  BlocksAgree(rows, call[c].image)
  BY DEF IInv, ImagesInv, CallsAgree

-----------------------------------------------------------------------------
(* One lemma per action.                                                   *)
LEMMA CallType ==
    ASSUME NEW rows, IInv(rows)
    PROVE  call \in [Caller -> Call \cup {Idle}]
  BY DEF IInv, TypeOK

LEMMA PastClaim ==
    ASSUME NEW rows, IInv(rows), NEW c \in Caller, call[c].pc \in Step
    PROVE  call[c] # Idle /\ call[c] \in Call /\ call \in [Caller -> Call \cup {Idle}]
  BY CallType, CallFacts

LEMMA LookupDiskKeeps ==
    ASSUME NEW rows, IInv(rows), NEW c \in Caller, LookupDisk(c)
    PROVE  IInv(rows)'
  <1>1. call[c] # Idle /\ call[c] \in Call /\ call \in [Caller -> Call \cup {Idle}]
    BY PastClaim DEF LookupDisk, Step
  <1>2. CASE Return(c, "FAILED")
    BY <1>1, <1>2, PlainReturn, ReturnStates DEF LookupDisk
  <1>3. ASSUME NEW row \in GetDisk(call[c].disk),
               call' = [call EXCEPT ![c].pc = "read", ![c].dry = row.dry], job' = job
        PROVE  IInv(rows)'
    <2>1. row.dry \in BOOLEAN
      BY GetDiskType DEF DiskRow
    <2>2. /\ call' \in [Caller -> Call \cup {Idle}]
          /\ call'[c] \in Call
          /\ call'[c].image = call[c].image
          /\ call'[c].pc = "read"
          /\ \A d \in Caller : d # c => call'[d] = call[d]
      BY <1>1, <1>3, <2>1 DEF Call, Step
    <2>3. UNCHANGED <<archiveVars, recon, retrieved, faults>>
      BY DEF LookupDisk
    <2>4. BlocksAgree(rows, call'[c].image) /\ call'[c].pc # "extract"
      BY <1>1, <2>2, ImageTypeAgrees
    <2> QED
      BY <1>1, <1>3, <2>2, <2>3, <2>4, PlainStep
  <1> QED
    BY <1>2, <1>3 DEF LookupDisk

LEMMA ReadPayloadKeeps ==
    ASSUME NEW rows, IInv(rows), NEW c \in Caller, ReadPayload(c)
    PROVE  IInv(rows)'
  <1>1. call[c] # Idle /\ call[c] \in Call /\ call \in [Caller -> Call \cup {Idle}]
    BY PastClaim DEF ReadPayload, Step
  <1>2. CASE Return(c, "FAILED")
    BY <1>1, <1>2, PlainReturn, ReturnStates DEF ReadPayload
  <1>3. CASE Return(c, "NEEDS_RECONSTRUCTION")
    BY <1>1, <1>3, PlainReturn, ReturnStates DEF ReadPayload
  <1>4. CASE /\ Intact(c)
             /\ call' = [call EXCEPT ![c].pc = "extract", ![c].image = SourceBlocks(c)]
             /\ UNCHANGED job
    <2>1. SourceBlocks(c) \subseteq Block /\ BlocksAgree(rows, SourceBlocks(c))
      BY <1>1, SourceBlocksFacts
    <2>2. /\ call' \in [Caller -> Call \cup {Idle}]
          /\ call'[c] \in Call
          /\ call'[c].image = SourceBlocks(c)
          /\ \A d \in Caller : d # c => call'[d] = call[d]
      BY <1>1, <1>4, <2>1 DEF Call, Step
    <2>3. \A b \in call'[c].image : b.kind = "data" /\ b.id = job.row.disk
      BY <1>4, <2>2 DEF Intact
    <2>4. UNCHANGED <<archiveVars, recon, retrieved, faults>>
      BY DEF ReadPayload
    <2> QED
      BY <1>1, <1>4, <2>1, <2>2, <2>3, <2>4, PlainStep
  <1> QED
    BY <1>2, <1>3, <1>4 DEF ReadPayload

(* The content found is that of the row: the image is of the row's disc,   *)
(* and agrees with the catalog.                                            *)
LEMMA ExtractFileKeeps ==
    ASSUME NEW rows, IInv(rows), NEW c \in Caller, ExtractFile(c)
    PROVE  IInv(rows)'
  <1>1. call[c] # Idle /\ call[c] \in Call /\ call \in [Caller -> Call \cup {Idle}]
    BY PastClaim DEF ExtractFile, Step
  <1>2. CASE Return(c, "FAILED") /\ UNCHANGED retrieved
    BY <1>1, <1>2, PlainReturn, ReturnStates DEF ExtractFile
  <1>3. ASSUME NEW x \in Content, NEW b \in call[c].image, <<job.row.path, x>> \in b.files,
               retrieved' = Extend(retrieved, Base[job.row.path], x), Return(c, "DONE")
        PROVE  IInv(rows)'
    <2>1. job \in Job /\ job # NoJob /\ job.row \in FileRow
      BY <1>1, Claimed
    <2>2. /\ job' # NoJob /\ job'.row = job.row
      BY <1>1, <1>3, ReturnEffect, ReturnStates
    <2>3. b.kind = "data" /\ b.id = job.row.disk
      BY DEF IInv, Extracting, ExtractFile
    <2>4. job.row \in rows => x = job.row.hash
      BY <1>1, <1>3, <2>1, <2>3, ImageTypeAgrees DEF BlocksAgree, Agrees
    <2>5. job.row.path \in Path /\ job.row.hash \in Content
      BY <2>1 DEF FileRow
    <2>6. Delivered(rows)'
      BY <1>3, <2>2, <2>4 DEF Delivered, Extend
    <2>7. RetrievedTypeOK'
      <3>1. RetrievedTypeOK
        BY TypeParts DEF IInv
      <3> QED
        BY <1>3, <2>5, <3>1 DEF RetrievedTypeOK, Extend
    <2>8. ReconInv(rows)' /\ faults' \in 0..MaxFaults
      BY ReconUnchanged, TypeParts DEF IInv, ImagesInv, ReconInv, ExtractFile
    <2> QED
      BY <1>1, <1>3, <2>6, <2>7, <2>8, Returns, ReturnStates DEF ExtractFile
  <1> QED
    BY <1>2, <1>3 DEF ExtractFile

LEMMA ResolveGroupKeeps ==
    ASSUME NEW rows, IInv(rows), NEW c \in Caller, ResolveGroup(c)
    PROVE  IInv(rows)'
  <1>1. call[c] # Idle /\ call[c] \in Call /\ call \in [Caller -> Call \cup {Idle}]
    BY PastClaim DEF ResolveGroup, Step
  <1>2. CASE Return(c, "NEEDS_RECONSTRUCTION")
    BY <1>1, <1>2, PlainReturn, ReturnStates DEF ResolveGroup
  <1>3. ASSUME NEW row \in GetDisk(call[c].disk),
               call' = [call EXCEPT ![c].pc = "members", ![c].group = row.group], job' = job
        PROVE  IInv(rows)'
    <2>1. row.group \in Nat
      BY GetDiskType DEF DiskRow
    <2>2. /\ call' \in [Caller -> Call \cup {Idle}]
          /\ call'[c] \in Call
          /\ call'[c].image = call[c].image
          /\ call'[c].pc = "members"
          /\ \A d \in Caller : d # c => call'[d] = call[d]
      BY <1>1, <1>3, <2>1 DEF Call, Step
    <2>3. UNCHANGED <<archiveVars, recon, retrieved, faults>>
      BY DEF ResolveGroup
    <2>4. BlocksAgree(rows, call'[c].image) /\ call'[c].pc # "extract"
      BY <1>1, <2>2, ImageTypeAgrees
    <2> QED
      BY <1>1, <1>3, <2>2, <2>3, <2>4, PlainStep
  <1> QED
    BY <1>2, <1>3 DEF ResolveGroup

LEMMA NewReconstructorKeeps ==
    ASSUME NEW rows, IInv(rows), NEW c \in Caller, NewReconstructor(c)
    PROVE  IInv(rows)'
  <1>1. call[c] # Idle /\ call[c] \in Call /\ call \in [Caller -> Call \cup {Idle}]
    BY PastClaim DEF NewReconstructor, Step
  <1>2. CASE Return(c, "NEEDS_RECONSTRUCTION") /\ UNCHANGED recon
    BY <1>1, <1>2, PlainReturn, ReturnStates DEF NewReconstructor
  <1>3. ASSUME recon' = [NoReconstructor EXCEPT
                           !.others = GroupMembers(call[c].group) \ {call[c].disk}],
               Return(c, "RECONSTRUCTING")
        PROVE  IInv(rows)'
    <2>1. GroupMembers(call[c].group) \subseteq DiskID
      BY DEF GroupMembers, IInv, TypeOK, CatalogTypeOK
    <2>2. /\ recon' = [others |-> recon'.others, images |-> recon'.images]
          /\ recon'.others = GroupMembers(call[c].group) \ {call[c].disk}
          /\ recon'.images = [d \in {} |-> 0]
      BY <1>3 DEF NoReconstructor
    <2>3. DOMAIN recon'.images = {}
      BY <2>2
    <2>4. ReconInv(rows)'
      BY <2>1, <2>2, <2>3 DEF ReconInv, ReconTypeOK, ReconShape, ReconAgrees
    <2>5. RetrievedTypeOK' /\ faults' \in 0..MaxFaults
      BY TypeParts DEF IInv, RetrievedTypeOK, NewReconstructor
    <2> QED
      BY <1>1, <1>3, <2>4, <2>5, Returns, ReturnStates DEF NewReconstructor
  <1> QED
    BY <1>2, <1>3 DEF NewReconstructor

LEMMA LookupMemberKeeps ==
    ASSUME NEW rows, IInv(rows), NEW c \in Caller, LookupMember(c)
    PROVE  IInv(rows)'
  <1>1. call[c] # Idle /\ call[c] \in Call /\ call \in [Caller -> Call \cup {Idle}]
    BY PastClaim DEF LookupMember, Step
  <1>2. CASE Return(c, "RECONSTRUCTING")
    BY <1>1, <1>2, PlainReturn, ReturnStates DEF LookupMember
  <1>3. ASSUME NEW row \in GetDisk(call[c].disk), job' = job,
               call' = [call EXCEPT ![c].pc = "readMember", ![c].dry = row.dry,
                                    ![c].parity = row.role = "parity"]
        PROVE  IInv(rows)'
    <2>1. row.dry \in BOOLEAN /\ (row.role = "parity") \in BOOLEAN
      BY GetDiskType DEF DiskRow
    <2>2. /\ call' \in [Caller -> Call \cup {Idle}]
          /\ call'[c] \in Call
          /\ call'[c].image = call[c].image
          /\ call'[c].pc = "readMember"
          /\ \A d \in Caller : d # c => call'[d] = call[d]
      BY <1>1, <1>3, <2>1 DEF Call, Step
    <2>3. UNCHANGED <<archiveVars, recon, retrieved, faults>>
      BY DEF LookupMember
    <2>4. BlocksAgree(rows, call'[c].image) /\ call'[c].pc # "extract"
      BY <1>1, <2>2, ImageTypeAgrees
    <2> QED
      BY <1>1, <1>3, <2>2, <2>3, <2>4, PlainStep
  <1> QED
    BY <1>2, <1>3 DEF LookupMember

LEMMA ReadMemberKeeps ==
    ASSUME NEW rows, IInv(rows), NEW c \in Caller, ReadMember(c)
    PROVE  IInv(rows)'
  <1>1. call[c] # Idle /\ call[c] \in Call /\ call \in [Caller -> Call \cup {Idle}]
    BY PastClaim DEF ReadMember, Step
  <1>2. CASE Return(c, "RECONSTRUCTING")
    BY <1>1, <1>2, PlainReturn, ReturnStates DEF ReadMember
  <1>3. ASSUME MemberReadable(c), job' = job,
               NEW noise \in {{}, {Noise(call[c].medium)}},
               call' = [call EXCEPT ![c].pc = "fold", ![c].image = Operand(c) \cup noise]
        PROVE  IInv(rows)'
    <2>1. Operand(c) \subseteq Block /\ BlocksAgree(rows, Operand(c))
      BY <1>1, <1>3, OperandFacts DEF MemberReadable
    <2>2. Noise(call[c].medium) \in Block /\ Noise(call[c].medium).kind # "data"
      BY <1>1 DEF Noise, Block, Call
    <2>3. Operand(c) \cup noise \subseteq Block /\ BlocksAgree(rows, Operand(c) \cup noise)
      BY <2>1, <2>2 DEF BlocksAgree
    <2>4. /\ call' \in [Caller -> Call \cup {Idle}]
          /\ call'[c] \in Call
          /\ call'[c].image = Operand(c) \cup noise
          /\ call'[c].pc = "fold"
          /\ \A d \in Caller : d # c => call'[d] = call[d]
      BY <1>1, <1>3, <2>3 DEF Call, Step
    <2>5. UNCHANGED <<archiveVars, recon, retrieved, faults>>
      BY DEF ReadMember
    <2> QED
      BY <1>1, <1>3, <2>3, <2>4, <2>5, PlainStep
  <1> QED
    BY <1>2, <1>3 DEF ReadMember

LEMMA FoldImageKeeps ==
    ASSUME NEW rows, IInv(rows), NEW c \in Caller, FoldImage(c)
    PROVE  IInv(rows)'
  <1>1. call[c] # Idle /\ call[c] \in Call /\ call \in [Caller -> Call \cup {Idle}]
    BY PastClaim DEF FoldImage, Step
  <1>2. CASE call[c].disk \notin recon.others
    BY <1>1, <1>2, PlainReturn, ReturnStates DEF FoldImage
  <1>3. CASE call[c].disk \in recon.others
    <2> DEFINE images == Extend(recon.images, call[c].disk, call[c].image)
    <2>1. call[c].image \subseteq Block /\ BlocksAgree(rows, call[c].image)
      BY <1>1, ImageTypeAgrees DEF Call
    <2>2. ReconTypeOK /\ ReconShape /\ ReconAgrees(rows)
      BY TypeParts DEF IInv, ImagesInv
    <2>3. /\ DOMAIN images = DOMAIN recon.images \cup {call[c].disk}
          /\ images \in [DOMAIN images -> SUBSET Block]
          /\ \A d \in DOMAIN images : images[d] = call[c].image \/
                                      (d \in DOMAIN recon.images /\ images[d] = recon.images[d])
      BY <2>1, <2>2 DEF Extend, ReconTypeOK
    <2>4. \A d \in DOMAIN images : BlocksAgree(rows, images[d])
      BY <2>1, <2>2, <2>3 DEF ReconAgrees
    <2>5. recon' = [recon EXCEPT !.images = images]
      BY <1>3 DEF FoldImage
    <2>5a. \/ /\ call' = [call EXCEPT ![c].pc = "write", ![c].image = XOR(images)]
              /\ UNCHANGED job
           \/ Return(c, "RECONSTRUCTING")
      BY <1>3 DEF FoldImage
    <2> HIDE DEF images
    <2>6. /\ recon' = [others |-> recon'.others, images |-> recon'.images]
          /\ recon'.others = recon.others
          /\ recon'.images = images
      <3>1. recon = [others |-> recon.others, images |-> recon.images]
        BY <2>2 DEF ReconShape
      <3> QED
        BY <2>5, <3>1
    <2>7. ReconTypeOK' /\ ReconShape'
      BY <1>3, <2>2, <2>3, <2>6 DEF ReconTypeOK, ReconShape
    <2>8. ReconInv(rows)'
      BY <2>4, <2>6, <2>7 DEF ReconAgrees, ReconInv
    <2>9. RetrievedTypeOK' /\ faults' \in 0..MaxFaults
      BY TypeParts DEF IInv, RetrievedTypeOK, FoldImage
    <2>10. CASE Return(c, "RECONSTRUCTING")
      BY <1>1, <2>8, <2>9, <2>10, Returns, ReturnStates DEF FoldImage
    <2>11. CASE /\ call' = [call EXCEPT ![c].pc = "write", ![c].image = XOR(images)]
                /\ UNCHANGED job
      <3>1. XOR(images) \subseteq Block /\ BlocksAgree(rows, XOR(images))
        BY <2>3, <2>4, XORFacts
      <3>2. /\ call' \in [Caller -> Call \cup {Idle}]
            /\ call'[c] \in Call
            /\ call'[c].image = XOR(images)
            /\ call'[c].pc = "write"
            /\ \A d \in Caller : d # c => call'[d] = call[d]
        BY <1>1, <2>11, <3>1 DEF Call, Step
      <3>3. UNCHANGED <<archiveVars, retrieved, faults>>
        BY DEF FoldImage
      <3> QED
        BY <1>1, <2>8, <2>11, <3>1, <3>2, <3>3, Continues
    <2> QED
      BY <2>5a, <2>10, <2>11
  <1> QED
    BY <1>2, <1>3

LEMMA WriteRebuiltKeeps ==
    ASSUME NEW rows, IInv(rows), NEW c \in Caller, WriteRebuilt(c)
    PROVE  IInv(rows)'
  <1>1. call[c] # Idle /\ call[c] \in Call /\ call \in [Caller -> Call \cup {Idle}]
    BY PastClaim DEF WriteRebuilt, Step
  <1>2. /\ call' \in [Caller -> Call \cup {Idle}]
        /\ call'[c] \in Call
        /\ call'[c].image = call[c].image
        /\ call'[c].pc = "read"
        /\ \A d \in Caller : d # c => call'[d] = call[d]
    BY <1>1 DEF WriteRebuilt, Call, Step
  <1>3. UNCHANGED <<archiveVars, job, recon, retrieved, faults>>
    BY DEF WriteRebuilt
  <1>4. BlocksAgree(rows, call'[c].image) /\ call'[c].pc # "extract"
    BY <1>1, <1>2, ImageTypeAgrees
  <1> QED
    BY <1>1, <1>2, <1>3, <1>4, PlainStep

LEMMA RowDisk ==
    ASSUME NEW rows, IInv(rows), job.state \in State
    PROVE  job.row.disk \in DiskID
  <1>1. job \in Job
    BY NoJobFacts, TypeParts DEF IInv
  <1> QED
    BY <1>1 DEF Job, FileRow

LEMMA OperatorStepKeeps ==
    ASSUME NEW rows, IInv(rows), NEW c \in Caller, OperatorStep(c)
    PROVE  IInv(rows)'
  <1>1. Label \subseteq DiskID
    BY DEF Label, IInv, TypeOK, CatalogTypeOK
  <1>2. ASSUME NEW m \in Label, ClaimRead(c, m) PROVE IInv(rows)'
    <2>1. job.state \in State \ Working /\ "READING_DISC" \in Working /\ "lookup" \in Step
      BY <1>2 DEF ClaimRead, State, Working, Step
    <2>2. job.row.disk \in DiskID
      BY <2>1, RowDisk
    <2> QED
      BY <1>1, <1>2, <2>1, <2>2, Claims DEF ClaimRead
  <1>3. CASE ClaimReconstruction(c)
    <2>1. /\ job.state \in State \ Working /\ "STARTING_RECONSTRUCTION" \in Working
          /\ "resolve" \in Step
      BY <1>3 DEF ClaimReconstruction, State, Working, Step
    <2>2. job.row.disk \in DiskID
      BY <2>1, RowDisk
    <2> QED
      BY <1>3, <2>1, <2>2, Claims DEF ClaimReconstruction
  <1>4. ASSUME NEW d \in Label, NEW m \in Label, ClaimMember(c, d, m)
        PROVE  IInv(rows)'
    <2>1. /\ job.state \in State \ Working /\ "READING_RECONSTRUCTION_DISC" \in Working
          /\ "lookupMember" \in Step
      BY <1>4 DEF ClaimMember, State, Working, Step
    <2> QED
      BY <1>1, <1>4, <2>1, Claims DEF ClaimMember
  <1> QED
    BY <1>2, <1>3, <1>4 DEF OperatorStep

(* While nothing is claimed there is no request that could be disturbed.   *)
LEMMA StartKeeps ==
    ASSUME NEW rows, IInv(rows), NEW row \in files, Start(row)
    PROVE  IInv(rows)'
  <1>1. job.state \notin Working /\ job'.state = "AWAITING_MEDIA" /\ job'.row = row
    BY DEF Start, Working
  <1>2. row \in FileRow /\ "AWAITING_MEDIA" \in State
    BY DEF IInv, TypeOK, CatalogTypeOK, State
  <1>3. job' \in Job
    BY <1>2 DEF Start, Job
  <1>5. \A c \in Caller : call[c] = Idle
    BY <1>1 DEF IInv, OneRequest
  <1>6. UNCHANGED <<archiveVars, call, recon, retrieved, faults>>
    BY DEF Start
  <1>7. ReconInv(rows)'
    BY <1>6, ReconUnchanged, TypeParts DEF IInv, ImagesInv, ReconInv
  <1>8. TypeOK'
    <2>1. RetrievedTypeOK'
      BY <1>6, TypeParts DEF IInv, RetrievedTypeOK
    <2> QED
      BY <1>3, <1>6, <1>7, <2>1, ArchiveUnchanged, TypeParts, TypePartsNext DEF IInv, ReconInv
  <1>9. OneRequest'
    BY <1>1, <1>5, <1>6, ReturnStates DEF OneRequest
  <1>10. ImagesInv(rows)'
    <2>1. ShelfAgrees(rows)'
      BY <1>6, ShelfUnchanged DEF IInv, ImagesInv, archiveVars, dryRunPageVars
    <2>2. CallsAgree(rows)'
      BY <1>5, <1>6 DEF CallsAgree
    <2> QED
      BY <1>7, <2>1, <2>2 DEF ImagesInv, ReconInv
  <1>11. Extracting'
    <2>1. \A d \in Caller : call'[d].pc # "extract"
      BY <1>5, <1>6 DEF Idle
    <2> QED
      BY <2>1 DEF Extracting
  <1>12. Delivered(rows)'
    BY <1>1 DEF Delivered
  <1> QED
    BY <1>7, <1>8, <1>9, <1>10, <1>11, <1>12 DEF IInv, ReconInv

LEMMA AfterFailureState ==
    ASSUME NEW pc \in Step
    PROVE  AfterFailure(pc) \subseteq State \ (Working \cup {"DONE"})
  <1>1. AfterFailure(pc) \subseteq {"FAILED", "NEEDS_RECONSTRUCTION", "RECONSTRUCTING"}
    BY DEF AfterFailure, Step
  <1> QED
    BY <1>1, ReturnStates

LEMMA FaultKeeps ==
    ASSUME faults \in 0..MaxFaults, Fault
    PROVE  faults' \in 0..MaxFaults
  BY RetrievalAssumption DEF Fault

LEMMA StepFailsKeeps ==
    ASSUME NEW rows, IInv(rows), NEW c \in Caller, StepFails(c)
    PROVE  IInv(rows)'
  <1>1. call[c] # Idle /\ call[c].pc \in Step
    BY CallType, CallFacts DEF StepFails
  <1>2. PICK s \in State \ (Working \cup {"DONE"}) : Return(c, s)
    BY <1>1, AfterFailureState DEF StepFails
  <1>3. /\ job # NoJob /\ job' # NoJob /\ job'.row = job.row
        /\ job.row \in FileRow
    BY <1>1, <1>2, Claimed, ReturnEffect
  <1>4. ReconInv(rows)'
    BY ReconUnchanged, TypeParts DEF IInv, ImagesInv, ReconInv, StepFails
  <1>5. RetrievedTypeOK'
    <2>1. RetrievedTypeOK
      BY TypeParts DEF IInv
    <2>2. job.row.path \in Path
      BY <1>3 DEF FileRow
    <2>3. CASE retrieved' = retrieved
      BY <2>1, <2>3 DEF RetrievedTypeOK
    <2>4. CASE retrieved' = Extend(retrieved, Base[job.row.path], Partial)
      BY <2>1, <2>2, <2>4 DEF RetrievedTypeOK, Extend
    <2> QED
      BY <2>3, <2>4 DEF StepFails
  <1>6. faults' \in 0..MaxFaults
    BY FaultKeeps, TypeParts DEF IInv, StepFails
  <1> QED
    BY <1>1, <1>2, <1>4, <1>5, <1>6, Returns DEF StepFails

LEMMA RequestStepKeeps ==
    ASSUME NEW rows, IInv(rows), NEW c \in Caller, RequestStep(c)
    PROVE  IInv(rows)'
  BY LookupDiskKeeps, ReadPayloadKeeps, ExtractFileKeeps, ResolveGroupKeeps,
     NewReconstructorKeeps, LookupMemberKeeps, ReadMemberKeeps, FoldImageKeeps,
     WriteRebuiltKeeps DEF RequestStep

-----------------------------------------------------------------------------
(* A step of somebody else, after which the images still agree with the    *)
(* rows.                                                                   *)
LEMMA Beside ==
    ASSUME NEW rows, IInv(rows), UNCHANGED <<job, call, recon, retrieved>>,
           ArchiveTypeOK', ShelfAgrees(rows)', faults' \in 0..MaxFaults
    PROVE  IInv(rows)'
  <1>1. ReconInv(rows)'
    BY ReconUnchanged, TypeParts DEF IInv, ImagesInv, ReconInv
  <1>2. TypeOK'
    <2>1. RetrievedTypeOK'
      BY TypeParts DEF IInv, RetrievedTypeOK
    <2> QED
      BY <1>1, <2>1, TypeParts, TypePartsNext DEF IInv, ReconInv
  <1>3. OneRequest' /\ Extracting' /\ Delivered(rows)'
    BY DEF IInv, OneRequest, Extracting, Delivered
  <1>4. CallsAgree(rows)'
    BY DEF IInv, ImagesInv, CallsAgree
  <1> QED
    BY <1>1, <1>2, <1>3, <1>4 DEF IInv, ImagesInv, ReconInv

(* The dry-run page and the share only take away: rows, discs and ISO      *)
(* files vanish, or an ISO file gets another name.                         *)
LEMMA BesideShelf ==
    ASSUME NEW rows, IInv(rows), UNCHANGED retrievalVars,
           ArchiveTypeOK', faults' \in 0..MaxFaults,
           \A d \in DOMAIN dryRun' : \E e \in DOMAIN dryRun : dryRun'[d] = dryRun[e]
    PROVE  IInv(rows)'
  <1>1. ShelfAgrees(rows)
    BY DEF IInv, ImagesInv
  <1>2. ShelfAgrees(rows)'
    <2>1. \A d \in DOMAIN shelf' : ImageAgrees(rows, shelf'[d])
      BY <1>1 DEF ShelfAgrees, retrievalVars
    <2>2. \A d \in DOMAIN dryRun' : dryRun'[d] # Corrupt => ImageAgrees(rows, dryRun'[d])
      BY <1>1 DEF ShelfAgrees
    <2> QED
      BY <2>1, <2>2 DEF ShelfAgrees
  <1> QED
    BY <1>2, Beside DEF retrievalVars

LEMMA RemoveISOKeeps ==
    ASSUME NEW rows, IInv(rows), NEW x \in Deleter, NEW d \in DiskID, RemoveISO(x, d),
           UNCHANGED <<retrievalVars, faults>>
    PROVE  IInv(rows)'
  <1>1. ArchiveTypeOK /\ faults \in 0..MaxFaults
    BY TypeParts DEF IInv
  <1>3. DeletingTypeOK'
    <2>1. [step |-> "files", disk |-> d] \in Deletion
      BY DEF Deletion
    <2> QED
      BY <1>1, <2>1 DEF ArchiveTypeOK, DeletingTypeOK, RemoveISO
  <1>4. ArchiveTypeOK'
    BY <1>1, <1>3 DEF ArchiveTypeOK, CatalogTypeOK, RemoveISO, catalogVars, retrievalVars
  <1>5. \A e \in DOMAIN dryRun' : \E f \in DOMAIN dryRun : dryRun'[e] = dryRun[f]
    BY DEF RemoveISO, catalogVars
  <1> QED
    BY <1>1, <1>4, <1>5, BesideShelf

LEMMA DeleteFilesKeeps ==
    ASSUME NEW rows, IInv(rows), NEW x \in Deleter, DeleteFiles(x), UNCHANGED <<retrievalVars, faults>>
    PROVE  IInv(rows)'
  <1>1. ArchiveTypeOK /\ faults \in 0..MaxFaults
    BY TypeParts DEF IInv
  <1>2. DeletingTypeOK'
    <2>1. deleting[x] # NotDeleting
      BY DEF DeleteFiles, NotDeleting
    <2>2. deleting[x] \in Deletion
      BY <1>1, <2>1 DEF ArchiveTypeOK, DeletingTypeOK
    <2> QED
      BY <1>1, <2>2 DEF ArchiveTypeOK, DeletingTypeOK, DeleteFiles, Deletion
  <1>3. files' \subseteq files
    BY DEF DeleteFiles, DeleteDryRunFiles
  <1>4. ArchiveTypeOK'
    BY <1>1, <1>2, <1>3 DEF ArchiveTypeOK, CatalogTypeOK, DeleteFiles, retrievalVars
  <1>5. \A e \in DOMAIN dryRun' : \E f \in DOMAIN dryRun : dryRun'[e] = dryRun[f]
    BY DEF DeleteFiles
  <1> QED
    BY <1>1, <1>4, <1>5, BesideShelf

LEMMA DeleteDiskKeeps ==
    ASSUME NEW rows, IInv(rows), NEW x \in Deleter, DeleteDisk(x), UNCHANGED <<retrievalVars, faults>>
    PROVE  IInv(rows)'
  <1>1. ArchiveTypeOK /\ faults \in 0..MaxFaults
    BY TypeParts DEF IInv
  <1>2. DeletingTypeOK'
    BY <1>1 DEF ArchiveTypeOK, DeletingTypeOK, DeleteDisk
  <1>3. /\ DOMAIN disks' \subseteq DOMAIN disks
        /\ disks' \in [DOMAIN disks' -> DiskRow]
    <2>1. disks \in [DOMAIN disks -> DiskRow]
      BY <1>1 DEF ArchiveTypeOK, CatalogTypeOK
    <2>2. CASE DeleteDiskRefused(deleting[x].disk)
      BY <2>1, <2>2 DEF DeleteDiskRefused
    <2>3. CASE DeleteDryRunDisk(deleting[x].disk)
      BY <2>1, <2>3 DEF DeleteDryRunDisk
    <2> QED
      BY <2>2, <2>3 DEF DeleteDisk
  <1>4. IsFiniteSet(DOMAIN disks')
    BY <1>1, <1>3, FS_Subset DEF ArchiveTypeOK, CatalogTypeOK
  <1>5. ArchiveTypeOK'
    BY <1>1, <1>2, <1>3, <1>4 DEF ArchiveTypeOK, CatalogTypeOK, DeleteDisk, retrievalVars
  <1>6. \A e \in DOMAIN dryRun' : \E f \in DOMAIN dryRun : dryRun'[e] = dryRun[f]
    BY DEF DeleteDisk
  <1> QED
    BY <1>1, <1>5, <1>6, BesideShelf

(* Whatever ID the page is asked for.                                      *)
LEMMA DryRunPageStepKeeps ==
    ASSUME NEW rows, IInv(rows), NEW ids, ids \subseteq DiskID, DryRunPageStep(ids)
    PROVE  IInv(rows)'
  BY RemoveISOKeeps, DeleteFilesKeeps, DeleteDiskKeeps DEF DryRunPageStep

LEMMA PageFailsKeeps ==
    ASSUME NEW rows, IInv(rows), NEW x \in Deleter, PageFails(x)
    PROVE  IInv(rows)'
  <1>1. ArchiveTypeOK /\ faults' \in 0..MaxFaults
    BY TypeParts, FaultKeeps DEF IInv, PageFails
  <1>2. DeletingTypeOK'
    BY <1>1 DEF ArchiveTypeOK, DeletingTypeOK, PageFails, DeleteFails
  <1>3. ArchiveTypeOK'
    BY <1>1, <1>2 DEF ArchiveTypeOK, CatalogTypeOK, PageFails, DeleteFails, catalogVars, retrievalVars
  <1>4. \A e \in DOMAIN dryRun' : \E f \in DOMAIN dryRun : dryRun'[e] = dryRun[f]
    BY DEF PageFails, DeleteFails, catalogVars
  <1> QED
    BY <1>1, <1>3, <1>4, BesideShelf DEF PageFails

LEMMA ShareStepKeeps ==
    ASSUME NEW rows, IInv(rows), ShareStep
    PROVE  IInv(rows)'
  <1>1. ArchiveTypeOK /\ faults' \in 0..MaxFaults
    BY TypeParts, FaultKeeps DEF IInv, ShareStep
  <1>2. /\ DOMAIN dryRun' \subseteq DiskID
        /\ dryRun' \in [DOMAIN dryRun' -> Image \cup {Corrupt}]
        /\ \A e \in DOMAIN dryRun' : \E f \in DOMAIN dryRun : dryRun'[e] = dryRun[f]
    <2>1. /\ DOMAIN dryRun \subseteq DiskID
          /\ dryRun \in [DOMAIN dryRun -> Image \cup {Corrupt}]
          /\ DOMAIN disks \subseteq DiskID
      BY <1>1 DEF ArchiveTypeOK, CatalogTypeOK
    <2>2. ASSUME NEW d \in DOMAIN dryRun, ShareDeletes(d)
          PROVE  <1>2!1 /\ <1>2!2 /\ <1>2!3
      BY <2>1, <2>2 DEF ShareDeletes
    <2>3. ASSUME NEW d \in DOMAIN dryRun, NEW e \in DOMAIN disks, ShareMoves(d, e)
          PROVE  <1>2!1 /\ <1>2!2 /\ <1>2!3
      BY <2>1, <2>3 DEF ShareMoves
    <2> QED
      BY <2>2, <2>3 DEF ShareStep
  <1>3. UNCHANGED <<catalogVars, deleting, retrievalVars>>
    BY DEF ShareStep, ShareDeletes, ShareMoves
  <1>4. ArchiveTypeOK'
    BY <1>1, <1>2, <1>3 DEF ArchiveTypeOK, CatalogTypeOK, DeletingTypeOK, catalogVars, retrievalVars
  <1> QED
    BY <1>1, <1>2, <1>3, <1>4, BesideShelf

(* What is left after a crash is on disc or in the catalog.                *)
LEMMA CrashKeeps ==
    ASSUME NEW rows, IInv(rows), Crash
    PROVE  IInv(rows)'
  <1>1. TypeOK /\ ImagesInv(rows)
    BY DEF IInv
  <1>2. /\ job' = NoJob
        /\ call' = [c \in Caller |-> Idle]
        /\ recon' = NoReconstructor
        /\ UNCHANGED <<catalogVars, shelf, bad, dryRun, retrieved>>
    BY DEF Crash
  <1>4. ReconTypeOK' /\ ReconShape' /\ ReconAgrees(rows)'
    <2>1. recon'.others = {} /\ DOMAIN recon'.images = {} /\ recon'.images = [d \in {} |-> 0]
      BY <1>2 DEF NoReconstructor
    <2>2. recon' = [others |-> recon'.others, images |-> recon'.images]
      BY <1>2 DEF NoReconstructor
    <2> QED
      BY <2>1, <2>2 DEF ReconTypeOK, ReconShape, ReconAgrees
  <1>5. ArchiveTypeOK'
    <2>1. ArchiveTypeOK
      BY <1>1, TypeParts
    <2>2. DeletingTypeOK'
      BY DEF Crash, DeletingTypeOK, NothingDeleted
    <2> QED
      BY <1>2, <2>1, <2>2 DEF ArchiveTypeOK, CatalogTypeOK, catalogVars
  <1>6. TypeOK'
    <2>1. RetrievedTypeOK' /\ faults' \in 0..MaxFaults
      BY <1>1, <1>2, TypeParts, FaultKeeps DEF RetrievedTypeOK, Crash
    <2> QED
      BY <1>2, <1>4, <1>5, <2>1, TypePartsNext
  <1>7. \A c \in Caller : call'[c] = Idle /\ call'[c].pc = "idle"
    BY <1>2 DEF Idle
  <1>8. OneRequest' /\ Extracting' /\ Delivered(rows)'
    BY <1>2, <1>7, NoJobFacts DEF OneRequest, Extracting, Delivered
  <1>9. ShelfAgrees(rows)'
    BY <1>1, <1>2, ShelfUnchanged DEF ImagesInv
  <1>10. CallsAgree(rows)'
    BY <1>7 DEF CallsAgree
  <1> QED
    BY <1>4, <1>6, <1>8, <1>9, <1>10 DEF IInv, ImagesInv

-----------------------------------------------------------------------------
(* In a truthful archive the images agree with the file rows.              *)
LEMMA ArchiveAgrees ==
    ASSUME NEW a, Truthful(a), NEW d \in DOMAIN a.disks
    PROVE  a.disks[d].iso \in Image /\ ImageAgrees(a.files, a.disks[d].iso)
  <1>1. ASSUME NEW e \in DOMAIN a.disks
        PROVE  Agrees(a.files, e, a.disks[e].iso.files)
    <2> SUFFICES ASSUME NEW r \in a.files, NEW x \in Content, r.disk = e,
                        <<r.path, x>> \in a.disks[e].iso.files
                 PROVE  x = r.hash
      BY DEF Agrees
    <2>1. <<r.path, r.hash>> \in a.disks[e].iso.files
      BY DEF Truthful
    <2>2. OneContentPerPath(a.disks[e].iso.files)
      BY DEF Truthful
    <2> QED
      BY <2>1, <2>2 DEF OneContentPerPath
  <1>2. a.disks[d] \in DiskRow
    BY DEF Truthful
  <1>3. a.disks[d].iso \in Image /\ a.disks[d].role \in {"data", "parity"}
    BY <1>2 DEF DiskRow, Role
  <1>4. a.disks[d].iso.id = d
    BY DEF Truthful
  <1>5. CASE a.disks[d].role = "data"
    <2>1. a.disks[d].iso.xor = {}
      BY <1>5 DEF Truthful
    <2> QED
      BY <1>1, <1>3, <1>4, <2>1 DEF ImageAgrees
  <1>6. CASE a.disks[d].role = "parity"
    <2>1. a.disks[d].iso.xor = {[id |-> e, files |-> a.disks[e].iso.files] :
                                  e \in RowsOf(a, a.disks[d].group)}
      BY <1>6 DEF Truthful
    <2>2. ASSUME NEW y \in a.disks[d].iso.xor
          PROVE  Agrees(a.files, y.id, y.files)
      <3>1. PICK e \in RowsOf(a, a.disks[d].group) :
                   y = [id |-> e, files |-> a.disks[e].iso.files]
        BY <2>1
      <3>2. e \in DOMAIN a.disks
        BY DEF RowsOf
      <3> QED
        BY <1>1, <3>1, <3>2
    <2> QED
      BY <1>1, <1>3, <1>4, <2>2 DEF ImageAgrees
  <1> QED
    BY <1>3, <1>5, <1>6

LEMMA AgreesFewer ==
    ASSUME NEW rows, NEW fewer, fewer \subseteq rows, NEW id, NEW fs, Agrees(rows, id, fs)
    PROVE  Agrees(fewer, id, fs)
  BY DEF Agrees

LEMMA ImageAgreesFewer ==
    ASSUME NEW rows, NEW fewer, fewer \subseteq rows, NEW image, ImageAgrees(rows, image)
    PROVE  ImageAgrees(fewer, image)
  BY AgreesFewer DEF ImageAgrees

LEMMA BlocksAgreeFewer ==
    ASSUME NEW rows, NEW fewer, fewer \subseteq rows, NEW blocks, BlocksAgree(rows, blocks)
    PROVE  BlocksAgree(fewer, blocks)
  BY AgreesFewer DEF BlocksAgree

LEMMA IInvFewer ==
    ASSUME NEW rows, NEW fewer, fewer \subseteq rows, IInv(rows)
    PROVE  IInv(fewer)
  <1>1. ShelfAgrees(fewer)
    BY ImageAgreesFewer DEF IInv, ImagesInv, ShelfAgrees
  <1>2. ReconAgrees(fewer) /\ CallsAgree(fewer)
    BY BlocksAgreeFewer DEF IInv, ImagesInv, ReconAgrees, CallsAgree
  <1>3. Delivered(fewer)
    BY DEF IInv, Delivered
  <1> QED
    BY <1>1, <1>2, <1>3 DEF IInv, ImagesInv

(* The same of the next state.                                             *)
LEMMA IInvFewerNext ==
    ASSUME NEW rows, NEW fewer, fewer \subseteq rows, IInv(rows)'
    PROVE  IInv(fewer)'
  <1>1. ShelfAgrees(fewer)'
    BY ImageAgreesFewer DEF IInv, ImagesInv, ShelfAgrees
  <1>2. ReconAgrees(fewer)' /\ CallsAgree(fewer)'
    BY BlocksAgreeFewer DEF IInv, ImagesInv, ReconAgrees, CallsAgree
  <1>3. Delivered(fewer)'
    BY DEF IInv, Delivered
  <1> QED
    BY <1>1, <1>2, <1>3 DEF IInv, ImagesInv

-----------------------------------------------------------------------------
(* The retrieval beside nothing but the dry-run page: the catalog only     *)
(* shrinks.  The rows a retrieval may be after are the catalogued ones and *)
(* its own, which it never looks up again; RInv names their value in the   *)
(* current state, so that a step is judged by that fixed set.              *)
Wanted == files \cup (IF job = NoJob THEN {} ELSE {job.row})

RInv == \E rows : rows = Wanted /\ IInv(rows)

LEMMA RInvInit == Init => RInv
  <1> SUFFICES ASSUME Init PROVE RInv
    OBVIOUS
  <1>1. PICK a \in Archives :
           /\ disks = a.disks
           /\ files = a.files
           /\ groups = a.groups
           /\ shelf = [d \in {x \in DOMAIN a.disks : ~a.disks[x].dry} |-> a.disks[d].iso]
           /\ \E damaged :
                /\ dryRun = [d \in {x \in DOMAIN a.disks : a.disks[x].dry} |->
                               IF d \in damaged THEN Corrupt ELSE a.disks[d].iso]
                /\ damaged \subseteq DOMAIN a.disks
                /\ bad = damaged \ {x \in DOMAIN a.disks : a.disks[x].dry}
    BY DEF Init
  <1>2. Truthful(a)
    BY ArchiveAssumption
  <1>3. /\ metadata = {} /\ job = NoJob /\ call = [c \in Caller |-> Idle]
        /\ recon = NoReconstructor /\ retrieved = [b \in {} |-> 0]
        /\ deleting = NothingDeleted /\ faults = 0
    BY DEF Init
  <1>4. Wanted = a.files
    BY <1>1, <1>3 DEF Wanted
  <1>5. \A d \in DOMAIN a.disks : a.disks[d].iso \in Image /\ ImageAgrees(a.files, a.disks[d].iso)
    BY <1>2, ArchiveAgrees
  <1>6. CatalogTypeOK
    BY <1>1, <1>2, <1>3 DEF CatalogTypeOK, Truthful
  <1>7. /\ DOMAIN shelf \subseteq DiskID /\ shelf \in [DOMAIN shelf -> Image]
        /\ DOMAIN dryRun \subseteq DiskID
        /\ dryRun \in [DOMAIN dryRun -> Image \cup {Corrupt}]
        /\ bad \subseteq DOMAIN shelf
    <2>1. DOMAIN a.disks \subseteq DiskID
      BY <1>2 DEF Truthful
    <2> QED
      BY <1>1, <1>5, <2>1
  <1>8. ArchiveTypeOK
    BY <1>3, <1>6, <1>7 DEF ArchiveTypeOK, DeletingTypeOK, NothingDeleted
  <1>9. ReconTypeOK /\ ReconShape /\ ReconAgrees(a.files)
    BY <1>3 DEF ReconTypeOK, ReconShape, ReconAgrees, NoReconstructor
  <1>10. TypeOK
    BY <1>3, <1>8, <1>9, TypeParts, RetrievalAssumption DEF RetrievedTypeOK
  <1>11. \A c \in Caller : call[c] = Idle /\ call[c].pc = "idle"
    BY <1>3 DEF Idle
  <1>12. OneRequest /\ Extracting /\ Delivered(a.files)
    BY <1>3, <1>11, NoJobFacts DEF OneRequest, Extracting, Delivered
  <1>13. ShelfAgrees(a.files) /\ CallsAgree(a.files)
    BY <1>1, <1>5, <1>11 DEF ShelfAgrees, CallsAgree
  <1> QED
    BY <1>4, <1>9, <1>10, <1>12, <1>13 DEF RInv, IInv, ImagesInv

LEMMA IInvStutter ==
    ASSUME NEW rows, IInv(rows), UNCHANGED vars
    PROVE  IInv(rows)'
  <1>1. UNCHANGED <<archiveVars, retrievalVars, faults>>
    BY DEF vars, archiveVars, retrievalVars
  <1>2. ArchiveTypeOK' /\ faults' \in 0..MaxFaults
    BY <1>1, ArchiveUnchanged, TypeParts DEF IInv
  <1> QED
    BY <1>1, <1>2, BesideShelf DEF archiveVars, dryRunPageVars

LEMMA IInvNext ==
    ASSUME NEW rows, IInv(rows), [Next]_vars
    PROVE  IInv(rows)'
  <1>1. ASSUME NEW row \in files, Start(row) PROVE IInv(rows)'
    BY <1>1, StartKeeps
  <1>2. ASSUME NEW c \in Caller, OperatorStep(c) \/ RequestStep(c) \/ StepFails(c)
        PROVE  IInv(rows)'
    BY <1>2, OperatorStepKeeps, RequestStepKeeps, StepFailsKeeps
  <1>3. CASE DryRunPageStep(DOMAIN disks \cup DOMAIN dryRun)
    <2>1. DOMAIN disks \cup DOMAIN dryRun \subseteq DiskID
      BY DEF IInv, TypeOK, CatalogTypeOK
    <2> QED
      BY <1>3, <2>1, DryRunPageStepKeeps
  <1>4. ASSUME NEW x \in Deleter, PageFails(x) PROVE IInv(rows)'
    BY <1>4, PageFailsKeeps
  <1>5. CASE ShareStep
    BY <1>5, ShareStepKeeps
  <1>6. CASE Crash
    BY <1>6, CrashKeeps
  <1>7. CASE UNCHANGED vars
    BY <1>7, IInvStutter
  <1> QED
    BY <1>1, <1>2, <1>3, <1>4, <1>5, <1>6, <1>7 DEF Next

(* The job is after a row of the catalog, and keeps it.                    *)
LEMMA RowOfJob ==
    ASSUME NEW rows, IInv(rows), [Next]_vars
    PROVE  \/ job' = NoJob
           \/ job' # NoJob /\ job # NoJob /\ job'.row = job.row
           \/ job' # NoJob /\ job'.row \in files
  <1>1. ASSUME NEW row \in files, Start(row) PROVE job' # NoJob /\ job'.row \in files
    BY <1>1 DEF Start, NoJob
  <1>2. ASSUME NEW s \in State, job \in Job, SetState(s)
        PROVE  job' # NoJob /\ job # NoJob /\ job'.row = job.row
    <2>1. job' \in Job /\ job'.row = job.row
      BY <1>2 DEF SetState, Job
    <2> QED
      BY <1>2, <2>1, NoJobFacts
  <1>3. ASSUME NEW c \in Caller, OperatorStep(c) PROVE job' # NoJob /\ job # NoJob /\ job'.row = job.row
    <2>1. PICK s \in State : SetState(s)
      BY <1>3 DEF OperatorStep, ClaimRead, ClaimReconstruction, ClaimMember, State
    <2>2. job.state \in State
      BY <1>3 DEF OperatorStep, ClaimRead, ClaimReconstruction, ClaimMember, State
    <2>3. job \in Job
      BY <2>2, NoJobFacts, TypeParts DEF IInv
    <2> QED
      BY <1>2, <2>1, <2>3
  <1>4. ASSUME NEW c \in Caller, RequestStep(c) \/ StepFails(c)
        PROVE  job' = job \/ (job' # NoJob /\ job # NoJob /\ job'.row = job.row)
    <2>1. call[c].pc \in Step
      BY <1>4, CallType, CallFacts
         DEF RequestStep, LookupDisk, ReadPayload, ExtractFile, ResolveGroup, NewReconstructor,
             LookupMember, ReadMember, FoldImage, WriteRebuilt, StepFails, Step
    <2>2. call[c] # Idle
      BY <2>1, PastClaim
    <2>3. job \in Job
      BY <2>2, Claimed
    <2>4. AfterFailure(call[c].pc) \subseteq State
      BY <2>1, AfterFailureState
    <2>5. job' = job \/ \E s \in State : Return(c, s)
      BY <1>4, <2>4, ReturnStates
         DEF RequestStep, LookupDisk, ReadPayload, ExtractFile, ResolveGroup, NewReconstructor,
             LookupMember, ReadMember, FoldImage, WriteRebuilt, StepFails
    <2> QED
      BY <1>2, <2>3, <2>5 DEF Return
  <1>5. CASE DryRunPageStep(DOMAIN disks \cup DOMAIN dryRun)
    BY <1>5 DEF DryRunPageStep, retrievalVars
  <1>6. CASE \E x \in Deleter : PageFails(x)
    BY <1>6 DEF PageFails, retrievalVars
  <1>7. CASE ShareStep
    BY <1>7 DEF ShareStep, retrievalVars
  <1>8. CASE Crash
    BY <1>8 DEF Crash
  <1>9. CASE UNCHANGED vars
    BY <1>9 DEF vars
  <1> QED
    BY <1>1, <1>3, <1>4, <1>5, <1>6, <1>7, <1>8, <1>9 DEF Next

LEMMA FewerFiles ==
    ASSUME [Next]_vars
    PROVE  files' \subseteq files
  <1>1. ASSUME NEW row \in files, Start(row) PROVE files' \subseteq files
    BY <1>1 DEF Start, archiveVars, catalogVars
  <1>2. ASSUME NEW c \in Caller, OperatorStep(c) PROVE files' \subseteq files
    BY <1>2 DEF OperatorStep, ClaimRead, ClaimReconstruction, ClaimMember, archiveVars, catalogVars
  <1>3. ASSUME NEW c \in Caller, RequestStep(c) PROVE UNCHANGED archiveVars
    BY <1>3 DEF RequestStep, LookupDisk, ReadPayload, ExtractFile, ResolveGroup,
                NewReconstructor, LookupMember, ReadMember, FoldImage, WriteRebuilt
  <1>4. ASSUME NEW c \in Caller, StepFails(c) PROVE UNCHANGED archiveVars
    BY <1>4 DEF StepFails
  <1>5. CASE DryRunPageStep(DOMAIN disks \cup DOMAIN dryRun)
    BY <1>5 DEF DryRunPageStep, RemoveISO, DeleteFiles, DeleteDisk, DeleteDryRunFiles, catalogVars
  <1>6. CASE \E x \in Deleter : PageFails(x)
    BY <1>6 DEF PageFails, DeleteFails, catalogVars
  <1>7. CASE ShareStep
    BY <1>7 DEF ShareStep, ShareDeletes, ShareMoves, catalogVars
  <1>8. CASE Crash
    BY <1>8 DEF Crash, catalogVars
  <1>9. CASE UNCHANGED vars
    BY <1>9 DEF vars, catalogVars
  <1> QED
    BY <1>1, <1>2, <1>3, <1>4, <1>5, <1>6, <1>7, <1>8, <1>9 DEF Next, archiveVars, catalogVars

LEMMA RInvNext == RInv /\ [Next]_vars => RInv'
  <1> SUFFICES ASSUME RInv, [Next]_vars PROVE RInv'
    OBVIOUS
  <1>1. PICK rows : rows = Wanted /\ IInv(rows)
    BY DEF RInv
  <1>2. IInv(rows)'
    BY <1>1, IInvNext
  <1>3. PICK fewer : fewer = Wanted'
    OBVIOUS
  <1>4. fewer \subseteq rows
    BY <1>1, <1>3, FewerFiles, RowOfJob DEF Wanted
  <1>5. IInv(fewer)'
    BY <1>2, <1>4, IInvFewerNext
  <1> QED
    BY <1>3, <1>5 DEF RInv

(* What the invariant says of the job's own row.                           *)
LEMMA RInvFacts == RInv => TypeOK /\ OneRequest /\ RetrievedTruthful
  <1> SUFFICES ASSUME RInv PROVE TypeOK /\ OneRequest /\ RetrievedTruthful
    OBVIOUS
  <1>1. PICK rows : rows = Wanted /\ IInv(rows)
    BY DEF RInv
  <1>2. job.state = "DONE" => job.row \in rows
    BY <1>1, NoJobFacts DEF Wanted
  <1>3. RetrievedTruthful
    BY <1>1, <1>2 DEF IInv, Delivered, RetrievedTruthful
  <1> QED
    BY <1>1, <1>3 DEF IInv

(* The inductive invariant of the retrieval.                               *)
THEOREM RetrievalInvariant == Spec => []RInv
  BY RInvInit, RInvNext, PTL DEF Spec

(* Every variable of the retrieval keeps its type: in particular only      *)
(* members of the group reach the Reconstructor, and a request never reads *)
(* a source that is not there.                                             *)
THEOREM RetrievalTypeCorrect == Spec => []TypeOK
  BY RInvFacts, RetrievalInvariant, PTL

(* Any number of concurrent requests, with failures at any step and        *)
(* crashes: at most one is past its claim, and exactly while the job says  *)
(* so, so that the Reconstructor has one user.                             *)
THEOREM OneRequestAtATime == Spec => []OneRequest
  BY RInvFacts, RetrievalInvariant, PTL

(* A retrieval that reports DONE has delivered the catalogued content, for *)
(* any truthful archive, with any disc in the drive, any of them damaged,  *)
(* members cut off at the capacity, ISO files deleted or renamed, and the  *)
(* file's own rows deleted meanwhile.                                      *)
THEOREM RetrievalDelivers == Spec => []RetrievedTruthful
  BY RInvFacts, RetrievalInvariant, PTL
=============================================================================
