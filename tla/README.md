# A TLA+ model of varis

varis archives files to optical discs. Files are dropped into a staging
directory over WebDAV, packed onto discs with par2 data and, optionally, one XOR
parity disc per group of data discs, catalogued in PostgreSQL, and later fetched
back from whichever disc the catalog names. This directory models the parts of
the program that decide whether a file survives, checks them with TLC on small
instances and proves the central results with TLAPS for every instance.

## 1. The system and its parts

| part | source | state | operations | model |
|---|---|---|---|---|
| catalog | `internal/db` | tables `disks`, `files`, `disk_groups`, `staged_metadata` | one SQL statement each, no transactions | `Catalog` |
| planner | `internal/binpack`, `burn.Manager.Start`, `planJob` | the locals of `Start`, under `Manager.mu` | scan, pack, number, group | `Planner` |
| burn pipeline | `internal/burn` | `Manager.job`, the spool, the medium, the dry-run directory | `ContinueNextDisc` (`runDisc`, `commitDisc`), `Retry` | `BurnPipeline` |
| retrieval | `internal/retrieve` | `Manager.job`, the retrieved directory | `Start`, `ReadDisk`, `StartReconstruction`, `ReadReconstructionDisc` | `Retrieval` |
| reconstruction | `burn.Reconstructor`, `internal/xordisk` | images supplied so far | `SupplyDiscImage`, `Reconstruct` | `Retrieval` |
| dry-run page | `internal/web/dryruns.go` | none | delete ISO and rows | `DryRunPage` |
| jobs and library pages | `internal/web/jobs.go`, `library.go` | none | the HTTP handlers that call the managers, drive-busy checks | `System`; callers in `BurnPipeline`, `Retrieval` |
| media types, start of a burn, start-up | `db/media_types.go`, `web/config.go`, `startBurn`, `main` | table `media_types` | migrate, seed, add, read | `Dashboard` |
| staging page | `internal/web/staging.go` | none | apply metadata | `ApplyMetadata` in `BurnPipeline` |
| WebDAV share | `internal/webdav` | the staging and dry-run directories | PUT, DELETE, MOVE | edits in `BurnPipeline`, `DryRunPage` |
| config, covers, routing, templates, `execx` | `internal/...` | static | | not modelled |

How they interact. Each HTTP request is a goroutine. The two managers each own a
mutex and hold at most one job; long work (packing, burning, reading) is done
without the lock, after the request has *claimed* the job by changing its state
inside the critical section that checked it. Staging is shared with the WebDAV
users, the catalog with every page, the spool with earlier discs of the same
job, and the drive with a human. Nothing of a job is stored: a restart forgets
it, while the catalog, the spool, the discs and staging stay.

What is hard: concurrent requests on one job; commits made of several
statements and file removals; retries that repeat work already done; numbers
derived from row counts; files that change between packing and removal; parity
computed from what earlier steps left in the spool; rows that the dry-run page
deletes under a commit or a retrieval, and the numbers this frees; two managers
and one drive; migrations over tables in use; discs that are wrong, damaged
or read silently wrong; error paths that must give the claim back. `PROJECT.json`
lists each at its line under `hazards`.

What makes each part correct:

- planner: every scanned file is planned exactly once; discs are not overfilled;
  the IDs of a job are distinct and new; groups, slots and sizes agree;
- pipeline: one runner per job; the catalog never says what a disc does not
  hold; staging never loses what is not on a verified disc; a parity disc covers
  its group as burned; a claim is always released and a failure can be retried;
- retrieval: one request at a time; what is reported DONE is the archived
  content; a lost disc of a group can be rebuilt; a retrieval comes to an end;
- the pages: burn and retrieval do not use the drive together; the options of a
  job are admissible, and a media type that was used does not change;
- the whole: what was staged, burned on a real disc and catalogued is what a
  retrieval delivers, whatever else happened in between.

## 2. The modules

| module | extends / instantiates | what it is |
|---|---|---|
| `Catalog` | | the tables, one operator per SQL statement, with keys and references |
| `Planner` | `Catalog` | `Start` and `planJob` |
| `BurnPipeline` | `Planner` | the state machine of a disc and its environment |
| `Archive` | | abstract specification: files are staged, archived, removed |
| `BurnArchive` | `BurnPipeline`, `INSTANCE Archive` | the refinement mapping |
| `Dashboard` | `BurnPipeline` | start-up, media types and the form behind `Start` |
| `DryRunPage` | `Catalog` | the deletion of dry runs, and the share on their ISOs |
| `Retrieval` | `DryRunPage` | retrieval and reconstruction over a given archive |
| `System` | `Catalog`, `INSTANCE BurnPipeline`, `INSTANCE Retrieval` | the running process |
| `MC...` | | instances for TLC |
| `BurnTypeProofs` | `BurnPipeline`, TLAPS | theorems: types, mutual exclusion |
| `BurnSafetyProofs` | `BurnTypeProofs` | theorems: the catalog tells the truth, nothing is lost |
| `PlannerProofs` | `BurnTypeProofs` | theorems: packing, grouping |
| `ParityProofs` | `PlannerProofs` | theorems: cross-disc parity |
| `BurnArchiveProofs` | `BurnSafetyProofs`, `ParityProofs`, `BurnArchive` | theorems: the refinement; what a burn leaves to a retrieval |
| `RetrievalProofs` | `Retrieval`, TLAPS | theorems: one request at a time, what DONE means |
| `DashboardProofs` | `Dashboard`, `PlannerProofs` | theorems: media types and options |
| `SystemProofs` | `System`, TLAPS, `INSTANCE BurnSafetyProofs`, `INSTANCE RetrievalProofs` | theorems: the components together |

*Refinement.* `Archive` says what a user of the pipeline relies on: while a disc
is in progress, staged files become archived as they are staged; a file leaves
staging only when exactly its staged content is archived; nothing archived is
ever forgotten; with `FairSpec`, a disc in progress ends. `BurnArchive` maps
`archived` to the pairs that a file row names and that are in the image of the
row's real disc on a verified medium (`SafeCopies`), and `disc` to the claimed
states of the job. Planning, packing, parity, tools, tables and most failures
are stuttering steps; `InsertFileRow` is `ArchiveFile`, `RemoveStaged` is
`RemoveFile` (or `DiscardFile` in a dry run), `Claim` is `BeginDisc`, and the
end, the failure or the death of a disc is `EndDisc`.

*Composition.* `System` runs both managers and the dry-run page over one
catalog, one dry-run directory and one shelf. The actions are those of
`BurnPipeline` and `Retrieval`, unchanged, among them the dry-run copy that fails
half-way and the deletion of any ID somebody submits; the archive of a retrieval
is whatever the pipeline has committed. The shelf is a variable: it holds, for each
label, the disc somebody takes who looks for it. A disc that was written goes there
whether or not it gets into the catalog (`NewDiscShelved`), and when several discs
carry one label, which the program does not exclude, any of them may be the one
taken (`OtherDiscTaken`). New in `System` are the
start handlers, in two steps each because the question to the other manager and
the start of one's own job are two critical sections of two locks (`starting`),
`retryDisc`, an insert that finds its disc row deleted (`InsertFileRefused`),
decay of discs, and a crash that takes both managers at once. `StartsOverlap` and
`RetriesAnytime` say whether people do what the code does not prevent: press two
start buttons at once, or retry a failed burn while a retrieval is open.

On its own `Retrieval` starts from an archive a burn can leave: `Truthful`
(defined in `Catalog`) is assumed of the constant `Archives`, and the theorem
`PipelineLeavesTruthfulArchive` says that the pipeline's catalog satisfies it in
every state.

*Start-up and options.* `Planner` takes its options from the constant `Options`,
restricted by `OptionsAssumption`. `Dashboard` shows where they come from:
`Connect` (schema.sql as one transaction: new columns, then the guarded
backfill), `SeedMediaType` one row at a time, `Serve` only after that, the
checks of `addMediaType`, and `startBurn`, which copies a row and starts later.
`OptionsAdmissible` is that assumption, checked and proved.

Correspondence and abstraction:

- A hash is the content it is the hash of; a disk ID is a prefix and a number; a
  path is a number, in the order `ScanStaging` sorts.
- A spool or disc image (`Image`) is the ID in its TOC, the packed (path,
  content) pairs and, on a parity disc, the images that were XORed. The tar,
  compression, par2 blocks and ISO layout are left out.
- `planning` holds the locals of `Start`, which keeps `Manager.mu` throughout;
  other actions that take that lock require `planning.phase = "idle"`. Each
  database query of `planJob` is a step of its own, since the pages and the share
  go on meanwhile.
- `run[c]` holds the locals of caller `c`'s `runDisc`, its `step` being the next
  call that touches shared state. `job.state` follows every `setState`; a state
  set before a step that has no shared effect is merged with the step before it.
- Tool, file-system and database errors: `StepFails` at every step in
  `FaultSteps`, with what the failing call may have left behind; a bad burn that
  reports success is the second disjunct of `WriteDisc`; a dry-run copy that fails
  leaves a cut-short ISO (`Corrupt`), also over an existing one; a statement that
  took effect although its reply was lost is the failure of the following step.
  `PlanningFails` is an error inside `planJob`; it is also what happens at the
  bounds `MaxDisks` and `MaxGroups`.
- par2create, when it finds recovery volumes of an earlier attempt or job, does one
  of the answers in `OldVolumes`: refuses, as the comment at `pipeline.go:467-469`
  says the real one does, or overwrites them.
- `removed`, `faults` and `edits` are history variables; `MaxEdits` also bounds how
  often metadata is applied.
- Each disc of a real job is a medium of its own: the jobs page asks for a blank disc
  before each. For a filesystem job that is what the operator does, not the code,
  which writes every disc to the job's one target path (section 5).
- In `Retrieval` bytes are sets of blocks and `XOR` is symmetric difference. An
  undamaged data image is one block; a damaged disc may fail to read, read well,
  or contribute a noise block when it is read raw; an image longer than the
  capacity (`TooLong`) contributes a cut block, both to the payload at burn time
  and when it is read raw; a cut-short dry-run ISO reads as noise. `readFrom` finds its
  entries only in the image of the very disc the job names, because their names
  contain its ID; par2 verification rejects everything else. Its three extractions
  and the verification are one step (`ReadPayload`): what they read can change
  between them only by an ISO vanishing, and then the outcome is the one it would
  have had by vanishing before the first.
- The operator is nondeterministic: any disc may be in the drive and any member
  named in the request, unless `Careful`.
- A cancelled request (`ContinueNextDisc` runs under the request's context) is a
  failing step.
- Somebody who deletes or renames ISO files through the share counts against the
  bound on faults.

## 3. The runs

| run | checks | bounds | distinct states |
|---|---|---|---|
| `MCPlanning` | `BucketsFit`, `PlanCoversScan`, `GroupsWellFormed`, `OptionsAdmissible`, `UsedTypesFrozen` | all stagings of 4 paths with sizes 0, 2, 5; targets 4 and 2, a capacity that overflows; groups of two and the default of ten; a fresh, an outdated and a current database; 3 submissions to the config page and 5 forms, valid and not; 1 crash or failing query | 1.4 million |
| `MCBurn` | `TypeOK`, `OneRunner`, `CatalogTruthful`, `NothingLost`, `ParityCovers`, `ParityBuildable`, `ImplementsArchive`, `ImplementsFairArchive`, `RetryFailsOnlyOnLeftovers` | 2 callers, 2 files, 3 kinds of job, 1 fault or crash anywhere, 1 edit between discs, old volumes refused or overwritten, an operator who keeps retrying | 403 thousand |
| `MCRetrieval` | `TypeOK`, `OneRequest`, `RetrievedTruthful` | 2 callers, 4 archives, any disc in the drive, 1 damaged disc or cut-short dry run, 1 disc longer than the capacity, 1 fault, crash or edit of the dry-run directory, dry runs being deleted | 4.0 million |
| `MCRecovery` | `LostDiscRecovered`, `RequestReturns` | groups of one and of two, 1 damaged disc, 2 faults at any query, member, fold or write | 1.4 thousand |
| `MCSystem` | `TypeOK`, `DriveExclusive`, `NothingLost`, `CatalogTruthful`, `EndToEnd` | 1 path with 2 contents, 2 disc numbers, real and dry-run jobs, 1 request per kind, 1 crash or fault while writing, 1 decayed disc, any disc in the drive | 2.8 million |
| `MCRetry`, `MCEdits`, `MCUngrouped`, `MCNumbers`, `MCLabels`, `MCDrive`, `MCReuse` | one property each, violated | see Findings | |

Why the bounds are enough to be interesting. Four files and discs of two give a
full group followed by a short one, an oversized file next to empty ones, and
three buckets; with fewer the trailing group does not occur. Two callers are
what a claim has to keep apart. Two files make a two-disc group, a two-file disc
(a commit that can stop between its files), and, with `MaxDisks` = 4, a second
job after an abandoned first one, with leftovers in the spool and in the catalog.
One fault suffices for every "failed between these two steps"; two, in
`MCRecovery`, add a retry that fails again. In `MCSystem` one path burned twice
with different content is what a retrieval could confuse; a crash after a disc was
verified leaves a disc whose number is handed out again, and with a dry run under
one of the two numbers the page frees a number while the other is in use.
Groups and reconstruction are not repeated there: `MCRetrieval` has them over
every kind of archive. `CHECK_DEADLOCK FALSE` is
set where the system may stop: with staging empty or bounds exhausted nothing is
left to do.

Fairness. `Fairness` says only that a goroutine that has started is scheduled
until it returns, which the Go runtime does; that the external tools return is
assumed with it. The liveness properties that speak of people assume more and say
so: in `RetrySpec` the operator presses Continue, and presses Retry also when attempts
to start another job instead keep coming in between (strong fairness), in
`OperatorSpec` the operator follows the library page.

What a retry can overcome. `RetryFailsOnlyOnLeftovers` holds with either kind of
par2create and faults at every step, the commit included: a failed disc ends
burned, or the attempt (or an earlier job) has left one of three things that nothing
clears: a row with its number (`NumberTaken`), its recovery volumes in the spool
(`VolumesLeft`, when par2create refuses them), or a bucket whose file is no longer
staged (`FilesGone`). The spool's other artifacts, the group's images and the claim
are never the obstacle. `MCRetry` shows that without exceptions the property fails.

### Findings

- `MCRetry`: `removeStaleArtifacts` does not clear the recovery volumes, so with a
  par2create that refuses them every retry after the PARITY step fails, against the
  comment on that very function (`pipeline.go:467-470`). With one that overwrites
  them the retry of a disc whose row was inserted (say, `InsertFile` failed) ends in a
  primary-key conflict, although the comment in `commitDisc` calls the burn safe to
  retry.
- `MCEdits`: a PUT to a file while its disc is burned is removed unarchived.
  This is why the safety theorems assume `~EditsDuringBurn`.
- `MCUngrouped`: a damaged disc outside any group leaves the retrieval open for
  ever and blocks later ones; the design says to report failure.
- `MCNumbers`: `planJob` asks for one number per disc, and the dry-run page may delete
  a row between two of the questions: the count falls by one as `allocated` rises by
  one, and two discs of the job get the same number, so that the second one's insert
  fails after it has been burned. The comment on `NextDiskID` calls the missing lock
  safe because one burn job runs at a time (`disks.go:38-39`), but the page is no burn
  job. `FreshIDs` also fails without the page: data discs are numbered before parity
  discs but burned interleaved with them (three data discs in groups of two: 1, 2, 4,
  3, 5), so a job given up after the first parity disc leaves {1, 2, 4} and the next
  job is given 4. (The two files of `MCBurn` do not make a second group, so there
  `NumberTaken` is always the row that an earlier attempt of the same disc inserted.)
- `MCLabels`: a process that dies between verification and `InsertDisk` leaves a
  finished disc whose number is handed out again. `readFrom` compares the ID only
  (`retrieve.go:175`), never `file_hash` or `iso_hash`, so a retrieval takes the one
  disc for the other and reports DONE with what the wrong one holds, or fails after
  it passed for intact. The comment at `retrieve.go:147-150` promises a hard failure
  for a wrong disc.
- `MCDrive`: a failed burn does not count as busy, so a retrieval starts, and
  Retry resumes the burn under it. `DriveIsExclusive` proves that this and the
  unsynchronised start (`StartsOverlap`) are the only ways to share the drive.
- `MCReuse`: deleting a dry run lowers the count, the next dry run gets the number
  of one that still exists and overwrites its ISO file; only then does the insert
  fail. The old rows now deliver the new content. A real disc with a reused number
  does not overwrite anything, but it does carry a second copy of the label, which is
  `MCLabels`; `EndToEnd` therefore speaks of discs that are the only ones burned with
  their label.

Further disagreements with comments, without a run of their own.

- Empty files packed before an oversized one share its disc (`binpack.go:60` closes a
  bucket only when its total is positive), while the comment at `binpack.go:54-55`
  says that such a file "won't share a disc with anything". `BucketsFit` therefore
  speaks of non-empty files.
- A wrong disc goes to reconstruction in the traces of `Retrieval`, because its TOC is
  looked up under the expected name (`retrieve.go:164`), while the comment at
  `retrieve.go:147-150` calls it a hard failure.
- A failing DELETE leaves rows whose ISO is gone, which the comment at
  `dryruns.go:21-22` excludes.
- When the rebuilt image cannot be written, the job is RECONSTRUCTING with nothing
  remaining, and the page offers no disc to supply; the comment at
  `retrieve.go:398-402` says that `Remaining()` "still reports what's needed".
  `LostDiscRecovered` admits this one end besides DONE.

## 4. What is proved

The proof modules are checked by tlapm (SMT, Zenon, LS4). The theorems hold for
every value of the constants that satisfies the named assumptions: any number of
files, discs, groups, callers, faults and edits. Each rests on an inductive
invariant that TLC checked first on the instances of section 3.

*Pipeline, control* (`BurnTypeProofs`). `TypeCorrect` (`Spec => []TypeOK`) and
`MutualExclusion` (`[]OneRunner`), both from `ControlInvariant`. Neither is
inductive alone: that an image holds contents needs the packed paths to be staged;
that the next disc exists needs `job.idx` to be within the plans, which needs
`planJob` never to finish with none. `TInv` adds `PlanShape` (how far the
planner's locals are in each phase), `JobShape` (a current disc exists unless the
job is done; nothing is planned over a live job) and `RunShape` (from the burn on
the spool holds the image).

*Pipeline, safety* (`BurnSafetyProofs`). `CatalogIsTruthful`
(`[]CatalogTruthful`) and `NoArchivedFileLost` (`[]NothingLost`), both assuming
`~EditsDuringBurn`: `MCEdits` shows that they fail without it. `SInv` adds to
`TInv` what the runner's locals promise at each step (`Faithful`): the image holds
the staged content of its bucket until the commit, it is in the spool, it is on a
medium once verified, the disk row carries it, and before the removal the file row
is there; and `ParityEmpty`, that parity plans have no files. A key of `disks` is
never overwritten, so old file rows keep their meaning. `Faithful` asks of the row
of the disc being committed only what a deletion on the dry-run page leaves true
(`OwnRow`: a real disc's row is there; a dry run's, if it is there, carries the
image), so that the same invariant serves in `System`: `BesideSafe` and
`RefusedSafe` are the steps of others that it survives.

*Planner* (`PlannerProofs`). `NoDiscOverfull` (`[]BucketsFit`), `NoFileForgotten`
(`[]PlanCoversScan`) and `GroupsInOrder` (`[]GroupsWellFormed`). `PInv` says what `planJob`'s loops have done so far: an
open bucket of total 0 has no non-empty file (`PackInv`); the i-th data disc has
the i-th bucket and the i-th number after the row count, which does not change
while the lock is held (`NumberInv`); the final plan holds exactly the data discs
taken so far, and the numbers of its parity discs lie above all of theirs
(`OrderInv`); every plan stands where its slot says, counted from the first of its
group, and only the last group may still lack its parity disc (`GroupInv`). The
overflow of int64 needs no case of its own: whatever `Target` is, the first
non-empty file of a bucket is exempt and every later one was compared. `PInv` contains
that no number is handed out twice within a job (`PlanIDsDistinct`), which the parity
proofs use; it is a fact about the pipeline by itself, where no row of `disks` is
deleted, and not one about the program (`MCNumbers`).

*Parity* (`ParityProofs`). `ParityIsExact` (`[]ParityCovers`) and
`ParityCanBeBuilt` (`[]ParityBuildable`), without an assumption on edits. `XInv`
ties catalog, spool and job together: rows in one of the job's groups are rows of
discs the job has come to (`RowsPlanned`, for which `planJob` must take group
numbers nobody has, `FreshGroups`); discs passed are catalogued as planned
(`PassedCatalogued`); their images stay in the spool as catalogued until the
group's parity disc is passed (`ImagesKept`); the runner's parity image is the XOR
of its group's catalogued images (`RunnerBuilds`). Once a group's parity disc is
passed, nothing adds a row to the group.

*Refinement* (`BurnArchiveProofs`). `PipelineImplementsArchive`: with
`~EditsDuringBurn`, `Spec => ImplementsArchive`. The initial states map, and every
step is a step of `Archive` or stutters; `SInv` is what makes `InsertFileRow` and
`RemoveStaged` steps the abstract specification allows. With `MadeInv` (an image
carries its disc's ID, has one content per path, and only parity images carry an
XOR), `SInv` and `XInv` also
give `PipelineLeavesTruthfulArchive`: the catalog satisfies `Truthful` in every
state, which is `Retrieval`'s assumption on its archives.

*Retrieval* (`RetrievalProofs`). `RetrievalTypeCorrect` (`[]TypeOK`),
`OneRequestAtATime` (`[]OneRequest`) and `RetrievalDelivers`
(`[]RetrievedTruthful`), from the named assumptions of `Retrieval`; no assumption
on the operator, the damaged discs or `TooLong`. `IInv(rows)` says that every image
a request can come by, on the shelf, in the dry-run directory, inside a parity
payload, supplied to the Reconstructor or in a request's hands, agrees with every
row it could be read for (`ImagesInv`; a dry-run ISO that was cut short agrees with
none and is exempt): XOR makes no block that was not put in, a
cut or noisy block is not a data block, the page and the share only take away or
rename. It is preserved for any fixed set of rows (`IInvNext`); the invariant of the
specification, `RInv`, takes the rows that are catalogued or that the job is after
(`Wanted`), which only shrink while the archive does. With no rows, `IInv({})` is
the control alone, which is what `System` uses. `Extracting` adds that an image gets as far as the extraction only if
it is of the row's own disc, which is what `Intact` checks. `OneRequest` keeps the
result where it is until the job is read as DONE.

*Pages* (`DashboardProofs`). `PagesSubmitAdmissibleOptions`
(`[]OptionsAdmissible`), `UsedMediaTypesNeverChange` (`[]UsedTypesFrozen`) and
`PlansAreSoundBehindPages` (the three planner properties under `DashboardSpec`).
Assumed: the defaults have distinct names, positive capacities and proper
prefixes; the table found at start-up was written by this version or one without
prefixes; `Options` has every well-formed combination of what is on the pages
(`OptionsCoverage`). `DInv` needs two facts beyond the properties: the defaults are
all there before the pages are served, so nobody can take one of their names with
the placeholder prefix that the next start-up would rewrite (`SeedInv`), and a row
a start-up has seen is a fixed point of the migration (`Settled`), also while the
process is down.

*The running program* (`SystemProofs`). The proof modules of the two components
are instantiated as `System` instantiates the components (`BP`, `RP`), so that
their lemmas apply to its variables; `ComponentAssumption` gives the components'
assumptions. Each step of `System` is a step of one component, of both (`Crash`),
or of neither; what is proved anew is that the others' steps do a component no
harm.

- `SystemTypeCorrect` (`[]TypeOK`), no further hypothesis, from `Control`: `TInv` of
  the pipeline and `IInv({})` of the retrieval, and `ShelfKept`: under every label the
  shelf has a disc that was burned with it. They rely on each other only for the
  types of the catalog, the dry-run directory (where a failed copy may leave a
  cut-short ISO) and the shelf (`BurnBeside`, `RetrieveBeside`).
- `DriveIsExclusive` (`[]DriveExclusive`), assuming `~StartsOverlap` and
  `~RetriesAnytime`; `MCDrive` violates it without the second. `OneJob` is the
  strengthening: the managers are not busy together, and a handler past its check,
  or a `planJob` that holds the lock, keeps the other side out until its own manager
  is busy.
- `SystemLosesNothing` (`[]NothingLost`) and `SystemCatalogTruthful`
  (`[]CatalogTruthful`), assuming `~EditsDuringBurn`, from `AInv`: `Control` and
  `SInv`. The retrieval and the page are `Harmless`: they drop rows of dry runs only,
  and no disc row that a file row references. No discipline in starting jobs is
  needed.
- `DiscReadsAreTruthful` (`EndToEnd`), assuming `~EditsDuringBurn`: a file that is
  read from its real disc, and not rebuilt, for a row still catalogued, is delivered
  as catalogued, if no second disc was burned with that label (`OnlyDiscOf`; the
  condition is in the property, since `MCLabels` violates it without). `EInv` adds to
  `AInv` that images are well made (`MadeInv`) and that a request that reads a real
  disc has found its row (`Direct`): real rows stay, and a catalogued real disc is on
  a medium, so the only disc with its label is the one that was catalogued.

TLC checked `Control`, `OneJob`, `SInv`, `MadeInv` and `DirectInv` as invariants of the
`MCSystem` instance before they were proved.

Only model-checked: all liveness (`RetryFailsOnlyOnLeftovers`, `ImplementsFairArchive`,
`LostDiscRecovered`, `RequestReturns`), which is outside the prover's reach. Neither
proved nor checked: that a file is delivered as catalogued when it is rebuilt from its
group while burns and deletions go on. Over an archive that no burn changes meanwhile
`RetrievalDelivers` covers it; in `System` the members of a group of dry runs may be
deleted, and their numbers reused, between two reads of one reconstruction.

## 5. Not modelled

- `execx`, `web/server.go`, `dashboard.go`, `cover.go`, templates, `config.Load`:
  plumbing, read-only views and environment variables, without state.
- `retrieve.Manager.Abort`: no route calls it.
- Free-space tests (refusals; at run time they are a fault at "clear"), directories
  of the share and its path splitting, partial uploads (a file still being written
  is scanned with a partial size), the `.sha256` side file, `job.Err`, edits of the
  retrieved directory.
- Which of par2create's files repair a damaged disc: the program itself never repairs,
  and a damaged disc goes to reconstruction.
- One target path for all discs of a filesystem job: the model gives each disc a
  medium of its own, as the jobs page asks ("Insert blank disc, continue") before
  every disc. With one fixed file as the target, and an operator who does not move it
  away, the second disc of a job overwrites the first.

## 6. Plan

Done: the modules of section 2, the runs of section 3, the theorems of section 4.
Every invariant and action property that a passing run checks is stated by a
theorem; liveness is not.

Left: a counterpart of `EndToEnd` for rebuilt files. It needs `ParityCovers` in
`System`, where `XInv` does not hold as it stands, because the page removes rows of dry
runs from the middle of a group (`PassedCatalogued`) and two discs of a job may share a
number (`MCNumbers`): its parts have to be restricted to the groups of real discs. And
the target path of a filesystem job as state of its own (section 5).
