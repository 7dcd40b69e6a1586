------------------------------ MODULE Catalog ------------------------------
(***************************************************************************)
(* The PostgreSQL catalog of varis (src/internal/db): the disks, files,    *)
(* disk_groups and staged_metadata tables and the statements the burn      *)
(* pipeline and the dry-run page issue against them.  Every operator below *)
(* is ONE statement, which PostgreSQL executes atomically; the program     *)
(* uses no transactions, so a handler that issues several of them is a     *)
(* sequence of steps in the modules that use this one.                     *)
(*                                                                         *)
(* Timestamps, media type, parity percentage and description are left out: *)
(* nothing below depends on them.  A hash is modelled by the value it is   *)
(* the hash of (SHA-256 collisions are not modelled).                      *)
(***************************************************************************)
EXTENDS Integers, FiniteSets, Sequences

CONSTANTS
    Path,      \* staged paths, numbered in the sort order of ScanStaging
    Content,   \* file contents
    Prefix     \* media-type ID prefixes ("BD", "BDDL", ...)

ASSUME PathAssumption == Path \subseteq Nat /\ IsFiniteSet(Path)

VARIABLES
    disks,     \* the disks table: a function from primary key to row
    files,     \* the files table: a set of rows
    groups,    \* the disk_groups table: group n has group_size groups[n]
    metadata   \* the paths that have a staged_metadata row

catalogVars == <<disks, files, groups, metadata>>

(* "BD:0007" is [prefix |-> "BD", num |-> 7]: addMediaType admits only     *)
(* letters and digits in a prefix, so the formatting is injective.         *)
DiskID == [prefix : Prefix, num : Nat]

NoGroup == 0

FileCopy == Path \X Content

(* What is in an ISO image: the ID its TOC carries, the packed files of a  *)
(* data disc, and for a parity disc the images that were XORed together.   *)
DataImage == [id : DiskID, files : SUBSET FileCopy]
Image == [id : DiskID, files : SUBSET FileCopy, xor : SUBSET DataImage]

Role == {"data", "parity"}

DiskRow == [role : Role, group : Nat, slot : Nat, dry : BOOLEAN, iso : Image]
FileRow == [disk : DiskID, path : Path, hash : Content, tagged : BOOLEAN]

CatalogTypeOK ==
    /\ DOMAIN disks \subseteq DiskID
    /\ IsFiniteSet(DOMAIN disks)
    /\ disks \in [DOMAIN disks -> DiskRow]
    /\ files \subseteq FileRow
    /\ groups \in Seq(Nat)
    /\ metadata \subseteq Path

CatalogInit ==
    /\ disks = [d \in {} |-> 0]
    /\ files = {}
    /\ groups = <<>>
    /\ metadata = {}

-----------------------------------------------------------------------------
(* SELECT count( * ) FROM disks WHERE id LIKE prefix || ':%'               *)
Count(prefix) == Cardinality({d \in DOMAIN disks : d.prefix = prefix})

NextDiskID(prefix, alreadyAllocated) ==
    [prefix |-> prefix, num |-> Count(prefix) + alreadyAllocated + 1]

Extend(f, x, v) == [y \in DOMAIN f \cup {x} |-> IF y = x THEN v ELSE f[y]]

InsertDisk(id, row) ==
    /\ id \notin DOMAIN disks            \* PRIMARY KEY
    /\ disks' = Extend(disks, id, row)

InsertDiskConflicts(id) == id \in DOMAIN disks

(* SELECT ... FROM disks WHERE id = $1; there may be no row.               *)
GetDisk(id) == {disks[d] : d \in DOMAIN disks \cap {id}}

GroupMembers(group) == {d \in DOMAIN disks : disks[d].group = group}

InsertFile(row) ==
    /\ row.disk \in DOMAIN disks         \* REFERENCES disks(id)
    /\ files' = files \cup {row}

InsertDiskGroup(size) == groups' = Append(groups, size)

UpsertStagedMetadata(path) == metadata' = metadata \cup {path}

ConsumeStagedMetadata(path) == metadata' = metadata \ {path}

DeleteFilesOfAnyDisc(id) == files' = {r \in files : r.disk # id}

(* The two statements of DeleteDryRunDisc, each scoped to is_dry_run.      *)
DeleteDryRunFiles(id) ==
    files' = {r \in files : ~(r.disk = id /\ id \in DOMAIN disks /\ disks[id].dry)}

IsDryRunDisc(id) == id \in DOMAIN disks /\ disks[id].dry
Referenced(id) == \E r \in files : r.disk = id

DeleteDiskUnreferenced(id) ==
    disks' = [d \in {x \in DOMAIN disks : ~(x = id /\ disks[x].dry)} |-> disks[d]]

DeleteDryRunDisk(id) ==
    /\ ~(IsDryRunDisc(id) /\ Referenced(id))
    /\ disks' = [d \in {x \in DOMAIN disks : ~(x = id /\ disks[x].dry)} |-> disks[d]]

DeleteDiskRefused(id) ==
    /\ IsDryRunDisc(id) /\ Referenced(id)    \* REFERENCES disks(id)
    /\ UNCHANGED disks
-----------------------------------------------------------------------------
(* What a retrieval relies on in a catalog a, a record of its tables: the  *)
(* rows are well-formed, an image has one content per path and carries its *)
(* disc's ID, every file row is in the image of its disc, and a parity     *)
(* disc is the XOR of the data discs its group is catalogued with.         *)
RowsOf(a, g) == {x \in DOMAIN a.disks : a.disks[x].group = g /\ a.disks[x].role = "data"}

OneContentPerPath(copies) == \A f, g \in copies : f[1] = g[1] => f[2] = g[2]

Truthful(a) ==
    /\ DOMAIN a.disks \subseteq DiskID /\ IsFiniteSet(DOMAIN a.disks)
    /\ a.disks \in [DOMAIN a.disks -> DiskRow]
    /\ a.files \subseteq FileRow
    /\ a.groups \in Seq(Nat)
    /\ \A r \in a.files : /\ r.disk \in DOMAIN a.disks
                          /\ <<r.path, r.hash>> \in a.disks[r.disk].iso.files
    /\ \A d \in DOMAIN a.disks :
         LET row == a.disks[d] IN
         /\ row.iso.id = d
         /\ OneContentPerPath(row.iso.files)
         /\ row.role = "data" => row.iso.xor = {}
         /\ row.role = "parity" =>
              row.iso.xor = {[id |-> e, files |-> a.disks[e].iso.files] :
                               e \in RowsOf(a, row.group)}
=============================================================================
