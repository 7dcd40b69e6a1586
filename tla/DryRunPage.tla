----------------------------- MODULE DryRunPage -----------------------------
(***************************************************************************)
(* The dry-run page's delete handler (web.deleteDryRun): it removes the    *)
(* ISO file of a dry run and then issues the two statements of             *)
(* db.DeleteDryRunDisc, without a transaction and without a lock, so that  *)
(* burns, retrievals and other deletions run between any two of its steps. *)
(* The handler takes any disk_id, also a real disc's.                      *)
(***************************************************************************)
EXTENDS Catalog

CONSTANT Deleter   \* concurrent HTTP requests for deleteDryRun

VARIABLES
    dryRun,    \* the dry-run directory's <diskID>.iso files
    deleting   \* per request: its next statement and its disk ID

dryRunPageVars == <<dryRun, deleting>>

NotDeleting == [step |-> "idle"]
Deletion == [step : {"files", "disk"}, disk : DiskID]

DeletingTypeOK == deleting \in [Deleter -> Deletion \cup {NotDeleting}]

NothingDeleted == [x \in Deleter |-> NotDeleting]

(* os.Remove, for which a file that is not there is no error.              *)
RemoveISO(x, d) ==
    /\ deleting[x] = NotDeleting
    /\ dryRun' = [e \in DOMAIN dryRun \ {d} |-> dryRun[e]]
    /\ deleting' = [deleting EXCEPT ![x] = [step |-> "files", disk |-> d]]
    /\ UNCHANGED catalogVars

DeleteFiles(x) ==
    /\ deleting[x].step = "files"
    /\ DeleteDryRunFiles(deleting[x].disk)
    /\ deleting' = [deleting EXCEPT ![x].step = "disk"]
    /\ UNCHANGED <<disks, groups, metadata, dryRun>>

(* The DELETE is refused while a file row references the disc.             *)
DeleteDisk(x) ==
    /\ deleting[x].step = "disk"
    /\ DeleteDryRunDisk(deleting[x].disk) \/ DeleteDiskRefused(deleting[x].disk)
    /\ deleting' = [deleting EXCEPT ![x] = NotDeleting]
    /\ UNCHANGED <<files, groups, metadata, dryRun>>

(* The WebDAV share serves the dry-run directory too: an ISO is deleted    *)
(* there, or renamed to another disc's name.                               *)
ShareDeletes(d) ==
    /\ d \in DOMAIN dryRun
    /\ dryRun' = [e \in DOMAIN dryRun \ {d} |-> dryRun[e]]
    /\ UNCHANGED <<catalogVars, deleting>>

ShareMoves(d, e) ==
    /\ d \in DOMAIN dryRun \ {e}
    /\ dryRun' = [x \in (DOMAIN dryRun \ {d}) \cup {e} |->
                    IF x = e THEN dryRun[d] ELSE dryRun[x]]
    /\ UNCHANGED <<catalogVars, deleting>>

(* A statement fails and the handler returns its error.                    *)
DeleteFails(x) ==
    /\ deleting[x] # NotDeleting
    /\ deleting' = [deleting EXCEPT ![x] = NotDeleting]
    /\ UNCHANGED <<catalogVars, dryRun>>
=============================================================================
