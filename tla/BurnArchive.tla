---------------------------- MODULE BurnArchive ----------------------------
(***************************************************************************)
(* The burn pipeline implements Archive.  A pair is archived when a file   *)
(* row names it and the row's disc is a real one whose medium holds it;    *)
(* a disc is in progress from the claim in ContinueNextDisc until the job  *)
(* waits for a disc again, is done, has failed or died with the process.   *)
(***************************************************************************)
EXTENDS BurnPipeline

SafeCopies ==
    {<<r.path, r.hash>> : r \in {x \in files :
        /\ ~disks[x.disk].dry
        /\ <<x.path, x.hash>> \in disks[x.disk].iso.files
        /\ disks[x.disk].iso \in media}}

DiscInProgress ==
    IF job.state \notin Claimed THEN "none"
    ELSE IF IsDryRun THEN "dry" ELSE "real"

A == INSTANCE Archive WITH
        staged <- staging, archived <- SafeCopies, disc <- DiscInProgress

(* runDisc and commitDisc implement the promise: with failures and crashes *)
(* between any two statements, and retries from the beginning, a file is   *)
(* deleted from staging only after the very content that is staged has     *)
(* become a catalogued copy on a verified medium, and no such copy is ever *)
(* forgotten again.  It presumes that the share is not edited while a disc *)
(* is in progress, which the code does not enforce (see MCEdits).          *)
ImplementsArchive == A!Spec

(* The same with the promise that a disc in progress ends: whatever the    *)
(* tools, the database and the other requests do, ContinueNextDisc gives   *)
(* the claim back.                                                         *)
ImplementsFairArchive == A!FairSpec
=============================================================================
