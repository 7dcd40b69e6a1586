------------------------------ MODULE Archive ------------------------------
(***************************************************************************)
(* What the burn pipeline promises its users, with nothing said of plans,  *)
(* images, tools or tables: files are staged by path; while no disc is in  *)
(* progress the users change the staging area as they like; while a disc   *)
(* is in progress its files are archived one by one, as they are staged,   *)
(* and a file leaves the staging area only when exactly what is staged has *)
(* been archived.  A dry run archives nothing and may discard its files.   *)
(* What is archived stays archived.                                        *)
(***************************************************************************)
CONSTANTS Path, Content, Absent

VARIABLES
    staged,    \* path -> content, or Absent
    archived,  \* the <<path, content>> pairs that are safe on media
    disc       \* the disc in progress: "none", "real" or "dry"

archiveVars == <<staged, archived, disc>>

Init ==
    /\ staged \in [Path -> Content \cup {Absent}]
    /\ archived = {}
    /\ disc = "none"

UserEdits ==
    /\ disc = "none"
    /\ staged' \in [Path -> Content \cup {Absent}]
    /\ UNCHANGED <<archived, disc>>

BeginDisc ==
    /\ disc = "none"
    /\ disc' \in {"real", "dry"}
    /\ UNCHANGED <<staged, archived>>

ArchiveFile(p) ==
    /\ disc = "real"
    /\ staged[p] # Absent
    /\ archived' = archived \cup {<<p, staged[p]>>}
    /\ UNCHANGED <<staged, disc>>

RemoveFile(p) ==
    /\ disc = "real"
    /\ <<p, staged[p]>> \in archived
    /\ staged' = [staged EXCEPT ![p] = Absent]
    /\ UNCHANGED <<archived, disc>>

DiscardFile(p) ==
    /\ disc = "dry"
    /\ staged' = [staged EXCEPT ![p] = Absent]
    /\ UNCHANGED <<archived, disc>>

(* The disc is complete, or was given up: its files stay as they are.      *)
EndDisc ==
    /\ disc # "none"
    /\ disc' = "none"
    /\ UNCHANGED <<staged, archived>>

Next ==
    \/ UserEdits
    \/ BeginDisc
    \/ \E p \in Path : ArchiveFile(p) \/ RemoveFile(p) \/ DiscardFile(p)
    \/ EndDisc

Spec == Init /\ [][Next]_archiveVars

(* A disc in progress is not in progress for ever.                         *)
FairSpec == Spec /\ WF_archiveVars(EndDisc)
=============================================================================
