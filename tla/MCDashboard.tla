---------------------------- MODULE MCDashboard ----------------------------
(* Instances of Dashboard for TLC: the planner with the options that the   *)
(* pages can produce.                                                      *)
EXTENDS Dashboard, TLC

CONSTANTS empty, small, large

MCContent == {empty, small, large}
MCSize == [c \in Content |-> CASE c = empty -> 0
                      [] c = small -> 2
                      [] c = large -> 5]
AllStagings == [Path -> Content \cup {Absent}]

Type(name, capacity, prefix, kind) ==
    [name |-> name, capacity |-> capacity, prefix |-> prefix, kind |-> kind]

(* 1100 bytes overflow IntLimit = 1000 when multiplied by 100.             *)
MCDefaults == <<Type("BD-R", 5, "BD", "optical"), Type("BD-R DL", 11, "BDDL", "optical")>>

(* No database yet; one of the version without prefixes, with a capacity   *)
(* somebody has adapted; a current one.                                    *)
MCDatabases ==
    {[n \in {} |-> 0],
     [n \in {"BD-R"} |-> [capacity |-> 4, prefix |-> NoColumn, kind |-> NoColumn]],
     [n \in {"BD-R", "BD-R DL"} |-> IF n = "BD-R"
        THEN [capacity |-> 5, prefix |-> "BD", kind |-> "optical"]
        ELSE [capacity |-> 11, prefix |-> "BDDL", kind |-> "optical"]]}

(* A proper type, one without capacity and one that is there already.      *)
MCNewTypes ==
    {Type("HDD", 3, "HDD", "filesystem"), Type("HDD", 0, "HDD", "filesystem"),
     Type("BD-R", 3, "DISC", "optical")}

Form(name, parity, cross, size, dry) ==
    [name |-> name, parityPercent |-> parity, crossDiscParity |-> cross,
     groupSize |-> size, dryRun |-> dry]

(* TargetDataSize(5, 25) = 4, TargetDataSize(3, 25) = 2.                   *)
MCForms ==
    {Form("BD-R", 25, FALSE, 0, FALSE), Form("BD-R", 25, TRUE, -1, TRUE),
     Form("HDD", 25, TRUE, 2, FALSE), Form("BD-R DL", 25, FALSE, 0, FALSE),
     Form("BD-R", 51, FALSE, 0, FALSE)}

MCOptions ==
    [prefix : Prefix, kind : Kind, capacity : {3, 4, 5, 11}, parityPercent : 5..50,
     crossDiscParity : BOOLEAN, groupSize : -1..2]
=============================================================================
