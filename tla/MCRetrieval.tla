---------------------------- MODULE MCRetrieval ----------------------------
(* Instances of Retrieval for TLC.                                         *)
EXTENDS Retrieval, TLC

CONSTANTS a, b

MCBase == [p \in Path |-> "file"]

BD(n) == [prefix |-> "BD", num |-> n]

Data(n, path, content, group, slot, dry) ==
    [role |-> "data", group |-> group, slot |-> slot, dry |-> dry,
     iso |-> [id |-> BD(n), files |-> {<<path, content>>}, xor |-> {}]]

Parity(n, members, group, slot, dry) ==
    [role |-> "parity", group |-> group, slot |-> slot, dry |-> dry,
     iso |-> [id |-> BD(n), files |-> {},
              xor |-> {[id |-> m.iso.id, files |-> m.iso.files] : m \in members}]]

Archive(rows, sizes) ==
    LET table == [d \in {r.iso.id : r \in rows} |-> CHOOSE r \in rows : r.iso.id = d] IN
    [disks |-> table,
     groups |-> sizes,
     files |-> UNION {{[disk |-> r.iso.id, path |-> f[1], hash |-> f[2], tagged |-> FALSE] :
                         f \in r.iso.files} : r \in rows}]

(* A group of two and its parity disc; path 1 archived again, with other   *)
(* content, on a disc of its own or on a dry run.                          *)
Pair(dry) == {Data(1, 1, a, 1, 0, dry), Data(2, 2, b, 1, 1, dry)}
Group(dry) == Pair(dry) \cup {Parity(3, Pair(dry), 1, 2, dry)}

WithDisc == Archive(Group(FALSE) \cup {Data(4, 1, b, 0, 0, FALSE)}, <<2>>)
WithDryRun == Archive(Group(FALSE) \cup {Data(4, 1, b, 0, 0, TRUE)}, <<2>>)
DryRunGroup == Archive(Group(TRUE), <<2>>)

(* The last group of a job has one data disc; a job was abandoned after    *)
(* the first data disc of group 2.                                         *)
LastGroup ==
    Archive({Data(1, 1, a, 1, 0, FALSE), Parity(2, {Data(1, 1, a, 1, 0, FALSE)}, 1, 1, FALSE),
             Data(3, 2, b, 2, 0, FALSE)}, <<1, 2>>)

FirstDisc == {BD(1)}

AllArchives == {WithDisc, WithDryRun, DryRunGroup, LastGroup}
GroupOnly == {Archive(Group(FALSE), <<2>>),
              Archive({Data(1, 1, a, 1, 0, FALSE),
                       Parity(2, {Data(1, 1, a, 1, 0, FALSE)}, 1, 1, FALSE)}, <<1>>)}
SingleDisc == {Archive({Data(1, 1, a, 0, 0, FALSE)}, <<>>)}
=============================================================================
