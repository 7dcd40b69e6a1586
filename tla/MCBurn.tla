------------------------------- MODULE MCBurn -------------------------------
(* Instances of BurnPipeline for TLC.                                      *)
EXTENDS BurnArchive, TLC

CONSTANTS empty, small, large

MCSize == [c \in Content |-> CASE c = empty -> 0
                      [] c = small -> 2
                      [] c = large -> 5]
MCSmallOnly == {small, large}

Opts(kind, capacity, cross, groupSize) ==
    [prefix |-> "BD", kind |-> kind, capacity |-> capacity, parityPercent |-> 25,
     crossDiscParity |-> cross, groupSize |-> groupSize]

(* Two small files share a disc of capacity 5, each has its own of 3.      *)
BurnOptions ==
    {Opts("optical", 5, FALSE, 0), Opts("filesystem", 3, TRUE, 2),
     Opts("dryrun", 5, FALSE, 0)}

GroupsOfTwo == {Opts("filesystem", 3, TRUE, 2)}
OneDisc == {Opts("optical", 5, FALSE, 0)}

AllSmall == {[p \in Path |-> small]}
TwoStaged == {[p \in Path |-> IF p <= 2 THEN small ELSE Absent]}

CallerSymmetry == Permutations(Caller)
=============================================================================
