------------------------------ MODULE MCSystem ------------------------------
(* Instances of System for TLC.                                            *)
EXTENDS System, TLC

CONSTANTS a, b

MCSize == [c \in Content |-> 2]
MCBase == [p \in Path |-> "file"]

Opts(kind, capacity) ==
    [prefix |-> "BD", kind |-> kind, capacity |-> capacity, parityPercent |-> 25,
     crossDiscParity |-> FALSE, groupSize |-> 2]

RealAndDry == {Opts("optical", 5), Opts("dryrun", 5)}
OnlyReal == {Opts("optical", 5)}
DryThenReal == {Opts("dryrun", 5), Opts("optical", 3)}   \* one disc, two discs
BothStaged == {[p \in Path |-> a]}
OneStaged == {[p \in Path |-> IF p = 1 THEN a ELSE Absent]}
=============================================================================
