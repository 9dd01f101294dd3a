---------------------------- MODULE MCOperators -----------------------------
(***************************************************************************)
(* Operators for TLC: command lines that differ in what the script does.   *)
(***************************************************************************)
EXTENDS Operators

CONSTANTS tester, commissioner

Both == {tester, commissioner}

Park  == [ns |-> TRUE, calibrate |-> TRUE, save |-> TRUE]
Bench == [ns |-> FALSE, calibrate |-> FALSE, save |-> FALSE]

ParkOrBench == {Park, Bench}
BenchOnly   == {Bench}
=============================================================================
