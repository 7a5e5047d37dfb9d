------------------------------- MODULE MCClone -------------------------------
(***************************************************************************)
(* Small instances of Clone: one process with three concurrent callers,    *)
(* and two processes on one temp directory (two runs of the CLI, or the    *)
(* next life of a server) with two callers each.                           *)
(***************************************************************************)
EXTENDS Clone, TLC

CONSTANTS p1, p2, c1, c2, c3, c4

OneProc    == {p1}
OneCallers == {c1, c2, c3}
OneHome    == [c \in OneCallers |-> p1]

TwoProcs   == {p1, p2}
TwoCallers == {c1, c2, c3, c4}
TwoHome    == [c \in TwoCallers |-> IF c \in {c1, c2} THEN p1 ELSE p2]

OneSymmetry == Permutations(OneCallers)
TwoSymmetry == Permutations({c1, c2}) \cup Permutations({c3, c4})
=============================================================================
