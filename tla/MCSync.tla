------------------------------- MODULE MCSync -------------------------------
(* Small instances of Sync for TLC.                                         *)
EXTENDS Sync, TLC

CONSTANTS m1, m2, c1, none, g1

MCNoContext == [e \in Entries |-> none]
MCFirstInContext == [e \in Entries |-> IF e = 1 THEN c1 ELSE none]
MCInStep == [m \in Machines |-> 0]
MCAnywhere == Stages \ {"idle"}
MCBeforeRestore == MCAnywhere \ {"restore"}
MCSymmetry == Permutations({m1, m2})
=============================================================================
