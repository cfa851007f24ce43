------------------------------ MODULE MCWorker ------------------------------
(* Instances of RemoteWorker for TLC: every machine serves every item.        *)
EXTENDS RemoteWorker

CONSTANTS m1, m2, i1

MCServes == [m \in Machines |-> Items]
=============================================================================
