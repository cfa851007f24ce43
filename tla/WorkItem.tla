------------------------------ MODULE WorkItem ------------------------------
(***************************************************************************)
(* What the remote-worker pipeline promises to whoever submits work        *)
(* (docs/remote-workers.md, api_work_submit and api_work_result): an item  *)
(* is queued, running, done or failed; it is handed out to workers, taken  *)
(* back, and ended by a report, and a report comes only from a worker that *)
(* the item was handed to and that has not yet reported or given up.       *)
(* RemoteWorker implements it.                                             *)
(***************************************************************************)
CONSTANTS Items, Machines

VARIABLES
    state,    \* what GET /api/work/result says of an item
    holders   \* machines that may still report on it
vars == <<state, holders>>

Ended == {"done", "failed"}
States == {"none", "queued", "running", "gone"} \cup Ended

Init ==
    /\ state = [i \in Items |-> "none"]
    /\ holders = [i \in Items |-> {}]

Submit(i) ==
    /\ state[i] = "none"
    /\ state' = [state EXCEPT ![i] = "queued"]
    /\ UNCHANGED holders

(* To a worker that is there or has hung up.  An item that has ended may    *)
(* still be handed out, but stays ended.                                    *)
HandOut(i, m) ==
    /\ state[i] \in States \ {"none", "gone"}
    /\ state' = [state EXCEPT ![i] = IF @ = "queued" THEN "running" ELSE @]
    /\ \/ holders' = [holders EXCEPT ![i] = @ \cup {m}]
       \/ UNCHANGED holders

TakeBack(i) ==
    /\ state[i] = "running"
    /\ state' = [state EXCEPT ![i] = "queued"]
    /\ UNCHANGED holders

Report(i, m) ==
    /\ m \in holders[i]
    /\ state[i] \notin {"none", "gone"}
    /\ \E s \in Ended : state' = [state EXCEPT ![i] = s]
    /\ \/ UNCHANGED holders
       \/ holders' = [holders EXCEPT ![i] = @ \ {m}]

GiveUp(m, some) ==
    /\ holders' = [i \in Items |-> IF i \in some THEN holders[i] \ {m} ELSE holders[i]]
    /\ UNCHANGED state

Dispose(i) ==
    /\ state[i] \notin {"none", "gone"}
    /\ state' = [state EXCEPT ![i] = "gone"]
    /\ UNCHANGED holders

Next ==
    \/ \E i \in Items :
        \/ Submit(i)
        \/ TakeBack(i)
        \/ Dispose(i)
        \/ \E m \in Machines : HandOut(i, m) \/ Report(i, m)
    \/ \E m \in Machines, some \in SUBSET Items : GiveUp(m, some)

Spec == Init /\ [][Next]_vars
=============================================================================
