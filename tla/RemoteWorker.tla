---------------------------- MODULE RemoteWorker ----------------------------
(***************************************************************************)
(* Remote inference workers (docs/remote-workers.md): entries staged with  *)
(* a prompt, long polls that claim them, the unclaiming of a machine that  *)
(* polls again, results accepted from anybody, restaging, and on the       *)
(* worker's side the loop of one thread, its marker file and the abort.    *)
(* Sources: tjai_app/views.py (worker and work endpoints),                 *)
(* tj_agent/worker.py, tj_agent/abort.py.                                  *)
(*                                                                         *)
(* One step is a read with the save that follows it.  Copies that live     *)
(* longer (a poll's list of claims, a restage's sub-entry, a poll's        *)
(* candidate) are read in one step and put back in another.                *)
(***************************************************************************)
EXTENDS Integers, FiniteSets, FiniteSetsExt

CONSTANTS
    Machines,   \* machine_id's of workers
    KeptAlive,  \* those that are always started again
    Items,      \* entries with worker_target
    Research,   \* those with source=multimodel and a base entry
    Serves,     \* items whose target a machine advertises
    NumPolls,   \* bound on the poll requests the server holds at once
    MaxFaults,  \* bound on crashes, lost connections, aborts, restages and
                \* claims that go stale under a working machine
    None

ASSUME RemoteWorkerAssumption ==
    /\ Research \subseteq Items
    /\ KeptAlive \subseteq Machines
    /\ Serves \in [Machines -> SUBSET Items]
    /\ NumPolls \in Nat \ {0}
    /\ MaxFaults \in Nat
    /\ None \notin Machines \cup Items

Polls == 1..NumPolls

VARIABLES
    status,       \* Entry.status of an item; "gone": deleted_at is set
    data,         \* the worker fields of its data
    modelStatus,  \* {model}_status of its base entry
    poll,         \* requests in worker_poll
    agent,        \* the worker thread of a machine
    marker,       \* its current_claim.json
    post,         \* requests to worker_result
    restaging,    \* requests in api_research_restage_subentry
    troubles,     \* how many faults have happened
    gaps          \* history: what went wrong for an item unseen by the code

vars == <<status, data, modelStatus, poll, agent, marker, post, restaging,
          troubles, gaps>>

(* ------------------------------ types ----------------------------------- *)

Data == [target : BOOLEAN, prompt : BOOLEAN, by : Machines \cup {None},
         old : BOOLEAN, result : {"none", "done", "failed"}]
NoData == [target |-> FALSE, prompt |-> FALSE, by |-> None, old |-> FALSE,
           result |-> "none"]
Staged == [NoData EXCEPT !.target = TRUE, !.prompt = TRUE]
Unclaimed(d) == [d EXCEPT !.by = None, !.old = FALSE]

NoPoll == [at |-> "free", m |-> None, i |-> None, open |-> FALSE,
           copies |-> [i \in {} |-> NoData], whole |-> FALSE]
Down == [at |-> "down", i |-> None, whole |-> FALSE]
Idle == [Down EXCEPT !.at = "idle"]
NoMarker == [state |-> "absent", i |-> None]
NotRestaging == [at |-> "none", copy |-> NoData]

Outcomes == {"done", "failed"}
Posts == [m : Machines, i : Items, outcome : Outcomes,
          by : {"work", "refuse", "startup", "cli"},
          at : {"sent", "saved"}, waits : BOOLEAN]
PollState == [at : {"free", "sweep", "base", "hold", "claim", "reply"},
              m : Machines \cup {None}, i : Items \cup {None}, open : BOOLEAN,
              copies : UNION {[some -> Data] : some \in SUBSET Items},
              whole : BOOLEAN]
WorkerState == [at : {"down", "idle", "polling", "got", "working", "posting",
                      "posted", "clearing"},
                i : Items \cup {None}, whole : BOOLEAN]
MarkerState == [state : {"absent", "pending", "posted"}, i : Items \cup {None}]

TypeOK ==
    /\ status \in [Items -> {"none", "active", "done", "blocked", "gone"}]
    /\ data \in [Items -> Data]
    /\ modelStatus \in [Items -> {"none", "staged", "active", "done", "failed"}]
    /\ poll \in [Polls -> PollState]
    /\ \A h \in Polls :
        /\ poll[h].at # "free" => poll[h].m \in Machines
        /\ poll[h].at \in {"base", "claim", "reply"} => poll[h].i \in Items
    /\ agent \in [Machines -> WorkerState]
    /\ marker \in [Machines -> MarkerState]
    /\ post \subseteq Posts
    /\ restaging \in [Items -> [at : {"none", "read", "saved"}, copy : Data]]
    /\ troubles \in 0..MaxFaults
    /\ gaps \in [Items -> SUBSET {"twice", "finished", "aborted", "copied"}]

(* --------------------------- state formulae ----------------------------- *)

(* The machine has been given the item and has not reported on it. *)
Busy(m, i) == agent[m].i = i /\ agent[m].at \in {"got", "working"}

(* The machine may still report on the item. *)
Holders(i) ==
    {m \in Machines :
        \/ Busy(m, i)
        \/ marker[m] = [state |-> "pending", i |-> i]
        \/ \E p \in post : p.m = m /\ p.i = i
        \/ \E h \in Polls : /\ poll[h].at = "reply" /\ poll[h].open
                            /\ poll[h].m = m /\ poll[h].i = i}

(* The status of GET /api/work/result. *)
ItemState(i) ==
    CASE status[i] = "done" -> "done"
      [] status[i] = "blocked" -> "failed"
      [] status[i] = "active" /\ data[i].by # None -> "running"
      [] status[i] = "active" /\ data[i].by = None -> "queued"
      [] OTHER -> status[i]

Gap(i, why) == gaps' = [gaps EXCEPT ![i] = @ \cup why]
Trouble == troubles < MaxFaults /\ troubles' = troubles + 1

Init ==
    /\ status = [i \in Items |-> "none"]
    /\ data = [i \in Items |-> NoData]
    /\ modelStatus = [i \in Items |-> "none"]
    /\ poll = [h \in Polls |-> NoPoll]
    /\ agent = [m \in Machines |-> Down]
    /\ marker = [m \in Machines |-> NoMarker]
    /\ post = {}
    /\ restaging = [i \in Items |-> NotRestaging]
    /\ troubles = 0
    /\ gaps = [i \in Items |-> {}]

(* ------------------- staging and the submitter's calls ------------------- *)

(* api_work_submit; for research _dispatch_research_3way. *)
Stage(i) ==
    /\ status[i] = "none"
    /\ status' = [status EXCEPT ![i] = "active"]
    /\ data' = [data EXCEPT ![i] = Staged]
    /\ modelStatus' = [modelStatus EXCEPT ![i] =
                          IF i \in Research THEN "staged" ELSE @]
    /\ UNCHANGED <<poll, agent, marker, post, restaging, troubles, gaps>>

(* api_work_result, DELETE. *)
Dispose(i) ==
    /\ status[i] \notin {"none", "gone"}
    /\ status' = [status EXCEPT ![i] = "gone"]
    /\ data' = [data EXCEPT ![i] = NoData]
    /\ UNCHANGED <<modelStatus, poll, agent, marker, post, restaging, troubles,
                   gaps>>

(* api_research_restage_subentry reads the sub-entry, builds the prompt,    *)
(* saves the whole data without a claim, then the base entry.               *)
RestageRead(i) ==
    /\ i \in Research
    /\ status[i] \notin {"none", "gone"}
    /\ data[i].target
    /\ restaging[i] = NotRestaging
    /\ Trouble
    /\ restaging' = [restaging EXCEPT ![i] =
            [at |-> "read", copy |-> [Unclaimed(data[i]) EXCEPT !.prompt = TRUE]]]
    /\ UNCHANGED <<status, data, modelStatus, poll, agent, marker, post, gaps>>

RestageSave(i) ==
    /\ restaging[i].at = "read"
    /\ data' = [data EXCEPT ![i] = IF status[i] = "gone" THEN @
                                   ELSE restaging[i].copy]
    /\ Gap(i, (IF Holders(i) # {} THEN {"twice"} ELSE {}) \cup
              (IF status[i] # "active" THEN {"copied"} ELSE {}))
    /\ restaging' = [restaging EXCEPT ![i] = [at |-> "saved", copy |-> NoData]]
    /\ UNCHANGED <<status, modelStatus, poll, agent, marker, post, troubles>>

RestageBase(i) ==
    /\ restaging[i].at = "saved"
    /\ modelStatus' = [modelStatus EXCEPT ![i] = "staged"]
    /\ restaging' = [restaging EXCEPT ![i] = NotRestaging]
    /\ Gap(i, IF status[i] # "active" THEN {"copied"} ELSE {})
    /\ UNCHANGED <<status, data, poll, agent, marker, post, troubles>>

(* A claim passes WORKER_CLAIM_STALE_SECONDS, which "must comfortably       *)
(* exceed the longest legitimate single work-item runtime": under a machine *)
(* that is still busy it is a fault.                                        *)
Ages(i) ==
    /\ data[i].by # None
    /\ ~data[i].old
    /\ data' = [data EXCEPT ![i].old = TRUE]
    /\ IF Busy(data[i].by, i) THEN Trouble ELSE UNCHANGED troubles
    /\ UNCHANGED <<status, modelStatus, poll, agent, marker, post, restaging,
                   gaps>>

(* ------------------------------ worker_poll ------------------------------ *)

AfterSweep(copies) == IF DOMAIN copies = {} THEN "hold" ELSE "sweep"

(* The free-capacity signal: the request lists the machine's claims, to     *)
(* save each without it afterwards; those of ended items are left alone.    *)
PollStart(m) ==
    LET mine == {i \in Items : data[i].by = m /\ status[i] = "active"}
        copies == [i \in mine |-> Unclaimed(data[i])]
    IN  /\ agent[m].at = "idle"
        /\ \E h \in Polls :
            /\ poll[h].at = "free"
            /\ \A g \in Polls : poll[g].at = "free" => h <= g
            /\ poll' = [poll EXCEPT ![h] =
                    [NoPoll EXCEPT !.at = AfterSweep(copies), !.m = m,
                                   !.open = TRUE, !.copies = copies]]
        /\ agent' = [agent EXCEPT ![m] = [Down EXCEPT !.at = "polling"]]
        /\ UNCHANGED <<status, data, modelStatus, marker, post, restaging,
                       troubles, gaps>>

SweepSave(h, i) ==
    /\ poll[h].at = "sweep"
    /\ i \in DOMAIN poll[h].copies
    /\ data' = [data EXCEPT ![i] = IF status[i] = "gone" THEN @
                                   ELSE poll[h].copies[i]]
    /\ Gap(i, (IF Holders(i) # {} THEN {"twice"} ELSE {}) \cup
              (IF status[i] # "active" THEN {"copied"} ELSE {}))
    /\ poll' = [poll EXCEPT ![h] = [@ EXCEPT !.at = "base", !.i = i]]
    /\ UNCHANGED <<status, modelStatus, agent, marker, post, restaging, troubles>>

SweepBase(h) ==
    LET i == poll[h].i
        left == [j \in DOMAIN poll[h].copies \ {i} |-> poll[h].copies[j]]
    IN  /\ poll[h].at = "base"
        /\ modelStatus' = [modelStatus EXCEPT ![i] =
                              IF @ = "active" THEN "staged" ELSE @]
        /\ poll' = [poll EXCEPT ![h] = [@ EXCEPT !.at = AfterSweep(left),
                                                 !.i = None, !.copies = left]]
        /\ UNCHANGED <<status, data, agent, marker, post, restaging, troubles,
                       gaps>>

HeldForever(d) == d.by # None              \* mutant: no stale claims
Held(d) == d.by # None /\ ~d.old

(* _claim_worker_entry: an unclaimed active entry for one of the machine's  *)
(* capabilities.  Their order is left open.                                 *)
Candidates(m) ==
    {i \in Serves[m] : status[i] = "active" /\ data[i].target /\ ~Held(data[i])}

Select(h) ==
    /\ poll[h].at = "hold"
    /\ \E i \in Candidates(poll[h].m) :
        poll' = [poll EXCEPT ![h] = [@ EXCEPT !.at = "claim", !.i = i]]
    /\ UNCHANGED <<status, data, modelStatus, agent, marker, post, restaging,
                   troubles, gaps>>

(* Under the row lock deleted_at and the claim are looked at again, status  *)
(* and worker_target are not.                                               *)
ClaimBlind(h, i) == TRUE                    \* mutant: no second look
ClaimLeft(h, i) == status[i] # "gone" /\ ~Held(data[i])

Claim(h) ==
    LET i == poll[h].i
        m == poll[h].m
    IN  /\ poll[h].at = "claim"
        /\ ClaimLeft(h, i)
        /\ data' = [data EXCEPT ![i] = [@ EXCEPT !.by = m, !.old = FALSE]]
        /\ modelStatus' = [modelStatus EXCEPT ![i] =
                              IF @ = "staged" THEN "active" ELSE @]
        /\ poll' = [poll EXCEPT ![h] =
                [@ EXCEPT !.at = "reply",
                          !.whole = data[i].target /\ data[i].prompt]]
        /\ Gap(i, (IF Holders(i) # {} /\ data[i].old THEN {"twice"} ELSE {}) \cup
                  (IF status[i] # "active" THEN {"finished"} ELSE {}))
        /\ UNCHANGED <<status, agent, marker, post, restaging, troubles>>

ClaimMissed(h) ==
    /\ poll[h].at = "claim"
    /\ ~ClaimLeft(h, poll[h].i)
    /\ poll' = [poll EXCEPT ![h] = [@ EXCEPT !.at = "hold", !.i = None]]
    /\ UNCHANGED <<status, data, modelStatus, agent, marker, post, restaging,
                   troubles, gaps>>

(* The answer, to a worker that may have hung up: the claim stays. *)
Reply(h) ==
    LET m == poll[h].m
    IN  /\ poll[h].at = "reply"
        /\ poll' = [poll EXCEPT ![h] = NoPoll]
        /\ agent' = [agent EXCEPT ![m] =
                IF poll[h].open
                THEN [at |-> "got", i |-> poll[h].i, whole |-> poll[h].whole]
                ELSE @]
        /\ UNCHANGED <<status, data, modelStatus, marker, post, restaging,
                       troubles, gaps>>

(* WORKER_POLL_HOLD_SECONDS are over and nothing can be claimed. *)
Empty(h) ==
    /\ poll[h].at = "hold"
    /\ Candidates(poll[h].m) = {}
    /\ poll' = [poll EXCEPT ![h] = NoPoll]
    /\ agent' = [agent EXCEPT ![poll[h].m] = IF poll[h].open THEN Idle ELSE @]
    /\ UNCHANGED <<status, data, modelStatus, marker, post, restaging, troubles,
                   gaps>>

(* The worker's connection breaks or times out; the server does not notice. *)
HangUp(h) ==
    /\ poll[h].open
    /\ Trouble
    /\ poll' = [poll EXCEPT ![h].open = FALSE]
    /\ agent' = [agent EXCEPT ![poll[h].m] = Idle]
    /\ UNCHANGED <<status, data, modelStatus, marker, post, restaging, gaps>>

(* ----------------------------- worker_result ----------------------------- *)

Send(m, i, outcome, by) ==
    post' = post \cup {[m |-> m, i |-> i, outcome |-> outcome, by |-> by,
                        at |-> "sent", waits |-> TRUE]}

ReportedFirst(d, outcome) ==               \* mutant: the first report is kept
    [NoData EXCEPT !.result = IF d.result = "none" THEN outcome ELSE d.result]
Reported(d, outcome) == [NoData EXCEPT !.result = outcome]

(* What the sender does once its request was answered: _process_work_async, *)
(* or abort_current_claim at startup and from the command line.             *)
Answered(p) ==
    CASE ~p.waits -> UNCHANGED <<agent, marker>>
      [] p.waits /\ p.by = "work" ->
            /\ agent' = [agent EXCEPT ![p.m].at = "posted"]
            /\ UNCHANGED marker
      [] p.waits /\ p.by = "refuse" ->
            /\ agent' = [agent EXCEPT ![p.m] = Idle]
            /\ UNCHANGED marker
      [] p.waits /\ p.by = "startup" ->
            /\ agent' = [agent EXCEPT ![p.m] = Idle]
            /\ marker' = [marker EXCEPT ![p.m] = NoMarker]
      [] p.waits /\ p.by = "cli" ->
            /\ marker' = [marker EXCEPT ![p.m] = NoMarker]
            /\ UNCHANGED agent

(* ... or failed: the worker forgets the work, an abort keeps the marker.   *)
Unanswered(p) ==
    agent' = [agent EXCEPT ![p.m] =
                 CASE p.waits /\ p.by = "work" -> [@ EXCEPT !.at = "clearing"]
                   [] p.waits /\ p.by \in {"refuse", "startup"} -> Idle
                   [] OTHER -> @]

(* The result is taken from whoever sends it; 404 if the entry is gone.     *)
ResultSave(p) ==
    /\ p.at = "sent"
    /\ IF status[p.i] = "gone"
       THEN /\ Unanswered(p)
            /\ post' = post \ {p}
            /\ UNCHANGED <<status, data, marker>>
       ELSE /\ status' = [status EXCEPT ![p.i] =
                             IF p.outcome = "done" THEN "done" ELSE "blocked"]
            /\ data' = [data EXCEPT ![p.i] = Reported(@, p.outcome)]
            /\ post' = (post \ {p}) \cup {[p EXCEPT !.at = "saved"]}
            /\ UNCHANGED <<agent, marker>>
    /\ UNCHANGED <<modelStatus, poll, restaging, troubles, gaps>>

CompletedIfDone(p, old) == IF p.outcome = "done" THEN "done" ELSE old  \* mutant
Completed(p, old) == p.outcome

(* research_model_complete, then the response. *)
ResultComplete(p) ==
    /\ p.at = "saved"
    /\ modelStatus' = [modelStatus EXCEPT ![p.i] =
                          IF p.i \in Research THEN Completed(p, @) ELSE @]
    /\ post' = post \ {p}
    /\ Answered(p)
    /\ UNCHANGED <<status, data, poll, restaging, troubles, gaps>>

(* A request whose sender has given up may never arrive. *)
ResultLost(p) ==
    /\ ~p.waits
    /\ p.at = "sent"
    /\ post' = post \ {p}
    /\ UNCHANGED <<status, data, modelStatus, poll, agent, marker, restaging,
                   troubles, gaps>>

(* The 30 s of worker_result pass, or the network fails. *)
PostFails(p) ==
    /\ p.waits
    /\ Trouble
    /\ post' = (post \ {p}) \cup {[p EXCEPT !.waits = FALSE]}
    /\ Unanswered(p)
    /\ UNCHANGED <<status, data, modelStatus, poll, marker, restaging, gaps>>

(* ------------------------------- the worker ------------------------------ *)

(* _process_work_async: the marker is written; work without a prompt or a   *)
(* known capability is refused at once and leaves the marker alone.         *)
Begin(m) ==
    LET i == agent[m].i
    IN  /\ agent[m].at = "got"
        /\ \/ /\ agent[m].whole
              /\ marker' = [marker EXCEPT ![m] = [state |-> "pending", i |-> i]]
              /\ agent' = [agent EXCEPT ![m].at = "working"]
              /\ UNCHANGED post
           \/ /\ ~agent[m].whole
              /\ Send(m, i, "failed", "refuse")
              /\ agent' = [agent EXCEPT ![m].at = "posting"]
              /\ UNCHANGED marker
        /\ UNCHANGED <<status, data, modelStatus, poll, restaging, troubles, gaps>>

(* The chat loop ends with a text, or with none or an exception. *)
Work(m) ==
    /\ agent[m].at = "working"
    /\ \E outcome \in Outcomes : Send(m, agent[m].i, outcome, "work")
    /\ agent' = [agent EXCEPT ![m].at = "posting"]
    /\ UNCHANGED <<status, data, modelStatus, poll, marker, restaging, troubles,
                   gaps>>

MarkPosted(m) ==
    /\ agent[m].at = "posted"
    /\ marker' = [marker EXCEPT ![m] =
                     IF @ = NoMarker THEN @ ELSE [@ EXCEPT !.state = "posted"]]
    /\ agent' = [agent EXCEPT ![m].at = "clearing"]
    /\ UNCHANGED <<status, data, modelStatus, poll, post, restaging, troubles,
                   gaps>>

ClearMarker(m) ==
    /\ agent[m].at = "clearing"
    /\ marker' = [marker EXCEPT ![m] = NoMarker]
    /\ agent' = [agent EXCEPT ![m] = Idle]
    /\ UNCHANGED <<status, data, modelStatus, poll, post, restaging, troubles,
                   gaps>>

Crash(m) ==
    /\ agent[m].at # "down"
    /\ Trouble
    /\ agent' = [agent EXCEPT ![m] = Down]
    /\ poll' = [h \in Polls |-> IF poll[h].m = m
                                THEN [poll[h] EXCEPT !.open = FALSE] ELSE poll[h]]
    /\ post' = {IF p.m = m /\ p.by # "cli" THEN [p EXCEPT !.waits = FALSE] ELSE p :
                  p \in post}
    /\ UNCHANGED <<status, data, modelStatus, marker, restaging, gaps>>

(* abort_current_claim: nothing to do, a marker that says posted is only    *)
(* removed, and for a pending one the failure is sent.                      *)
AbortsAnything(m) == marker[m] # NoMarker     \* mutant: posted is not looked at
MustAbort(m) == marker[m].state = "pending"

GapOfAbort(m) ==
    Gap(marker[m].i, IF marker[m].state = "pending" THEN {"aborted"} ELSE {})

Start(m) ==
    /\ agent[m].at = "down"
    /\ \/ /\ MustAbort(m)
          /\ Send(m, marker[m].i, "failed", "startup")
          /\ agent' = [agent EXCEPT ![m] = [Down EXCEPT !.at = "posting"]]
          /\ GapOfAbort(m)
          /\ UNCHANGED marker
       \/ /\ ~MustAbort(m)
          /\ marker' = [marker EXCEPT ![m] = NoMarker]
          /\ agent' = [agent EXCEPT ![m] = Idle]
          /\ UNCHANGED <<post, gaps>>
    /\ UNCHANGED <<status, data, modelStatus, poll, restaging, troubles>>

(* tj_agent abort, beside a worker that may be alive (kill_worker.sh). *)
AbortCli(m) ==
    /\ MustAbort(m)
    /\ ~\E p \in post : p.m = m /\ p.by = "cli"
    /\ Trouble
    /\ Send(m, marker[m].i, "failed", "cli")
    /\ GapOfAbort(m)
    /\ UNCHANGED <<status, data, modelStatus, poll, agent, marker, restaging>>

Next ==
    \/ \E i \in Items :
        \/ Stage(i)
        \/ Dispose(i)
        \/ Ages(i)
        \/ RestageRead(i)
        \/ RestageSave(i)
        \/ RestageBase(i)
        \/ \E h \in Polls : SweepSave(h, i)
    \/ \E h \in Polls :
        \/ SweepBase(h)
        \/ Select(h)
        \/ Claim(h)
        \/ ClaimMissed(h)
        \/ Reply(h)
        \/ Empty(h)
        \/ HangUp(h)
    \/ \E m \in Machines :
        \/ PollStart(m)
        \/ Begin(m)
        \/ Work(m)
        \/ MarkPosted(m)
        \/ ClearMarker(m)
        \/ Crash(m)
        \/ Start(m)
        \/ AbortCli(m)
    \/ \E p \in post :
        \/ ResultSave(p)
        \/ ResultComplete(p)
        \/ ResultLost(p)
        \/ PostFails(p)

Spec == Init /\ [][Next]_vars

(* The server answers its requests, a worker that runs goes on, one kept    *)
(* alive is started again, and time passes.                                 *)
Served(h) ==
    \/ \E i \in Items : SweepSave(h, i)
    \/ SweepBase(h)
    \/ Select(h)
    \/ Claim(h)
    \/ ClaimMissed(h)
    \/ Reply(h)
    \/ Empty(h)
Runs(m) == PollStart(m) \/ Begin(m) \/ Work(m) \/ MarkPosted(m) \/ ClearMarker(m)
Delivered(p) == p \in post /\ (ResultSave(p) \/ ResultComplete(p))

FairSpec ==
    /\ Spec
    /\ \A h \in Polls : WF_vars(Served(h))
    /\ \A m \in Machines : WF_vars(Runs(m))
    /\ \A m \in KeptAlive : WF_vars(Start(m))
    /\ \A p \in Posts : WF_vars(Delivered(p))
    /\ \A i \in Items :
        WF_vars(Ages(i)) /\ WF_vars(RestageSave(i) \/ RestageBase(i))

(* ------------------------------ properties ------------------------------- *)

(* "Two workers fighting over the same claim shouldn't happen": no two      *)
(* machines work on an item, unless its claim was taken away (stale, swept  *)
(* by a poll of the same machine, restaged) while somebody could still      *)
(* report on it.                                                            *)
OneWorker ==
    \A i \in Items :
        "twice" \notin gaps[i] =>
            Cardinality({m \in Machines : agent[m].at = "working" /\ agent[m].i = i}) <= 1

(* A reported result is kept.  GET /api/work/result finds the result of an  *)
(* item that is done, and the error of one that failed, unless a poll or a  *)
(* restage put back a copy of the data that it had read before the result   *)
(* came; and an item that is done is not turned into a failed one, except   *)
(* by a second worker, by a worker that claimed it when it was finished and *)
(* found no prompt, or by an abort whose marker did not say posted yet.     *)
ResultFound ==
    \A i \in Items :
        "copied" \notin gaps[i] =>
            /\ status[i] = "done" => data[i].result = "done"
            /\ status[i] = "blocked" => data[i].result = "failed"
ResultKept ==
    /\ []ResultFound
    /\ [][\A i \in Items :
            status[i] = "done" /\ status'[i] = "blocked" =>
                gaps[i] \cap {"twice", "finished", "aborted"} # {}]_vars

(* Staged work ends, whatever crashes, as long as one machine that serves   *)
(* it is kept alive: an abandoned claim is unclaimed by the machine's next  *)
(* poll, or taken over when it is stale.  The research status follows: a    *)
(* model whose item has ended is not left staged or active, unless a copy   *)
(* was put back.                                                            *)
WorkEnds ==
    /\ \A i \in Items : status[i] = "active" ~> status[i] # "active"
    /\ \A i \in Research :
        status[i] \in {"done", "blocked"} ~>
            \/ modelStatus[i] \in {"done", "failed"}
            \/ "copied" \in gaps[i]
            \/ status[i] = "gone"

(* The pipeline is a WorkItem: what the submitter sees of an item, and who  *)
(* may still report on it.                                                  *)
Contract == INSTANCE WorkItem WITH
    state <- [i \in Items |-> ItemState(i)],
    holders <- [i \in Items |-> Holders(i)]
ImplementsWorkItem == Contract!Spec
=============================================================================
