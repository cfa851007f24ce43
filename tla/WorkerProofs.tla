---------------------------- MODULE WorkerProofs ----------------------------
(* Proofs about RemoteWorker: its type invariant, that the pipeline         *)
(* implements WorkItem, that no two machines work on an item nobody took    *)
(* away, and that a reported result is kept, for any machines, items,       *)
(* capabilities, number of requests and number of faults.                   *)
EXTENDS RemoteWorker, TLAPS, FiniteSetTheorems

(* The inductive invariant, one part per variable.  Beside the types: what  *)
(* a poll hands out, a worker has, a marker names or a report is about has  *)
(* been staged, and a copy of an item's data that a poll or a restage will  *)
(* put back has no claim.                                                   *)
ItemsOK ==
    /\ status \in [Items -> {"none", "active", "done", "blocked", "gone"}]
    /\ data \in [Items -> Data]
    /\ modelStatus \in [Items -> {"none", "staged", "active", "done", "failed"}]
    /\ troubles \in 0..MaxFaults
    /\ gaps \in [Items -> SUBSET {"twice", "finished", "aborted", "copied"}]

GoodPoll(q) ==
    /\ q \in PollState
    /\ q.at # "free" => q.m \in Machines
    /\ q.at \in {"base", "claim", "reply"} => q.i \in Items
    /\ q.at \in {"claim", "reply"} => status[q.i] # "none"
    /\ \A i \in DOMAIN q.copies : q.copies[i].by = None
PollsOK == poll \in [Polls -> PollState] /\ \A h \in Polls : GoodPoll(poll[h])

GoodWorker(w) ==
    /\ w \in WorkerState
    /\ w.at \in {"got", "working"} => w.i \in Items /\ status[w.i] # "none"
AgentsOK == agent \in [Machines -> WorkerState] /\ \A m \in Machines : GoodWorker(agent[m])

GoodMarker(k) ==
    /\ k \in MarkerState
    /\ k.state = "pending" => k.i \in Items /\ status[k.i] # "none"
MarkersOK == marker \in [Machines -> MarkerState] /\ \A m \in Machines : GoodMarker(marker[m])

PostsOK == post \subseteq Posts /\ \A p \in post : status[p.i] # "none"

RestagingOK ==
    /\ restaging \in [Items -> [at : {"none", "read", "saved"}, copy : Data]]
    /\ \A i \in Items : restaging[i].at = "read" => restaging[i].copy.by = None

WorkerInv == ItemsOK /\ PollsOK /\ AgentsOK /\ MarkersOK /\ PostsOK /\ RestagingOK

LEMMA InvTypes == WorkerInv => TypeOK
  BY DEF WorkerInv, TypeOK, ItemsOK, PollsOK, GoodPoll, AgentsOK, MarkersOK, PostsOK, RestagingOK

-----------------------------------------------------------------------------
(* Types of the records the steps build.                                    *)

Copies == UNION {[some -> Data] : some \in SUBSET Items}

LEMMA StartTypes ==
  /\ NoData \in Data /\ Staged \in Data /\ NoPoll \in PollState
  /\ Down \in WorkerState /\ Idle \in WorkerState /\ NoMarker \in MarkerState
  /\ DOMAIN NoPoll.copies = {}
  <1>1. NoData \in Data /\ Staged \in Data
    BY DEF NoData, Staged, Data
  <1>2. NoPoll.copies \in [{} -> Data] /\ DOMAIN NoPoll.copies = {}
    BY DEF NoPoll
  <1>3. NoPoll.copies \in Copies
    BY <1>2 DEF Copies
  <1>4. NoPoll \in PollState
    BY <1>3 DEF NoPoll, PollState, Copies
  <1>5. Down \in WorkerState /\ Idle \in WorkerState /\ NoMarker \in MarkerState
    BY DEF Down, Idle, WorkerState, NoMarker, MarkerState
  <1>6. QED
    BY <1>1, <1>2, <1>4, <1>5

LEMMA DataTypes ==
  ASSUME NEW d \in Data
  PROVE  /\ Unclaimed(d) \in Data /\ Unclaimed(d).by = None
         /\ [d EXCEPT !.old = TRUE] \in Data /\ [d EXCEPT !.old = TRUE].by = d.by
         /\ [Unclaimed(d) EXCEPT !.prompt = TRUE] \in Data
         /\ [Unclaimed(d) EXCEPT !.prompt = TRUE].by = None
         /\ \A m \in Machines : /\ [d EXCEPT !.by = m, !.old = FALSE] \in Data
                                /\ [d EXCEPT !.by = m, !.old = FALSE].by = m
         /\ \A o \in Outcomes : Reported(d, o) \in Data /\ Reported(d, o).by = None
  <1>1. Unclaimed(d) \in Data /\ Unclaimed(d).by = None
    BY DEF Unclaimed, Data
  <1>2. [d EXCEPT !.old = TRUE] \in Data /\ [d EXCEPT !.old = TRUE].by = d.by
    BY DEF Data
  <1>3. /\ [Unclaimed(d) EXCEPT !.prompt = TRUE] \in Data
        /\ [Unclaimed(d) EXCEPT !.prompt = TRUE].by = None
    <2>1. \A e \in Data : /\ [e EXCEPT !.prompt = TRUE] \in Data
                          /\ [e EXCEPT !.prompt = TRUE].by = e.by
      BY DEF Data
    <2>2. QED
      BY <1>1, <2>1
  <1>4. \A m \in Machines : /\ [d EXCEPT !.by = m, !.old = FALSE] \in Data
                            /\ [d EXCEPT !.by = m, !.old = FALSE].by = m
    BY DEF Data
  <1>5. \A o \in Outcomes : Reported(d, o) \in Data /\ Reported(d, o).by = None
    BY DEF Reported, NoData, Data, Outcomes
  <1>6. QED
    BY <1>1, <1>2, <1>3, <1>4, <1>5

LEMMA InitInv == Init => WorkerInv
  <1> SUFFICES ASSUME Init PROVE WorkerInv
    OBVIOUS
  <1>1. /\ poll \in [Polls -> PollState] /\ agent \in [Machines -> WorkerState]
        /\ marker \in [Machines -> MarkerState] /\ data \in [Items -> Data]
        /\ restaging \in [Items -> [at : {"none", "read", "saved"}, copy : Data]]
    BY StartTypes DEF Init, NotRestaging
  <1>2. ItemsOK /\ PostsOK
    BY StartTypes, RemoteWorkerAssumption
       DEF Init, ItemsOK, PostsOK, RemoteWorkerAssumption
  <1>3. PollsOK
    <2>1. \A h \in Polls : poll[h] = NoPoll
      BY DEF Init
    <2>2. GoodPoll(NoPoll)
      BY StartTypes DEF GoodPoll, NoPoll
    <2>3. QED
      BY <1>1, <2>1, <2>2 DEF PollsOK
  <1>4. AgentsOK /\ MarkersOK
    BY <1>1, StartTypes DEF Init, AgentsOK, GoodWorker, Down, MarkersOK, GoodMarker, NoMarker
  <1>5. RestagingOK
    BY <1>1 DEF Init, RestagingOK, NotRestaging
  <1>6. QED
    BY <1>2, <1>3, <1>4, <1>5 DEF WorkerInv

-----------------------------------------------------------------------------
(* What changes of one variable keep.                                       *)

StagedStays == \A i \in Items : status[i] # "none" => status'[i] # "none"

LEMMA Kept ==
  ASSUME WorkerInv, StagedStays
  PROVE  /\ poll' = poll => PollsOK'
         /\ agent' = agent => AgentsOK'
         /\ marker' = marker => MarkersOK'
         /\ post' = post => PostsOK'
         /\ restaging' = restaging => RestagingOK'
  <1>1. poll' = poll => PollsOK'
    BY DEF WorkerInv, StagedStays, PollsOK, GoodPoll
  <1>2. agent' = agent => AgentsOK'
    BY DEF WorkerInv, StagedStays, AgentsOK, GoodWorker
  <1>3. marker' = marker => MarkersOK'
    BY DEF WorkerInv, StagedStays, MarkersOK, GoodMarker
  <1>4. post' = post => PostsOK'
    BY DEF WorkerInv, StagedStays, PostsOK, Posts
  <1>5. restaging' = restaging => RestagingOK'
    BY DEF WorkerInv, RestagingOK
  <1>6. QED
    BY <1>1, <1>2, <1>3, <1>4, <1>5

LEMMA PollChanges ==
  ASSUME WorkerInv, StagedStays, NEW h \in Polls, NEW new, GoodPoll(new),
         poll' = [poll EXCEPT ![h] = new]
  PROVE  PollsOK'
  <1>1. poll' \in [Polls -> PollState] /\ \A g \in Polls : poll'[g] \in {poll[g], new}
    BY DEF WorkerInv, PollsOK, GoodPoll
  <1>2. ASSUME NEW q, GoodPoll(q) PROVE GoodPoll(q)'
    BY <1>2 DEF StagedStays, GoodPoll
  <1>3. QED
    BY <1>1, <1>2 DEF WorkerInv, PollsOK

LEMMA AgentChanges ==
  ASSUME WorkerInv, StagedStays, NEW m \in Machines, NEW new, GoodWorker(new),
         agent' = [agent EXCEPT ![m] = new]
  PROVE  AgentsOK'
  <1>1. agent' \in [Machines -> WorkerState] /\ \A o \in Machines : agent'[o] \in {agent[o], new}
    BY DEF WorkerInv, AgentsOK, GoodWorker
  <1>2. ASSUME NEW w, GoodWorker(w) PROVE GoodWorker(w)'
    BY <1>2 DEF StagedStays, GoodWorker
  <1>3. QED
    BY <1>1, <1>2 DEF WorkerInv, AgentsOK

LEMMA MarkerChanges ==
  ASSUME WorkerInv, StagedStays, NEW m \in Machines, NEW new, GoodMarker(new),
         marker' = [marker EXCEPT ![m] = new]
  PROVE  MarkersOK'
  <1>1. marker' \in [Machines -> MarkerState] /\ \A o \in Machines : marker'[o] \in {marker[o], new}
    BY DEF WorkerInv, MarkersOK, GoodMarker
  <1>2. ASSUME NEW k, GoodMarker(k) PROVE GoodMarker(k)'
    BY <1>2 DEF StagedStays, GoodMarker
  <1>3. QED
    BY <1>1, <1>2 DEF WorkerInv, MarkersOK

LEMMA Faulty == WorkerInv /\ Trouble => troubles' \in 0..MaxFaults
  BY RemoteWorkerAssumption DEF RemoteWorkerAssumption, WorkerInv, ItemsOK, Trouble

LEMMA GapTypes ==
  ASSUME WorkerInv, NEW i \in Items,
         NEW why \in SUBSET {"twice", "finished", "aborted", "copied"}, Gap(i, why)
  PROVE  gaps' \in [Items -> SUBSET {"twice", "finished", "aborted", "copied"}]
  BY DEF WorkerInv, ItemsOK, Gap

-----------------------------------------------------------------------------
(* The submitter's calls and the age of a claim.                            *)

LEMMA StageKeeps ==
  ASSUME WorkerInv, NEW i \in Items, Stage(i)
  PROVE  WorkerInv'
  <1>1. StagedStays
    BY DEF Stage, StagedStays, WorkerInv, ItemsOK
  <1>2. ItemsOK'
    BY StartTypes DEF Stage, WorkerInv, ItemsOK
  <1>3. QED
    BY <1>1, <1>2, Kept DEF Stage, WorkerInv

LEMMA DisposeKeeps ==
  ASSUME WorkerInv, NEW i \in Items, Dispose(i)
  PROVE  WorkerInv'
  <1>1. StagedStays
    BY DEF Dispose, StagedStays, WorkerInv, ItemsOK
  <1>2. ItemsOK'
    BY StartTypes DEF Dispose, WorkerInv, ItemsOK
  <1>3. QED
    BY <1>1, <1>2, Kept DEF Dispose, WorkerInv

LEMMA AgesKeeps ==
  ASSUME WorkerInv, NEW i \in Items, Ages(i)
  PROVE  WorkerInv'
  <1>1. StagedStays
    BY DEF Ages, StagedStays
  <1>2. ItemsOK'
    <2>1. data' = [data EXCEPT ![i] = [data[i] EXCEPT !.old = TRUE]] /\ data[i] \in Data
      BY DEF Ages, WorkerInv, ItemsOK
    <2>2. data' \in [Items -> Data]
      BY <2>1, DataTypes DEF WorkerInv, ItemsOK
    <2>3. troubles' \in 0..MaxFaults
      BY Faulty DEF Ages, WorkerInv, ItemsOK
    <2>4. QED
      BY <2>2, <2>3 DEF Ages, WorkerInv, ItemsOK
  <1>3. QED
    BY <1>1, <1>2, Kept DEF Ages, WorkerInv

LEMMA RestageReadKeeps ==
  ASSUME WorkerInv, NEW i \in Items, RestageRead(i)
  PROVE  WorkerInv'
  <1>1. StagedStays
    BY DEF RestageRead, StagedStays
  <1>2. ItemsOK'
    BY Faulty DEF RestageRead, WorkerInv, ItemsOK
  <1>3. RestagingOK'
    <2> DEFINE copied == [Unclaimed(data[i]) EXCEPT !.prompt = TRUE]
    <2>1. copied \in Data /\ copied.by = None
      BY DataTypes DEF WorkerInv, ItemsOK
    <2>2. restaging' = [restaging EXCEPT ![i] = [at |-> "read", copy |-> copied]]
      BY DEF RestageRead
    <2> HIDE DEF copied
    <2>3. QED
      BY <2>1, <2>2 DEF WorkerInv, RestagingOK
  <1>4. QED
    BY <1>1, <1>2, <1>3, Kept DEF RestageRead, WorkerInv

LEMMA RestageSaveKeeps ==
  ASSUME WorkerInv, NEW i \in Items, RestageSave(i)
  PROVE  WorkerInv'
  <1>1. StagedStays
    BY DEF RestageSave, StagedStays
  <1>2. ItemsOK'
    <2>1. data' \in [Items -> Data]
      BY DEF RestageSave, WorkerInv, ItemsOK, RestagingOK
    <2>2. gaps' \in [Items -> SUBSET {"twice", "finished", "aborted", "copied"}]
      BY GapTypes DEF RestageSave
    <2>3. QED
      BY <2>1, <2>2 DEF RestageSave, WorkerInv, ItemsOK
  <1>3. RestagingOK'
    BY StartTypes DEF RestageSave, WorkerInv, RestagingOK
  <1>4. QED
    BY <1>1, <1>2, <1>3, Kept DEF RestageSave, WorkerInv

LEMMA RestageBaseKeeps ==
  ASSUME WorkerInv, NEW i \in Items, RestageBase(i)
  PROVE  WorkerInv'
  <1>1. StagedStays
    BY DEF RestageBase, StagedStays
  <1>2. ItemsOK'
    <2>1. gaps' \in [Items -> SUBSET {"twice", "finished", "aborted", "copied"}]
      BY GapTypes DEF RestageBase
    <2>2. QED
      BY <2>1 DEF RestageBase, WorkerInv, ItemsOK
  <1>3. RestagingOK'
    BY StartTypes DEF RestageBase, NotRestaging, WorkerInv, RestagingOK
  <1>4. QED
    BY <1>1, <1>2, <1>3, Kept DEF RestageBase, WorkerInv

-----------------------------------------------------------------------------
(* worker_poll.                                                             *)

LEMMA PollStartKeeps ==
  ASSUME WorkerInv, NEW m \in Machines, PollStart(m)
  PROVE  WorkerInv'
  <1> DEFINE mine == {i \in Items : data[i].by = m /\ status[i] = "active"}
             copies == [i \in mine |-> Unclaimed(data[i])]
             new == [NoPoll EXCEPT !.at = AfterSweep(copies), !.m = m,
                                   !.open = TRUE, !.copies = copies]
  <1>1. StagedStays
    BY DEF PollStart, StagedStays
  <1>2. ItemsOK'
    BY DEF PollStart, WorkerInv, ItemsOK
  <1>3. PollsOK'
    <2>1. /\ copies \in [mine -> Data] /\ mine \subseteq Items
          /\ \A i \in DOMAIN copies : copies[i].by = None
      BY DataTypes DEF WorkerInv, ItemsOK
    <2>2. PICK h \in Polls : poll' = [poll EXCEPT ![h] = new]
      BY DEF PollStart
    <2> HIDE DEF copies, mine
    <2>3. copies \in UNION {[some -> Data] : some \in SUBSET Items}
      BY <2>1
    <2>4. AfterSweep(copies) \in {"hold", "sweep"}
      BY DEF AfterSweep
    <2>5. GoodPoll(new)
      BY <2>1, <2>3, <2>4 DEF GoodPoll, PollState, NoPoll
    <2> HIDE DEF new
    <2>6. QED
      BY <1>1, <2>2, <2>5, PollChanges
  <1>4. AgentsOK'
    <2> DEFINE polling == [Down EXCEPT !.at = "polling"]
    <2>1. GoodWorker(polling)
      BY DEF GoodWorker, Down, WorkerState
    <2>2. agent' = [agent EXCEPT ![m] = polling]
      BY DEF PollStart
    <2> HIDE DEF polling
    <2>3. QED
      BY <1>1, <2>1, <2>2, AgentChanges
  <1>5. QED
    BY <1>1, <1>2, <1>3, <1>4, Kept DEF PollStart, WorkerInv

LEMMA SweepSaveKeeps ==
  ASSUME WorkerInv, NEW i \in Items, NEW h \in Polls, SweepSave(h, i)
  PROVE  WorkerInv'
  <1> DEFINE new == [poll[h] EXCEPT !.at = "base", !.i = i]
  <1>1. StagedStays
    BY DEF SweepSave, StagedStays
  <1>2. GoodPoll(poll[h]) /\ poll[h].at = "sweep" /\ i \in DOMAIN poll[h].copies
    BY DEF SweepSave, WorkerInv, PollsOK
  <1>3. poll[h].copies[i] \in Data
    BY <1>2 DEF GoodPoll, PollState
  <1>4. ItemsOK'
    <2>1. data' \in [Items -> Data]
      BY <1>3 DEF SweepSave, WorkerInv, ItemsOK
    <2>2. gaps' \in [Items -> SUBSET {"twice", "finished", "aborted", "copied"}]
      BY GapTypes DEF SweepSave
    <2>3. QED
      BY <2>1, <2>2 DEF SweepSave, WorkerInv, ItemsOK
  <1>5. PollsOK'
    <2>1. GoodPoll(new)
      BY <1>2 DEF GoodPoll, PollState
    <2>2. poll' = [poll EXCEPT ![h] = new]
      BY DEF SweepSave
    <2> HIDE DEF new
    <2>3. QED
      BY <1>1, <2>1, <2>2, PollChanges
  <1>6. QED
    BY <1>1, <1>4, <1>5, Kept DEF SweepSave, WorkerInv

LEMMA SweepBaseKeeps ==
  ASSUME WorkerInv, NEW h \in Polls, SweepBase(h)
  PROVE  WorkerInv'
  <1> DEFINE left == [j \in DOMAIN poll[h].copies \ {poll[h].i} |-> poll[h].copies[j]]
             new == [poll[h] EXCEPT !.at = AfterSweep(left), !.i = None, !.copies = left]
  <1>1. StagedStays
    BY DEF SweepBase, StagedStays
  <1>2. GoodPoll(poll[h]) /\ poll[h].at = "base"
    BY DEF SweepBase, WorkerInv, PollsOK
  <1>3. ItemsOK'
    BY <1>2 DEF SweepBase, WorkerInv, ItemsOK, GoodPoll
  <1>4. PollsOK'
    <2>1. PICK some \in SUBSET Items : poll[h].copies \in [some -> Data]
      BY <1>2 DEF GoodPoll, PollState
    <2>2. /\ left \in [some \ {poll[h].i} -> Data]
          /\ \A j \in DOMAIN left : left[j].by = None
      BY <1>2, <2>1 DEF GoodPoll
    <2>3. poll' = [poll EXCEPT ![h] = new]
      BY DEF SweepBase
    <2> HIDE DEF left
    <2>4. left \in UNION {[s -> Data] : s \in SUBSET Items}
      BY <2>2
    <2>5. AfterSweep(left) \in {"hold", "sweep"}
      BY DEF AfterSweep
    <2>6. GoodPoll(new)
      BY <1>2, <2>2, <2>4, <2>5 DEF GoodPoll, PollState
    <2> HIDE DEF new
    <2>7. QED
      BY <1>1, <2>3, <2>6, PollChanges
  <1>5. QED
    BY <1>1, <1>3, <1>4, Kept DEF SweepBase, WorkerInv

LEMMA SelectKeeps ==
  ASSUME WorkerInv, NEW h \in Polls, Select(h)
  PROVE  WorkerInv'
  <1>1. PICK i \in Candidates(poll[h].m) :
            poll' = [poll EXCEPT ![h] = [@ EXCEPT !.at = "claim", !.i = i]]
    BY DEF Select
  <1> DEFINE new == [poll[h] EXCEPT !.at = "claim", !.i = i]
  <1>2. StagedStays
    BY DEF Select, StagedStays
  <1>3. ItemsOK'
    BY DEF Select, WorkerInv, ItemsOK
  <1>4. PollsOK'
    <2>1. GoodPoll(poll[h]) /\ poll[h].at = "hold"
      BY DEF Select, WorkerInv, PollsOK
    <2>2. i \in Items /\ status[i] = "active"
      BY <2>1, RemoteWorkerAssumption DEF Candidates, RemoteWorkerAssumption, GoodPoll
    <2>3. GoodPoll(new)
      BY <2>1, <2>2 DEF GoodPoll, PollState
    <2>4. poll' = [poll EXCEPT ![h] = new]
      BY <1>1
    <2> HIDE DEF new
    <2>5. QED
      BY <1>2, <2>3, <2>4, PollChanges
  <1>5. QED
    BY <1>2, <1>3, <1>4, Kept DEF Select, WorkerInv

LEMMA ClaimKeeps ==
  ASSUME WorkerInv, NEW h \in Polls, Claim(h)
  PROVE  WorkerInv'
  <1> DEFINE i == poll[h].i
             m == poll[h].m
             has == data[i].target /\ data[i].prompt
             new == [poll[h] EXCEPT !.at = "reply", !.whole = has]
             claimed == [data[i] EXCEPT !.by = m, !.old = FALSE]
  <1>1. StagedStays
    BY DEF Claim, StagedStays
  <1>2. /\ GoodPoll(poll[h]) /\ poll[h].at = "claim"
        /\ i \in Items /\ m \in Machines /\ data[i] \in Data
    BY DEF Claim, WorkerInv, PollsOK, GoodPoll, ItemsOK
  <1>3. ItemsOK'
    <2>1. data' = [data EXCEPT ![i] = claimed] /\ claimed \in Data
      BY <1>2, DataTypes DEF Claim
    <2>2. data' \in [Items -> Data]
      BY <2>1 DEF WorkerInv, ItemsOK
    <2>3. gaps' \in [Items -> SUBSET {"twice", "finished", "aborted", "copied"}]
      BY <1>2, GapTypes DEF Claim
    <2>4. QED
      BY <1>2, <2>2, <2>3 DEF Claim, WorkerInv, ItemsOK
  <1>4. PollsOK'
    <2>1. has \in BOOLEAN
      OBVIOUS
    <2> HIDE DEF has
    <2>2. GoodPoll(new)
      BY <1>2, <2>1 DEF GoodPoll, PollState
    <2>3. poll' = [poll EXCEPT ![h] = new]
      BY DEF Claim, has
    <2> HIDE DEF new
    <2>4. QED
      BY <1>1, <2>2, <2>3, PollChanges
  <1>5. QED
    BY <1>1, <1>3, <1>4, Kept DEF Claim, WorkerInv

LEMMA ClaimMissedKeeps ==
  ASSUME WorkerInv, NEW h \in Polls, ClaimMissed(h)
  PROVE  WorkerInv'
  <1> DEFINE new == [poll[h] EXCEPT !.at = "hold", !.i = None]
  <1>1. StagedStays
    BY DEF ClaimMissed, StagedStays
  <1>2. ItemsOK'
    BY DEF ClaimMissed, WorkerInv, ItemsOK
  <1>3. PollsOK'
    <2>1. GoodPoll(poll[h]) /\ poll[h].at = "claim"
      BY DEF ClaimMissed, WorkerInv, PollsOK
    <2>2. GoodPoll(new)
      BY <2>1 DEF GoodPoll, PollState
    <2>3. poll' = [poll EXCEPT ![h] = new]
      BY DEF ClaimMissed
    <2> HIDE DEF new
    <2>4. QED
      BY <1>1, <2>2, <2>3, PollChanges
  <1>4. QED
    BY <1>1, <1>2, <1>3, Kept DEF ClaimMissed, WorkerInv

LEMMA NoPollIsGood == GoodPoll(NoPoll)
  BY StartTypes DEF GoodPoll, NoPoll

LEMMA IdleIsGood == GoodWorker(Idle) /\ GoodWorker(Down)
  BY StartTypes DEF GoodWorker, Idle, Down

LEMMA ReplyKeeps ==
  ASSUME WorkerInv, NEW h \in Polls, Reply(h)
  PROVE  WorkerInv'
  <1> DEFINE got == [at |-> "got", i |-> poll[h].i, whole |-> poll[h].whole]
  <1>1. StagedStays
    BY DEF Reply, StagedStays
  <1>2. ItemsOK'
    BY DEF Reply, WorkerInv, ItemsOK
  <1>3. PollsOK'
    BY <1>1, NoPollIsGood, PollChanges DEF Reply
  <1>4. AgentsOK'
    <2>1. GoodPoll(poll[h]) /\ poll[h].at = "reply"
      BY DEF Reply, WorkerInv, PollsOK
    <2>2. GoodWorker(got) /\ poll[h].m \in Machines
      BY <2>1 DEF GoodPoll, PollState, GoodWorker, WorkerState
    <2>3. agent' = [agent EXCEPT ![poll[h].m] = IF poll[h].open THEN got ELSE @]
      BY DEF Reply
    <2> HIDE DEF got
    <2>4. CASE poll[h].open
      BY <1>1, <2>2, <2>3, <2>4, AgentChanges
    <2>5. CASE ~poll[h].open
      <3>1. agent' = agent
        BY <2>3, <2>5 DEF WorkerInv, AgentsOK
      <3>2. QED
        BY <1>1, <3>1, Kept
    <2>6. QED
      BY <2>4, <2>5
  <1>5. QED
    BY <1>1, <1>2, <1>3, <1>4, Kept DEF Reply, WorkerInv

LEMMA EmptyKeeps ==
  ASSUME WorkerInv, NEW h \in Polls, Empty(h)
  PROVE  WorkerInv'
  <1>1. StagedStays
    BY DEF Empty, StagedStays
  <1>2. ItemsOK'
    BY DEF Empty, WorkerInv, ItemsOK
  <1>3. PollsOK'
    BY <1>1, NoPollIsGood, PollChanges DEF Empty
  <1>4. AgentsOK'
    <2>1. poll[h].m \in Machines
      BY DEF Empty, WorkerInv, PollsOK, GoodPoll
    <2>2. agent' = [agent EXCEPT ![poll[h].m] = IF poll[h].open THEN Idle ELSE @]
      BY DEF Empty
    <2>3. CASE poll[h].open
      BY <1>1, <2>1, <2>2, <2>3, IdleIsGood, AgentChanges
    <2>4. CASE ~poll[h].open
      <3>1. agent' = agent
        BY <2>2, <2>4 DEF WorkerInv, AgentsOK
      <3>2. QED
        BY <1>1, <3>1, Kept
    <2>5. QED
      BY <2>3, <2>4
  <1>5. QED
    BY <1>1, <1>2, <1>3, <1>4, Kept DEF Empty, WorkerInv

LEMMA HangUpKeeps ==
  ASSUME WorkerInv, NEW h \in Polls, HangUp(h)
  PROVE  WorkerInv'
  <1> DEFINE new == [poll[h] EXCEPT !.open = FALSE]
  <1>1. StagedStays
    BY DEF HangUp, StagedStays
  <1>2. ItemsOK'
    BY Faulty DEF HangUp, WorkerInv, ItemsOK
  <1>3. PollsOK'
    <2>1. GoodPoll(poll[h]) /\ poll' = [poll EXCEPT ![h] = new]
      BY DEF HangUp, WorkerInv, PollsOK
    <2>2. GoodPoll(new)
      BY <2>1 DEF GoodPoll, PollState
    <2> HIDE DEF new
    <2>3. QED
      BY <1>1, <2>1, <2>2, PollChanges
  <1>4. AgentsOK'
    <2>1. CASE poll[h].m \in Machines
      BY <1>1, <2>1, IdleIsGood, AgentChanges DEF HangUp
    <2>2. CASE poll[h].m \notin Machines
      <3>1. agent' = agent
        BY <2>2 DEF HangUp, WorkerInv, AgentsOK
      <3>2. QED
        BY <1>1, <3>1, Kept
    <2>3. QED
      BY <2>1, <2>2
  <1>5. QED
    BY <1>1, <1>2, <1>3, <1>4, Kept DEF HangUp, WorkerInv

-----------------------------------------------------------------------------
(* worker_result.                                                           *)

LEMMA SendKeeps ==
  ASSUME WorkerInv, StagedStays, NEW m \in Machines, NEW i \in Items, status[i] # "none",
         NEW outcome \in Outcomes, NEW by \in {"work", "refuse", "startup", "cli"},
         Send(m, i, outcome, by)
  PROVE  PostsOK'
  <1> DEFINE new == [m |-> m, i |-> i, outcome |-> outcome, by |-> by,
                     at |-> "sent", waits |-> TRUE]
  <1>1. new \in Posts /\ new.i = i /\ post' = post \cup {new}
    BY DEF Send, Posts
  <1> HIDE DEF new
  <1>2. QED
    BY <1>1 DEF WorkerInv, PostsOK, Posts, StagedStays

(* A request that is answered, lost or given up.                            *)
LEMMA PostChanges ==
  ASSUME WorkerInv, StagedStays, NEW p \in post, NEW new \in Posts, new.i = p.i,
         post' \subseteq (post \ {p}) \cup {new}
  PROVE  PostsOK'
  BY DEF WorkerInv, PostsOK, Posts, StagedStays

LEMMA PostTypes ==
  ASSUME WorkerInv, NEW p \in post
  PROVE  /\ p \in Posts /\ p.m \in Machines /\ p.i \in Items /\ p.outcome \in Outcomes
         /\ status[p.i] # "none"
         /\ [p EXCEPT !.at = "saved"] \in Posts /\ [p EXCEPT !.at = "saved"].i = p.i
         /\ [p EXCEPT !.at = "saved"].m = p.m
         /\ [p EXCEPT !.waits = FALSE] \in Posts /\ [p EXCEPT !.waits = FALSE].i = p.i
         /\ [p EXCEPT !.waits = FALSE].m = p.m
  BY DEF WorkerInv, PostsOK, Posts

(* A worker that goes on without new work.                                  *)
LEMMA MovesOn ==
  ASSUME WorkerInv, NEW m \in Machines,
         NEW at \in {"idle", "polling", "posting", "posted", "clearing"}
  PROVE  GoodWorker([agent[m] EXCEPT !.at = at])
  BY DEF WorkerInv, AgentsOK, GoodWorker, WorkerState

LEMMA UnansweredKeeps ==
  ASSUME WorkerInv, StagedStays, NEW p \in post, Unanswered(p)
  PROVE  AgentsOK'
  <1>1. p.m \in Machines
    BY PostTypes
  <1> DEFINE new == CASE p.waits /\ p.by = "work" -> [agent[p.m] EXCEPT !.at = "clearing"]
                      [] p.waits /\ p.by \in {"refuse", "startup"} -> Idle
                      [] OTHER -> agent[p.m]
  <1>2. agent' = [agent EXCEPT ![p.m] = new]
    BY DEF Unanswered
  <1>3. GoodWorker(new)
    <2>1. GoodWorker([agent[p.m] EXCEPT !.at = "clearing"]) /\ GoodWorker(agent[p.m])
      BY <1>1, MovesOn DEF WorkerInv, AgentsOK
    <2>2. new \in {[agent[p.m] EXCEPT !.at = "clearing"], Idle, agent[p.m]}
      OBVIOUS
    <2> HIDE DEF new
    <2>3. QED
      BY <2>1, <2>2, IdleIsGood
  <1> HIDE DEF new
  <1>4. QED
    BY <1>1, <1>2, <1>3, AgentChanges

LEMMA NoMarkerIsGood == GoodMarker(NoMarker)
  BY StartTypes DEF GoodMarker, NoMarker

LEMMA AnsweredKeeps ==
  ASSUME WorkerInv, StagedStays, NEW p \in post, Answered(p)
  PROVE  AgentsOK' /\ MarkersOK'
  <1>1. p.m \in Machines
    BY PostTypes
  <1>2. \/ agent' = agent
        \/ agent' = [agent EXCEPT ![p.m] = Idle]
        \/ agent' = [agent EXCEPT ![p.m] = [@ EXCEPT !.at = "posted"]]
    BY PostTypes DEF Answered, Posts
  <1>3. marker' = marker \/ marker' = [marker EXCEPT ![p.m] = NoMarker]
    BY PostTypes DEF Answered, Posts
  <1>4. AgentsOK'
    BY <1>1, <1>2, IdleIsGood, MovesOn, AgentChanges, Kept
  <1>5. MarkersOK'
    BY <1>1, <1>3, NoMarkerIsGood, MarkerChanges, Kept
  <1>6. QED
    BY <1>4, <1>5

LEMMA ResultSaveKeeps ==
  ASSUME WorkerInv, NEW p \in post, ResultSave(p)
  PROVE  WorkerInv'
  <1>1. CASE status[p.i] = "gone"
    <2>1. StagedStays /\ ItemsOK'
      BY <1>1 DEF ResultSave, StagedStays, WorkerInv, ItemsOK
    <2>2. AgentsOK' /\ PostsOK'
      BY <1>1, <2>1, UnansweredKeeps, PostChanges, PostTypes DEF ResultSave
    <2>3. QED
      BY <1>1, <2>1, <2>2, Kept DEF ResultSave, WorkerInv
  <1>2. CASE status[p.i] # "gone"
    <2> DEFINE saved == [p EXCEPT !.at = "saved"]
               to == IF p.outcome = "done" THEN "done" ELSE "blocked"
    <2>1. /\ p.i \in Items /\ saved \in Posts /\ saved.i = p.i
          /\ data[p.i] \in Data /\ Reported(data[p.i], p.outcome) \in Data
      BY PostTypes, DataTypes DEF WorkerInv, ItemsOK
    <2>2. /\ status' = [status EXCEPT ![p.i] = to] /\ to \in {"done", "blocked"}
          /\ data' = [data EXCEPT ![p.i] = Reported(data[p.i], p.outcome)]
          /\ post' = (post \ {p}) \cup {saved}
      BY <1>2 DEF ResultSave
    <2> HIDE DEF to, saved
    <2>3. StagedStays
      BY <2>1, <2>2 DEF StagedStays, WorkerInv, ItemsOK
    <2>4. ItemsOK'
      BY <2>1, <2>2 DEF ResultSave, WorkerInv, ItemsOK
    <2>5. PostsOK'
      BY <2>1, <2>2, <2>3, PostChanges
    <2>6. QED
      BY <1>2, <2>3, <2>4, <2>5, Kept DEF ResultSave, WorkerInv
  <1>3. QED
    BY <1>1, <1>2

LEMMA ResultCompleteKeeps ==
  ASSUME WorkerInv, NEW p \in post, ResultComplete(p)
  PROVE  WorkerInv'
  <1>1. StagedStays
    BY DEF ResultComplete, StagedStays
  <1>2. ItemsOK'
    BY PostTypes DEF ResultComplete, Completed, Outcomes, WorkerInv, ItemsOK
  <1>3. PostsOK'
    BY <1>1, PostChanges, PostTypes DEF ResultComplete
  <1>4. AgentsOK' /\ MarkersOK'
    BY <1>1, AnsweredKeeps DEF ResultComplete
  <1>5. QED
    BY <1>1, <1>2, <1>3, <1>4, Kept DEF ResultComplete, WorkerInv

LEMMA ResultLostKeeps ==
  ASSUME WorkerInv, NEW p \in post, ResultLost(p)
  PROVE  WorkerInv'
  <1>1. StagedStays /\ ItemsOK'
    BY DEF ResultLost, StagedStays, WorkerInv, ItemsOK
  <1>2. PostsOK'
    BY <1>1, PostChanges, PostTypes DEF ResultLost
  <1>3. QED
    BY <1>1, <1>2, Kept DEF ResultLost, WorkerInv

LEMMA PostFailsKeeps ==
  ASSUME WorkerInv, NEW p \in post, PostFails(p)
  PROVE  WorkerInv'
  <1>1. StagedStays
    BY DEF PostFails, StagedStays
  <1>2. ItemsOK'
    BY Faulty DEF PostFails, WorkerInv, ItemsOK
  <1>3. PostsOK'
    BY <1>1, PostChanges, PostTypes DEF PostFails
  <1>4. AgentsOK'
    BY <1>1, UnansweredKeeps DEF PostFails
  <1>5. QED
    BY <1>1, <1>2, <1>3, <1>4, Kept DEF PostFails, WorkerInv

-----------------------------------------------------------------------------
(* The worker.                                                              *)

LEMMA BeginKeeps ==
  ASSUME WorkerInv, NEW m \in Machines, Begin(m)
  PROVE  WorkerInv'
  <1>1. StagedStays /\ ItemsOK'
    BY DEF Begin, StagedStays, WorkerInv, ItemsOK
  <1>2. /\ agent[m].at = "got" /\ agent[m] \in WorkerState
        /\ agent[m].i \in Items /\ status[agent[m].i] # "none"
    BY DEF Begin, WorkerInv, AgentsOK, GoodWorker
  <1>3. CASE agent[m].whole
    <2> DEFINE pending == [state |-> "pending", i |-> agent[m].i]
               working == [agent[m] EXCEPT !.at = "working"]
    <2>1. /\ marker' = [marker EXCEPT ![m] = pending]
          /\ agent' = [agent EXCEPT ![m] = working] /\ post' = post
      BY <1>3 DEF Begin
    <2>2. GoodMarker(pending) /\ GoodWorker(working)
      BY <1>2 DEF GoodMarker, MarkerState, GoodWorker, WorkerState
    <2> HIDE DEF pending, working
    <2>3. MarkersOK' /\ AgentsOK'
      BY <1>1, <2>1, <2>2, MarkerChanges, AgentChanges
    <2>4. QED
      BY <1>1, <2>1, <2>3, Kept DEF Begin, WorkerInv
  <1>4. CASE ~agent[m].whole
    <2>1. /\ Send(m, agent[m].i, "failed", "refuse")
          /\ agent' = [agent EXCEPT ![m] = [@ EXCEPT !.at = "posting"]]
          /\ marker' = marker
      BY <1>4 DEF Begin
    <2>2. PostsOK'
      BY <1>1, <1>2, <2>1, SendKeeps DEF Outcomes
    <2>3. AgentsOK'
      BY <1>1, <2>1, MovesOn, AgentChanges
    <2>4. QED
      BY <1>1, <2>1, <2>2, <2>3, Kept DEF Begin, WorkerInv
  <1>5. QED
    BY <1>3, <1>4

LEMMA WorkKeeps ==
  ASSUME WorkerInv, NEW m \in Machines, Work(m)
  PROVE  WorkerInv'
  <1>1. StagedStays /\ ItemsOK'
    BY DEF Work, StagedStays, WorkerInv, ItemsOK
  <1>2. agent[m].i \in Items /\ status[agent[m].i] # "none"
    BY DEF Work, WorkerInv, AgentsOK, GoodWorker
  <1>3. PICK outcome \in Outcomes : Send(m, agent[m].i, outcome, "work")
    BY DEF Work
  <1>4. PostsOK'
    BY <1>1, <1>2, <1>3, SendKeeps
  <1>5. agent' = [agent EXCEPT ![m] = [@ EXCEPT !.at = "posting"]]
    BY DEF Work
  <1>6. AgentsOK'
    BY <1>1, <1>5, MovesOn, AgentChanges
  <1>7. QED
    BY <1>1, <1>4, <1>6, Kept DEF Work, WorkerInv

LEMMA MarkPostedKeeps ==
  ASSUME WorkerInv, NEW m \in Machines, MarkPosted(m)
  PROVE  WorkerInv'
  <1>1. StagedStays /\ ItemsOK'
    BY DEF MarkPosted, StagedStays, WorkerInv, ItemsOK
  <1>2. AgentsOK'
    <2>1. agent' = [agent EXCEPT ![m] = [@ EXCEPT !.at = "clearing"]]
      BY DEF MarkPosted
    <2>2. QED
      BY <1>1, <2>1, MovesOn, AgentChanges
  <1>3. MarkersOK'
    <2> DEFINE new == IF marker[m] = NoMarker THEN marker[m]
                      ELSE [marker[m] EXCEPT !.state = "posted"]
    <2>1. GoodMarker(marker[m]) /\ marker' = [marker EXCEPT ![m] = new]
      BY DEF MarkPosted, WorkerInv, MarkersOK
    <2>2. GoodMarker([marker[m] EXCEPT !.state = "posted"])
      BY <2>1 DEF GoodMarker, MarkerState
    <2>3. GoodMarker(new)
      BY <2>1, <2>2
    <2> HIDE DEF new
    <2>4. QED
      BY <1>1, <2>1, <2>3, MarkerChanges
  <1>4. QED
    BY <1>1, <1>2, <1>3, Kept DEF MarkPosted, WorkerInv

LEMMA ClearMarkerKeeps ==
  ASSUME WorkerInv, NEW m \in Machines, ClearMarker(m)
  PROVE  WorkerInv'
  <1>1. StagedStays /\ ItemsOK'
    BY DEF ClearMarker, StagedStays, WorkerInv, ItemsOK
  <1>2. AgentsOK' /\ MarkersOK'
    BY <1>1, IdleIsGood, NoMarkerIsGood, AgentChanges, MarkerChanges DEF ClearMarker
  <1>3. QED
    BY <1>1, <1>2, Kept DEF ClearMarker, WorkerInv

LEMMA CrashKeeps ==
  ASSUME WorkerInv, NEW m \in Machines, Crash(m)
  PROVE  WorkerInv'
  <1>1. StagedStays
    BY DEF Crash, StagedStays
  <1>2. ItemsOK'
    BY Faulty DEF Crash, WorkerInv, ItemsOK
  <1>3. AgentsOK'
    BY <1>1, IdleIsGood, AgentChanges DEF Crash
  <1>4. PollsOK'
    <2>1. poll' = [h \in Polls |-> IF poll[h].m = m
                                   THEN [poll[h] EXCEPT !.open = FALSE] ELSE poll[h]]
      BY DEF Crash
    <2>2. \A h \in Polls : GoodPoll(poll[h]) /\ GoodPoll([poll[h] EXCEPT !.open = FALSE])
      BY DEF WorkerInv, PollsOK, GoodPoll, PollState
    <2>3. \A h \in Polls : GoodPoll(poll'[h])
      BY <2>1, <2>2
    <2>4. status' = status
      BY DEF Crash
    <2>5. \A h \in Polls : poll'[h] \in PollState
      BY <2>3 DEF GoodPoll
    <2>6. QED
      BY <2>1, <2>3, <2>4, <2>5 DEF PollsOK, GoodPoll
  <1>5. PostsOK'
    <2>1. post' = {IF p.m = m /\ p.by # "cli" THEN [p EXCEPT !.waits = FALSE] ELSE p :
                     p \in post}
      BY DEF Crash
    <2>2. ASSUME NEW q \in post' PROVE q \in Posts /\ status[q.i] # "none"
      <3>1. PICK p \in post :
                q = IF p.m = m /\ p.by # "cli" THEN [p EXCEPT !.waits = FALSE] ELSE p
        BY <2>1
      <3>2. q = p \/ q = [p EXCEPT !.waits = FALSE]
        BY <3>1
      <3> DEFINE given == [p EXCEPT !.waits = FALSE]
      <3>3. given \in Posts /\ given.i = p.i /\ p \in Posts /\ status[p.i] # "none"
        BY PostTypes
      <3>4. q = p \/ q = given
        BY <3>2
      <3> HIDE DEF given
      <3>5. QED
        BY <3>3, <3>4
    <2>3. QED
      BY <2>2 DEF PostsOK, Crash
  <1>6. QED
    BY <1>1, <1>2, <1>3, <1>4, <1>5, Kept DEF Crash, WorkerInv

(* What an abort reads from the marker.                                     *)
LEMMA Aborted ==
  ASSUME WorkerInv, NEW m \in Machines, MustAbort(m)
  PROVE  /\ marker[m].i \in Items /\ status[marker[m].i] # "none"
         /\ marker[m] = [state |-> "pending", i |-> marker[m].i]
  BY DEF WorkerInv, MarkersOK, GoodMarker, MarkerState, MustAbort

LEMMA StartKeeps ==
  ASSUME WorkerInv, NEW m \in Machines, Start(m)
  PROVE  WorkerInv'
  <1>1. StagedStays
    BY DEF Start, StagedStays
  <1>2. CASE MustAbort(m)
    <2> DEFINE posting == [Down EXCEPT !.at = "posting"]
    <2>1. /\ Send(m, marker[m].i, "failed", "startup") /\ marker' = marker
          /\ agent' = [agent EXCEPT ![m] = posting] /\ GapOfAbort(m)
      BY <1>2 DEF Start
    <2>2. PostsOK'
      BY <1>1, <1>2, <2>1, Aborted, SendKeeps DEF Outcomes
    <2>3. GoodWorker(posting)
      BY DEF GoodWorker, Down, WorkerState
    <2> HIDE DEF posting
    <2>4. AgentsOK'
      BY <1>1, <2>1, <2>3, AgentChanges
    <2>5. gaps' \in [Items -> SUBSET {"twice", "finished", "aborted", "copied"}]
      BY <1>2, <2>1, Aborted, GapTypes DEF GapOfAbort
    <2>6. ItemsOK'
      BY <2>5 DEF Start, WorkerInv, ItemsOK
    <2>7. QED
      BY <1>1, <2>1, <2>2, <2>4, <2>6, Kept DEF Start, WorkerInv
  <1>3. CASE ~MustAbort(m)
    <2>1. AgentsOK' /\ MarkersOK'
      <3>1. /\ marker' = [marker EXCEPT ![m] = NoMarker]
            /\ agent' = [agent EXCEPT ![m] = Idle]
        BY <1>3 DEF Start
      <3>2. QED
        BY <1>1, <3>1, IdleIsGood, NoMarkerIsGood, AgentChanges, MarkerChanges
    <2>2. ItemsOK'
      BY <1>3 DEF Start, WorkerInv, ItemsOK
    <2>3. QED
      BY <1>1, <1>3, <2>1, <2>2, Kept DEF Start, WorkerInv
  <1>4. QED
    BY <1>2, <1>3

LEMMA AbortCliKeeps ==
  ASSUME WorkerInv, NEW m \in Machines, AbortCli(m)
  PROVE  WorkerInv'
  <1>1. StagedStays /\ MustAbort(m)
    BY DEF AbortCli, StagedStays
  <1>2. PostsOK'
    <2>1. Send(m, marker[m].i, "failed", "cli")
      BY DEF AbortCli
    <2>2. QED
      BY <1>1, <2>1, Aborted, SendKeeps DEF Outcomes
  <1>3. ItemsOK'
    <2>1. gaps' \in [Items -> SUBSET {"twice", "finished", "aborted", "copied"}]
      BY <1>1, Aborted, GapTypes DEF AbortCli, GapOfAbort
    <2>2. QED
      BY <2>1, Faulty DEF AbortCli, WorkerInv, ItemsOK
  <1>4. QED
    BY <1>1, <1>2, <1>3, Kept DEF AbortCli, WorkerInv

LEMMA NextKeeps == WorkerInv /\ [Next]_vars => WorkerInv'
  <1> SUFFICES ASSUME WorkerInv, [Next]_vars PROVE WorkerInv'
    OBVIOUS
  <1>1. ASSUME NEW i \in Items,
               \/ Stage(i) \/ Dispose(i) \/ Ages(i)
               \/ RestageRead(i) \/ RestageSave(i) \/ RestageBase(i)
               \/ \E h \in Polls : SweepSave(h, i)
        PROVE  WorkerInv'
    BY <1>1, StageKeeps, DisposeKeeps, AgesKeeps, RestageReadKeeps, RestageSaveKeeps,
       RestageBaseKeeps, SweepSaveKeeps
  <1>2. ASSUME NEW h \in Polls,
               \/ SweepBase(h) \/ Select(h) \/ Claim(h) \/ ClaimMissed(h)
               \/ Reply(h) \/ Empty(h) \/ HangUp(h)
        PROVE  WorkerInv'
    BY <1>2, SweepBaseKeeps, SelectKeeps, ClaimKeeps, ClaimMissedKeeps, ReplyKeeps,
       EmptyKeeps, HangUpKeeps
  <1>3. ASSUME NEW m \in Machines,
               \/ PollStart(m) \/ Begin(m) \/ Work(m) \/ MarkPosted(m)
               \/ ClearMarker(m) \/ Crash(m) \/ Start(m) \/ AbortCli(m)
        PROVE  WorkerInv'
    BY <1>3, PollStartKeeps, BeginKeeps, WorkKeeps, MarkPostedKeeps, ClearMarkerKeeps,
       CrashKeeps, StartKeeps, AbortCliKeeps
  <1>4. ASSUME NEW p \in post,
               ResultSave(p) \/ ResultComplete(p) \/ ResultLost(p) \/ PostFails(p)
        PROVE  WorkerInv'
    BY <1>4, ResultSaveKeeps, ResultCompleteKeeps, ResultLostKeeps, PostFailsKeeps
  <1>5. CASE UNCHANGED vars
    BY <1>5, Kept DEF vars, StagedStays, WorkerInv, ItemsOK
  <1>6. QED
    BY <1>1, <1>2, <1>3, <1>4, <1>5 DEF Next

LEMMA Invariance == Spec => []WorkerInv
  BY InitInv, NextKeeps, PTL DEF Spec

-----------------------------------------------------------------------------
(* What the submitter sees.  A step maps to one of WorkItem or to nothing.  *)

Promised == [Contract!Next]_(Contract!vars)

SeenStays == \A i \in Items : ItemState(i)' = ItemState(i)
HoldersStay == \A i \in Items : Holders(i)' = Holders(i)

(* No machine but m stops holding an item, and none starts.                 *)
OnlyLetsGo(m) ==
    \A i \in Items : Holders(i)' \subseteq Holders(i) /\ Holders(i) \ {m} \subseteq Holders(i)'

LEMMA Stutters ==
  ASSUME SeenStays, HoldersStay
  PROVE  Promised
  BY DEF Promised, Contract!vars, SeenStays, HoldersStay

LEMMA LetsGo ==
  ASSUME SeenStays, NEW m \in Machines, OnlyLetsGo(m)
  PROVE  Promised
  <1> DEFINE some == {i \in Items : m \in Holders(i) /\ m \notin Holders(i)'}
  <1>1. \A i \in Items : Holders(i)' = IF i \in some THEN Holders(i) \ {m} ELSE Holders(i)
    BY DEF OnlyLetsGo
  <1>2. some \in SUBSET Items
    OBVIOUS
  <1> HIDE DEF some
  <1>3. Contract!GiveUp(m, some)
    BY <1>1 DEF Contract!GiveUp, SeenStays
  <1>4. QED
    BY <1>2, <1>3 DEF Promised, Contract!Next

(* Steps of one item.                                                       *)
LEMMA ItemSteps ==
  ASSUME NEW i \in Items, \A j \in Items \ {i} : ItemState(j)' = ItemState(j)
  PROVE  /\ HoldersStay /\ ItemState(i) = "none" /\ ItemState(i)' = "queued" => Promised
         /\ HoldersStay /\ ItemState(i) = "running" /\ ItemState(i)' = "queued" => Promised
         /\ HoldersStay /\ ItemState(i) \notin {"none", "gone"} /\ ItemState(i)' = "gone"
               => Promised
  <1>1. ASSUME HoldersStay, ItemState(i) = "none", ItemState(i)' = "queued"
        PROVE  Promised
    <2>1. Contract!Submit(i)
      BY <1>1 DEF Contract!Submit, HoldersStay
    <2>2. QED
      BY <2>1 DEF Promised, Contract!Next
  <1>2. ASSUME HoldersStay, ItemState(i) = "running", ItemState(i)' = "queued"
        PROVE  Promised
    <2>1. Contract!TakeBack(i)
      BY <1>2 DEF Contract!TakeBack, HoldersStay
    <2>2. QED
      BY <2>1 DEF Promised, Contract!Next
  <1>3. ASSUME HoldersStay, ItemState(i) \notin {"none", "gone"}, ItemState(i)' = "gone"
        PROVE  Promised
    <2>1. Contract!Dispose(i)
      BY <1>3 DEF Contract!Dispose, HoldersStay
    <2>2. QED
      BY <2>1 DEF Promised, Contract!Next
  <1>4. QED
    BY <1>1, <1>2, <1>3

(* Who holds an item: by its own work, by a marker, a report or an answer   *)
(* on its way.                                                              *)
Marks(m, i) == marker[m] = [state |-> "pending", i |-> i]
Reports(m, i) == \E p \in post : p.m = m /\ p.i = i
Offers(q, m, i) == q.at = "reply" /\ q.open /\ q.m = m /\ q.i = i
Offered(m, i) == \E h \in Polls : Offers(poll[h], m, i)
Holds(m, i) == Busy(m, i) \/ Marks(m, i) \/ Reports(m, i) \/ Offered(m, i)

LEMMA HoldersAre == \A i \in Items : Holders(i) = {m \in Machines : Holds(m, i)}
  BY DEF Holders, Holds, Marks, Reports, Offered, Offers

LEMMA HoldersAreNext == \A i \in Items : Holders(i)' = {m \in Machines : Holds(m, i)'}
  BY DEF Holders, Holds, Marks, Reports, Offered, Offers, Busy

LEMMA HoldersKept ==
  ASSUME \A m \in Machines, i \in Items : Holds(m, i)' <=> Holds(m, i)
  PROVE  HoldersStay
  BY HoldersAre, HoldersAreNext DEF HoldersStay

LEMMA HoldersLetGo ==
  ASSUME NEW m \in Machines,
         \A o \in Machines, i \in Items :
             (Holds(o, i)' => Holds(o, i)) /\ (o # m /\ Holds(o, i) => Holds(o, i)')
  PROVE  OnlyLetsGo(m)
  BY HoldersAre, HoldersAreNext DEF OnlyLetsGo

LEMMA HoldersSame == UNCHANGED <<agent, marker, post, poll>> => HoldersStay
  BY HoldersKept DEF Holds, Busy, Marks, Reports, Offered, Offers

LEMMA SeenKept ==
  ASSUME status' = status, \A i \in Items : data'[i].by = None <=> data[i].by = None
  PROVE  SeenStays
  BY DEF SeenStays, ItemState

(* A copy without a claim is put back.                                      *)
LEMMA PutBack ==
  ASSUME WorkerInv, NEW i \in Items, NEW copy \in Data, copy.by = None, status' = status,
         data' = [data EXCEPT ![i] = IF status[i] = "gone" THEN @ ELSE copy], HoldersStay
  PROVE  Promised
  <1>1. \A j \in Items \ {i} : data'[j] = data[j] /\ status'[j] = status[j]
    BY DEF WorkerInv, ItemsOK
  <1>2. \A j \in Items \ {i} : ItemState(j)' = ItemState(j)
    BY <1>1 DEF ItemState
  <1>3. CASE status[i] = "active" /\ data[i].by # None
    <2>1. data'[i].by = None
      BY <1>3 DEF WorkerInv, ItemsOK
    <2>2. ItemState(i) = "running" /\ ItemState(i)' = "queued"
      BY <1>3, <2>1 DEF ItemState
    <2>3. QED
      BY <1>2, <2>2, ItemSteps
  <1>4. CASE ~(status[i] = "active" /\ data[i].by # None)
    <2>1. status[i] = "active" => data'[i].by = None /\ data[i].by = None
      BY <1>4 DEF WorkerInv, ItemsOK
    <2>2. ItemState(i)' = ItemState(i)
      BY <2>1 DEF ItemState
    <2>3. SeenStays
      BY <1>2, <2>2 DEF SeenStays
    <2>4. QED
      BY <2>3, Stutters
  <1>5. QED
    BY <1>3, <1>4

LEMMA ItemStepsPromised ==
  ASSUME WorkerInv, NEW i \in Items,
         Stage(i) \/ Dispose(i) \/ Ages(i) \/ RestageRead(i) \/ RestageSave(i) \/ RestageBase(i)
  PROVE  Promised
  <1>1. HoldersStay
    BY HoldersSame DEF Stage, Dispose, Ages, RestageRead, RestageSave, RestageBase
  <1>2. CASE Stage(i)
    <2>1. /\ \A j \in Items \ {i} : data'[j] = data[j] /\ status'[j] = status[j]
          /\ status[i] = "none" /\ status'[i] = "active" /\ data'[i].by = None
      BY <1>2 DEF Stage, Staged, NoData, WorkerInv, ItemsOK
    <2>2. /\ \A j \in Items \ {i} : ItemState(j)' = ItemState(j)
          /\ ItemState(i) = "none" /\ ItemState(i)' = "queued"
      BY <2>1 DEF ItemState
    <2>3. QED
      BY <1>1, <2>2, ItemSteps
  <1>3. CASE Dispose(i)
    <2>1. /\ \A j \in Items \ {i} : data'[j] = data[j] /\ status'[j] = status[j]
          /\ status[i] \in {"active", "done", "blocked"} /\ status'[i] = "gone"
      BY <1>3 DEF Dispose, WorkerInv, ItemsOK
    <2>2. /\ \A j \in Items \ {i} : ItemState(j)' = ItemState(j)
          /\ ItemState(i) \notin {"none", "gone"} /\ ItemState(i)' = "gone"
      BY <2>1 DEF ItemState
    <2>3. QED
      BY <1>1, <2>2, ItemSteps
  <1>4. CASE Ages(i)
    <2>1. data' = [data EXCEPT ![i] = [data[i] EXCEPT !.old = TRUE]] /\ data[i] \in Data
      BY <1>4 DEF Ages, WorkerInv, ItemsOK
    <2>2. \A j \in Items : data'[j].by = data[j].by
      BY <2>1, DataTypes DEF WorkerInv, ItemsOK
    <2>3. QED
      BY <1>1, <1>4, <2>2, SeenKept, Stutters DEF Ages
  <1>5. CASE RestageRead(i) \/ RestageBase(i)
    BY <1>1, <1>5, SeenKept, Stutters DEF RestageRead, RestageBase
  <1>6. CASE RestageSave(i)
    BY <1>1, <1>6, PutBack DEF RestageSave, WorkerInv, RestagingOK
  <1>7. QED
    BY <1>2, <1>3, <1>4, <1>5, <1>6

-----------------------------------------------------------------------------
(* worker_poll as the submitter sees it.                                    *)

(* One request changes.                                                     *)
LEMMA OffersOf ==
  ASSUME WorkerInv, NEW h \in Polls, NEW new, poll' = [poll EXCEPT ![h] = new]
  PROVE  \A m \in Machines, i \in Items :
             /\ Offered(m, i)' <=> \/ Offers(new, m, i)
                                   \/ \E g \in Polls \ {h} : Offers(poll[g], m, i)
             /\ Offered(m, i) <=> \/ Offers(poll[h], m, i)
                                  \/ \E g \in Polls \ {h} : Offers(poll[g], m, i)
  BY DEF Offered, Offers, WorkerInv, PollsOK

(* ... that neither was nor becomes an answer, and nobody's work changes.   *)
LEMMA Quiet ==
  ASSUME WorkerInv, NEW h \in Polls, NEW new, poll' = [poll EXCEPT ![h] = new],
         poll[h].at # "reply", new.at # "reply", marker' = marker, post' = post,
         \A m \in Machines, i \in Items : Busy(m, i)' <=> Busy(m, i)
  PROVE  HoldersStay
  <1>1. \A m \in Machines, i \in Items : Offered(m, i)' <=> Offered(m, i)
    <2>1. \A m \in Machines, i \in Items : ~Offers(new, m, i) /\ ~Offers(poll[h], m, i)
      BY DEF Offers
    <2>2. QED
      BY <2>1, OffersOf
  <1>2. QED
    BY <1>1, HoldersKept DEF Holds, Marks, Reports

LEMMA PollStartPromised ==
  ASSUME WorkerInv, NEW m \in Machines, PollStart(m)
  PROVE  Promised
  <1> DEFINE mine == {i \in Items : data[i].by = m /\ status[i] = "active"}
             copies == [i \in mine |-> Unclaimed(data[i])]
             new == [NoPoll EXCEPT !.at = AfterSweep(copies), !.m = m,
                                   !.open = TRUE, !.copies = copies]
  <1>1. PICK h \in Polls : poll[h].at = "free" /\ poll' = [poll EXCEPT ![h] = new]
    BY DEF PollStart
  <1>2. new.at # "reply"
    BY DEF AfterSweep, NoPoll
  <1> HIDE DEF new
  <1>3. agent' = [agent EXCEPT ![m] = [Down EXCEPT !.at = "polling"]] /\ agent[m].at = "idle"
    BY DEF PollStart
  <1>4. \A o \in Machines, i \in Items : Busy(o, i)' <=> Busy(o, i)
    BY <1>3 DEF Busy, Down, WorkerInv, AgentsOK
  <1>5. HoldersStay
    BY <1>1, <1>2, <1>4, Quiet DEF PollStart
  <1>6. QED
    BY <1>5, SeenKept, Stutters DEF PollStart

LEMMA SweepSavePromised ==
  ASSUME WorkerInv, NEW i \in Items, NEW h \in Polls, SweepSave(h, i)
  PROVE  Promised
  <1> DEFINE new == [poll[h] EXCEPT !.at = "base", !.i = i]
  <1>1. /\ GoodPoll(poll[h]) /\ poll[h].at = "sweep" /\ i \in DOMAIN poll[h].copies
        /\ poll' = [poll EXCEPT ![h] = new]
    BY DEF SweepSave, WorkerInv, PollsOK
  <1>2. new.at # "reply"
    BY <1>1 DEF GoodPoll, PollState
  <1>3. poll[h].copies[i] \in Data /\ poll[h].copies[i].by = None
    BY <1>1 DEF GoodPoll, PollState
  <1> HIDE DEF new
  <1>4. HoldersStay
    BY <1>1, <1>2, Quiet DEF SweepSave, Busy
  <1>5. QED
    BY <1>3, <1>4, PutBack DEF SweepSave

LEMMA QuietPollsPromised ==
  ASSUME WorkerInv, NEW h \in Polls, SweepBase(h) \/ Select(h) \/ ClaimMissed(h)
  PROVE  Promised
  <1>1. PICK at \in {"hold", "sweep", "claim"} :
            /\ \E i, copies : poll' = [poll EXCEPT ![h] =
                                  [@ EXCEPT !.at = at, !.i = i, !.copies = copies]]
            /\ poll[h].at # "reply"
    <2>1. GoodPoll(poll[h])
      BY DEF WorkerInv, PollsOK
    <2>2. CASE SweepBase(h)
      BY <2>2 DEF SweepBase, AfterSweep
    <2>3. CASE Select(h)
      <3>1. PICK i : poll' = [poll EXCEPT ![h] = [@ EXCEPT !.at = "claim", !.i = i]]
        BY <2>3 DEF Select
      <3>2. [poll[h] EXCEPT !.at = "claim", !.i = i]
              = [poll[h] EXCEPT !.at = "claim", !.i = i, !.copies = poll[h].copies]
        BY <2>1 DEF GoodPoll, PollState
      <3>3. poll' = [poll EXCEPT ![h] =
                        [@ EXCEPT !.at = "claim", !.i = i, !.copies = poll[h].copies]]
        BY <3>1, <3>2
      <3>4. QED
        BY <2>3, <3>3 DEF Select
    <2>4. CASE ClaimMissed(h)
      <3>1. [poll[h] EXCEPT !.at = "hold", !.i = None]
              = [poll[h] EXCEPT !.at = "hold", !.i = None, !.copies = poll[h].copies]
        BY <2>1 DEF GoodPoll, PollState
      <3>2. QED
        BY <2>4, <3>1 DEF ClaimMissed
    <2>5. QED
      BY <2>2, <2>3, <2>4
  <1>2. PICK i, copies :
            poll' = [poll EXCEPT ![h] = [@ EXCEPT !.at = at, !.i = i, !.copies = copies]]
    BY <1>1
  <1> DEFINE new == [poll[h] EXCEPT !.at = at, !.i = i, !.copies = copies]
  <1>3. new.at # "reply"
    BY DEF WorkerInv, PollsOK, GoodPoll, PollState
  <1>4. poll' = [poll EXCEPT ![h] = new]
    BY <1>2
  <1> HIDE DEF new
  <1>5. HoldersStay
    BY <1>1, <1>3, <1>4, Quiet DEF SweepBase, Select, ClaimMissed, Busy
  <1>6. QED
    BY <1>5, SeenKept, Stutters DEF SweepBase, Select, ClaimMissed

LEMMA ClaimPromised ==
  ASSUME WorkerInv, NEW h \in Polls, Claim(h)
  PROVE  Promised
  <1>1. /\ GoodPoll(poll[h]) /\ poll[h].at = "claim"
        /\ poll[h].i \in Items /\ poll[h].m \in Machines
    BY DEF Claim, WorkerInv, PollsOK, GoodPoll
  <1>2. PICK i \in Items, m \in Machines : i = poll[h].i /\ m = poll[h].m
    BY <1>1
  <1> DEFINE has == data[i].target /\ data[i].prompt
             new == [poll[h] EXCEPT !.at = "reply", !.whole = has]
             claimed == [data[i] EXCEPT !.by = m, !.old = FALSE]
  <1>3. data[i] \in Data /\ status[i] \in {"active", "done", "blocked"}
    BY <1>1, <1>2 DEF Claim, ClaimLeft, WorkerInv, GoodPoll, ItemsOK
  <1>4. data' = [data EXCEPT ![i] = claimed] /\ claimed.by = m /\ m # None
    <2>1. data' = [data EXCEPT ![i] = claimed]
      BY <1>2 DEF Claim
    <2>2. claimed.by = m
      BY <1>3, DataTypes
    <2>3. m # None
      BY RemoteWorkerAssumption DEF RemoteWorkerAssumption
    <2>4. QED
      BY <2>1, <2>2, <2>3
  <1>5. /\ \A j \in Items \ {i} : data'[j] = data[j]
        /\ data'[i].by = m /\ status' = status
    BY <1>4 DEF Claim, WorkerInv, ItemsOK
  <1>6. /\ \A j \in Items \ {i} : ItemState(j)' = ItemState(j)
        /\ ItemState(i) \in {"queued", "running", "done", "failed"}
        /\ ItemState(i)' = IF ItemState(i) = "queued" THEN "running" ELSE ItemState(i)
    BY <1>3, <1>4, <1>5 DEF ItemState
  <1>7. /\ poll' = [poll EXCEPT ![h] = new] /\ new.at = "reply" /\ new.m = m /\ new.i = i
        /\ new.open = poll[h].open
    BY <1>1, <1>2 DEF Claim, GoodPoll, PollState
  <1> HIDE DEF new
  <1>8. \A o \in Machines, j \in Items :
            Offered(o, j)' <=> Offered(o, j) \/ (poll[h].open /\ o = m /\ j = i)
    <2>1. \A o \in Machines, j \in Items :
              /\ Offers(new, o, j) <=> poll[h].open /\ o = m /\ j = i
              /\ ~Offers(poll[h], o, j)
      BY <1>1, <1>7 DEF Offers
    <2>2. QED
      BY <1>7, <2>1, OffersOf
  <1>9. \A o \in Machines, j \in Items :
            Holds(o, j)' <=> Holds(o, j) \/ (poll[h].open /\ o = m /\ j = i)
    BY <1>8 DEF Holds, Busy, Marks, Reports, Claim
  <1>10. \/ \A j \in Items : Holders(j)' = IF j = i THEN Holders(j) \cup {m} ELSE Holders(j)
         \/ \A j \in Items : Holders(j)' = Holders(j)
    BY <1>9, HoldersAre, HoldersAreNext
  <1>11. Contract!HandOut(i, m)
    BY <1>6, <1>10 DEF Contract!HandOut, Contract!States, Contract!Ended
  <1>12. QED
    BY <1>11 DEF Promised, Contract!Next

LEMMA ReplyPromised ==
  ASSUME WorkerInv, NEW h \in Polls, Reply(h)
  PROVE  Promised
  <1> DEFINE i == poll[h].i
             m == poll[h].m
             got == [at |-> "got", i |-> i, whole |-> poll[h].whole]
  <1>1. /\ poll[h].at = "reply" /\ i \in Items /\ m \in Machines
        /\ poll' = [poll EXCEPT ![h] = NoPoll]
        /\ agent' = [agent EXCEPT ![m] = IF poll[h].open THEN got ELSE @]
    BY DEF Reply, WorkerInv, PollsOK, GoodPoll
  <1>2. SeenStays
    BY SeenKept DEF Reply
  <1>3. \A o \in Machines, j \in Items : ~Offers(NoPoll, o, j)
    BY DEF Offers, NoPoll
  <1>4. /\ \A o \in Machines, j \in Items : Offered(o, j)' => Offered(o, j)
        /\ \A o \in Machines, j \in Items :
               Offered(o, j) /\ ~(poll[h].open /\ o = m) => Offered(o, j)'
    <2>1. \A o \in Machines, j \in Items : Offers(poll[h], o, j) => poll[h].open /\ o = m
      BY DEF Offers
    <2> HIDE DEF m
    <2>2. QED
      BY <1>1, <1>3, <2>1, OffersOf
  <1>5. CASE poll[h].open
    <2>1. Offers(poll[h], m, i)
      BY <1>1, <1>5 DEF Offers
    <2>2. Offered(m, i)
      BY <2>1 DEF Offered
    <2>3. \A o \in Machines, j \in Items :
              /\ Busy(o, j)' => Busy(o, j) \/ (o = m /\ j = i)
              /\ o # m /\ Busy(o, j) => Busy(o, j)'
      BY <1>1, <1>5 DEF Busy, WorkerInv, AgentsOK
    <2> HIDE DEF i, m
    <2>4. OnlyLetsGo(m)
      BY <1>1, <1>4, <2>2, <2>3, HoldersLetGo DEF Reply, Holds, Marks, Reports
    <2>5. QED
      BY <1>1, <1>2, <2>4, LetsGo
  <1>6. CASE ~poll[h].open
    <2>1. agent' = agent
      BY <1>1, <1>6 DEF WorkerInv, AgentsOK
    <2>2. HoldersStay
      BY <1>4, <1>6, <2>1, HoldersKept DEF Reply, Holds, Busy, Marks, Reports
    <2>3. QED
      BY <1>2, <2>2, Stutters
  <1>7. QED
    BY <1>5, <1>6

LEMMA EmptyPromised ==
  ASSUME WorkerInv, NEW h \in Polls, Empty(h)
  PROVE  Promised
  <1>1. /\ poll[h].at = "hold" /\ poll[h].m \in Machines
        /\ poll' = [poll EXCEPT ![h] = NoPoll]
        /\ agent' = [agent EXCEPT ![poll[h].m] = IF poll[h].open THEN Idle ELSE @]
    BY DEF Empty, WorkerInv, PollsOK, GoodPoll
  <1>2. PICK m \in Machines : m = poll[h].m
    BY <1>1
  <1>3. SeenStays
    BY SeenKept DEF Empty
  <1>4. \A o \in Machines, j \in Items : Offered(o, j)' <=> Offered(o, j)
    <2>1. \A o \in Machines, j \in Items : ~Offers(NoPoll, o, j) /\ ~Offers(poll[h], o, j)
      BY <1>1 DEF Offers, NoPoll
    <2>2. QED
      BY <1>1, <2>1, OffersOf
  <1>5. \A o \in Machines, j \in Items :
            (Busy(o, j)' => Busy(o, j)) /\ (o # m /\ Busy(o, j) => Busy(o, j)')
    BY <1>1, <1>2 DEF Busy, Idle, Down, WorkerInv, AgentsOK
  <1>6. OnlyLetsGo(m)
    BY <1>4, <1>5, HoldersLetGo DEF Empty, Holds, Marks, Reports
  <1>7. QED
    BY <1>3, <1>6, LetsGo

LEMMA HangUpPromised ==
  ASSUME WorkerInv, NEW h \in Polls, HangUp(h)
  PROVE  Promised
  <1> DEFINE new == [poll[h] EXCEPT !.open = FALSE]
  <1>1. /\ poll' = [poll EXCEPT ![h] = new] /\ poll[h] \in PollState
        /\ agent' = [agent EXCEPT ![poll[h].m] = Idle]
    BY DEF HangUp, WorkerInv, PollsOK, GoodPoll
  <1>2. SeenStays
    BY SeenKept DEF HangUp
  <1>3. \A o \in Machines, j \in Items : ~Offers(new, o, j)
    BY <1>1 DEF Offers, PollState
  <1>4. \A o \in Machines, j \in Items : Offers(poll[h], o, j) => o = poll[h].m
    BY DEF Offers
  <1> HIDE DEF new
  <1>5. /\ \A o \in Machines, j \in Items : Offered(o, j)' => Offered(o, j)
        /\ \A o \in Machines, j \in Items :
               o # poll[h].m /\ Offered(o, j) => Offered(o, j)'
    BY <1>1, <1>3, <1>4, OffersOf
  <1>6. \A o \in Machines, j \in Items :
            (Busy(o, j)' => Busy(o, j)) /\ (o # poll[h].m /\ Busy(o, j) => Busy(o, j)')
    BY <1>1 DEF Busy, Idle, Down, WorkerInv, AgentsOK
  <1>7. CASE poll[h].m \in Machines
    <2>1. OnlyLetsGo(poll[h].m)
      BY <1>5, <1>6, <1>7, HoldersLetGo DEF HangUp, Holds, Marks, Reports
    <2>2. QED
      BY <1>2, <1>7, <2>1, LetsGo
  <1>8. CASE poll[h].m \notin Machines
    <2>1. HoldersStay
      BY <1>5, <1>6, <1>8, HoldersKept DEF HangUp, Holds, Marks, Reports
    <2>2. QED
      BY <1>2, <2>1, Stutters
  <1>9. QED
    BY <1>7, <1>8

-----------------------------------------------------------------------------
(* worker_result as the submitter sees it.                                  *)

(* A request is answered, lost or given up: at most its machine lets go.    *)
LEMMA ReportsOf ==
  ASSUME WorkerInv, NEW p \in post, NEW new \in Posts, new.m = p.m, new.i = p.i,
         post' = post \ {p} \/ post' = (post \ {p}) \cup {new}
  PROVE  \A o \in Machines, j \in Items :
             /\ Reports(o, j)' => Reports(o, j)
             /\ o # p.m /\ Reports(o, j) => Reports(o, j)'
             /\ post' = (post \ {p}) \cup {new} => (Reports(o, j)' <=> Reports(o, j))
  BY DEF Reports

(* The sender goes on, with less than it had.                               *)
LEMMA SenderLetsGo ==
  ASSUME WorkerInv, NEW p \in post, Answered(p) \/ (Unanswered(p) /\ marker' = marker)
  PROVE  \A o \in Machines, j \in Items :
             /\ Busy(o, j)' => Busy(o, j)
             /\ o # p.m /\ Busy(o, j) => Busy(o, j)'
             /\ Marks(o, j)' => Marks(o, j)
             /\ o # p.m /\ Marks(o, j) => Marks(o, j)'
  <1>1. \/ agent' = agent
        \/ agent' = [agent EXCEPT ![p.m] = Idle]
        \/ agent' = [agent EXCEPT ![p.m] = [@ EXCEPT !.at = "posted"]]
        \/ agent' = [agent EXCEPT ![p.m] = [@ EXCEPT !.at = "clearing"]]
    <2>1. p.m \in Machines /\ p \in Posts
      BY PostTypes
    <2>2. CASE Answered(p)
      BY <2>1, <2>2 DEF Answered, Posts
    <2>3. CASE Unanswered(p)
      BY <2>1, <2>3 DEF Unanswered, WorkerInv, AgentsOK
    <2>4. QED
      BY <2>2, <2>3
  <1>2. marker' = marker \/ marker' = [marker EXCEPT ![p.m] = NoMarker]
    BY PostTypes DEF Answered, Posts
  <1>3. \A o \in Machines, j \in Items :
            (Busy(o, j)' => Busy(o, j)) /\ (o # p.m /\ Busy(o, j) => Busy(o, j)')
    <2>1. CASE agent' = agent
      BY <2>1 DEF Busy
    <2>2. CASE agent' = [agent EXCEPT ![p.m] = Idle]
      BY <2>2, PostTypes DEF Busy, Idle, Down, WorkerInv, AgentsOK
    <2>3. ASSUME NEW at \in {"posted", "clearing"},
                 agent' = [agent EXCEPT ![p.m] = [@ EXCEPT !.at = at]]
          PROVE  \A o \in Machines, j \in Items :
                     (Busy(o, j)' => Busy(o, j)) /\ (o # p.m /\ Busy(o, j) => Busy(o, j)')
      BY <2>3, PostTypes DEF Busy, WorkerInv, AgentsOK, WorkerState
    <2>4. QED
      BY <1>1, <2>1, <2>2, <2>3
  <1>4. \A o \in Machines, j \in Items :
            (Marks(o, j)' => Marks(o, j)) /\ (o # p.m /\ Marks(o, j) => Marks(o, j)')
    BY <1>2, PostTypes DEF Marks, NoMarker, WorkerInv, MarkersOK
  <1>5. QED
    BY <1>3, <1>4

LEMMA ResultSavePromised ==
  ASSUME WorkerInv, NEW p \in post, ResultSave(p)
  PROVE  Promised
  <1>1. CASE status[p.i] = "gone"
    <2>1. SeenStays
      BY <1>1, SeenKept DEF ResultSave
    <2>2. /\ Unanswered(p) /\ marker' = marker /\ poll' = poll /\ post' = post \ {p}
          /\ p \in Posts /\ p.m \in Machines
      BY <1>1, PostTypes DEF ResultSave
    <2>3. OnlyLetsGo(p.m)
      BY <2>2, ReportsOf, SenderLetsGo, HoldersLetGo DEF Holds, Offered, Offers
    <2>4. QED
      BY <2>1, <2>2, <2>3, LetsGo
  <1>2. CASE status[p.i] # "gone"
    <2> DEFINE saved == [p EXCEPT !.at = "saved"]
               to == IF p.outcome = "done" THEN "done" ELSE "blocked"
    <2>1. /\ saved \in Posts /\ saved.i = p.i /\ saved.m = p.m
          /\ p.i \in Items /\ p.m \in Machines /\ status[p.i] # "none"
      BY PostTypes
    <2>2. PICK i \in Items, m \in Machines : i = p.i /\ m = p.m
      BY <2>1
    <2>3. /\ post' = (post \ {p}) \cup {saved} /\ agent' = agent /\ marker' = marker
          /\ poll' = poll
      BY <1>2 DEF ResultSave
    <2>4. /\ \A j \in Items \ {i} : status'[j] = status[j] /\ data'[j] = data[j]
          /\ status'[i] \in {"done", "blocked"}
          /\ status[i] \in {"active", "done", "blocked"}
      BY <1>2, <2>1, <2>2 DEF ResultSave, WorkerInv, ItemsOK
    <2>5. /\ \A j \in Items \ {i} : ItemState(j)' = ItemState(j)
          /\ ItemState(i)' \in {"done", "failed"}
          /\ ItemState(i) \notin {"none", "gone"}
      BY <2>4 DEF ItemState
    <2> HIDE DEF saved
    <2>6. \A o \in Machines, j \in Items : Reports(o, j)' <=> Reports(o, j)
      BY <2>1, <2>3, ReportsOf
    <2>7. HoldersStay
      BY <2>3, <2>6, HoldersKept DEF Holds, Busy, Marks, Offered, Offers
    <2>8. m \in Holders(i)
      <3>1. Reports(m, i)
        BY <2>2 DEF Reports
      <3>2. QED
        BY <3>1, HoldersAre DEF Holds
    <2>9. Contract!Report(i, m)
      BY <2>5, <2>7, <2>8 DEF Contract!Report, Contract!Ended, HoldersStay
    <2>10. QED
      BY <2>9 DEF Promised, Contract!Next
  <1>3. QED
    BY <1>1, <1>2

LEMMA ResultEndsPromised ==
  ASSUME WorkerInv, NEW p \in post, ResultComplete(p) \/ ResultLost(p) \/ PostFails(p)
  PROVE  Promised
  <1>1. SeenStays
    BY SeenKept DEF ResultComplete, ResultLost, PostFails
  <1> DEFINE given == [p EXCEPT !.waits = FALSE]
  <1>2. given \in Posts /\ given.m = p.m /\ given.i = p.i /\ p.m \in Machines
    BY PostTypes
  <1>3. /\ post' = post \ {p} \/ post' = (post \ {p}) \cup {given}
        /\ poll' = poll
        /\ \/ Answered(p)
           \/ Unanswered(p) /\ marker' = marker
           \/ agent' = agent /\ marker' = marker
    BY DEF ResultComplete, ResultLost, PostFails
  <1> HIDE DEF given
  <1>4. \A o \in Machines, j \in Items :
            (Reports(o, j)' => Reports(o, j)) /\ (o # p.m /\ Reports(o, j) => Reports(o, j)')
    BY <1>2, <1>3, ReportsOf
  <1>5. \A o \in Machines, j \in Items :
            /\ Busy(o, j)' => Busy(o, j)
            /\ o # p.m /\ Busy(o, j) => Busy(o, j)'
            /\ Marks(o, j)' => Marks(o, j)
            /\ o # p.m /\ Marks(o, j) => Marks(o, j)'
    <2>1. CASE agent' = agent /\ marker' = marker
      BY <2>1 DEF Busy, Marks
    <2>2. QED
      BY <1>3, <2>1, SenderLetsGo
  <1>6. OnlyLetsGo(p.m)
    BY <1>2, <1>3, <1>4, <1>5, HoldersLetGo DEF Holds, Offered, Offers
  <1>7. QED
    BY <1>1, <1>2, <1>6, LetsGo

-----------------------------------------------------------------------------
(* The worker's steps as the submitter sees them.                           *)

LEMMA SendReports ==
  ASSUME NEW m, NEW i, NEW outcome, NEW by, Send(m, i, outcome, by)
  PROVE  \A o \in Machines, j \in Items : Reports(o, j)' <=> Reports(o, j) \/ (o = m /\ j = i)
  <1> DEFINE sent == [m |-> m, i |-> i, outcome |-> outcome, by |-> by,
                      at |-> "sent", waits |-> TRUE]
  <1>1. post' = post \cup {sent} /\ sent.m = m /\ sent.i = i
    BY DEF Send
  <1> HIDE DEF sent
  <1>2. QED
    BY <1>1 DEF Reports

(* A machine goes on and holds nothing that it did not hold.                *)
LEMMA MachineLetsGo ==
  ASSUME NEW m \in Machines, status' = status, data' = data, poll' = poll,
         \A o \in Machines, i \in Items :
             /\ Busy(o, i)' \/ Marks(o, i)' \/ Reports(o, i)' => Holds(o, i)
             /\ o # m => /\ Busy(o, i)' <=> Busy(o, i)
                         /\ Marks(o, i)' <=> Marks(o, i)
                         /\ Reports(o, i)' <=> Reports(o, i)
  PROVE  Promised
  <1>1. SeenStays
    BY SeenKept
  <1>2. \A o \in Machines, i \in Items : Offered(o, i)' <=> Offered(o, i)
    BY DEF Offered, Offers
  <1>3. OnlyLetsGo(m)
    BY <1>2, HoldersLetGo DEF Holds
  <1>4. QED
    BY <1>1, <1>3, LetsGo

(* ... its thread goes on, to a place where it holds no more.               *)
LEMMA ThreadMoves ==
  ASSUME WorkerInv, NEW m \in Machines, NEW new, agent' = [agent EXCEPT ![m] = new]
  PROVE  /\ \A o \in Machines, i \in Items : o # m => (Busy(o, i)' <=> Busy(o, i))
         /\ new.at \notin {"got", "working"} => \A i \in Items : ~Busy(m, i)'
         /\ new.i = agent[m].i /\ agent[m].at \in {"got", "working"}
               => \A i \in Items : Busy(m, i)' => Busy(m, i)
  BY DEF Busy, WorkerInv, AgentsOK

LEMMA MarkerMoves ==
  ASSUME WorkerInv, NEW m \in Machines, NEW new, marker' = [marker EXCEPT ![m] = new]
  PROVE  /\ \A o \in Machines, i \in Items : o # m => (Marks(o, i)' <=> Marks(o, i))
         /\ \A i \in Items : Marks(m, i)' <=> new = [state |-> "pending", i |-> i]
  BY DEF Marks, WorkerInv, MarkersOK

LEMMA SameMarks == marker' = marker => \A o \in Machines, i \in Items : Marks(o, i)' <=> Marks(o, i)
  BY DEF Marks

LEMMA SameReports == post' = post => \A o \in Machines, i \in Items : Reports(o, i)' <=> Reports(o, i)
  BY DEF Reports

LEMMA BeginPromised ==
  ASSUME WorkerInv, NEW m \in Machines, Begin(m)
  PROVE  Promised
  <1>1. PICK i \in Items : i = agent[m].i /\ agent[m].at = "got"
    BY DEF Begin, WorkerInv, AgentsOK, GoodWorker
  <1>2. Busy(m, i)
    BY <1>1 DEF Busy
  <1>3. CASE agent[m].whole
    <2> DEFINE working == [agent[m] EXCEPT !.at = "working"]
               pending == [state |-> "pending", i |-> i]
    <2>1. /\ agent' = [agent EXCEPT ![m] = working]
          /\ marker' = [marker EXCEPT ![m] = pending] /\ post' = post
      BY <1>1, <1>3 DEF Begin
    <2>2. working.i = agent[m].i
      BY DEF WorkerInv, AgentsOK, WorkerState
    <2>3. \A j \in Items : pending = [state |-> "pending", i |-> j] => j = i
      OBVIOUS
    <2> HIDE DEF working, pending
    <2>4. \A j \in Items : (Busy(m, j)' => Busy(m, j)) /\ (Marks(m, j)' => j = i)
      BY <1>1, <2>1, <2>2, <2>3, ThreadMoves, MarkerMoves
    <2>5. \A o \in Machines, j \in Items :
              o # m => (Busy(o, j)' <=> Busy(o, j)) /\ (Marks(o, j)' <=> Marks(o, j))
      BY <2>1, ThreadMoves, MarkerMoves
    <2>6. \A o \in Machines, j \in Items :
              Busy(o, j)' \/ Marks(o, j)' \/ Reports(o, j)' => Holds(o, j)
      BY <1>2, <2>1, <2>4, <2>5, SameReports DEF Holds
    <2>7. QED
      BY <2>1, <2>5, <2>6, SameReports, MachineLetsGo DEF Begin
  <1>4. CASE ~agent[m].whole
    <2> DEFINE posting == [agent[m] EXCEPT !.at = "posting"]
    <2>1. /\ agent' = [agent EXCEPT ![m] = posting]
          /\ Send(m, i, "failed", "refuse") /\ marker' = marker
      BY <1>1, <1>4 DEF Begin
    <2>2. posting.at = "posting"
      BY DEF WorkerInv, AgentsOK, WorkerState
    <2> HIDE DEF posting
    <2>3. \A o \in Machines, j \in Items :
              (o # m => (Busy(o, j)' <=> Busy(o, j))) /\ (o = m => ~Busy(o, j)')
      BY <2>1, <2>2, ThreadMoves
    <2>4. \A o \in Machines, j \in Items :
              Busy(o, j)' \/ Marks(o, j)' \/ Reports(o, j)' => Holds(o, j)
      BY <1>2, <2>1, <2>3, SendReports, SameMarks DEF Holds
    <2>5. QED
      BY <2>1, <2>3, <2>4, SendReports, SameMarks, MachineLetsGo DEF Begin
  <1>5. QED
    BY <1>3, <1>4

LEMMA WorkPromised ==
  ASSUME WorkerInv, NEW m \in Machines, Work(m)
  PROVE  Promised
  <1>1. PICK i \in Items : i = agent[m].i /\ agent[m].at = "working"
    BY DEF Work, WorkerInv, AgentsOK, GoodWorker
  <1>2. Busy(m, i)
    BY <1>1 DEF Busy
  <1> DEFINE posting == [agent[m] EXCEPT !.at = "posting"]
  <1>3. PICK outcome \in Outcomes : Send(m, i, outcome, "work")
    BY <1>1 DEF Work
  <1>4. agent' = [agent EXCEPT ![m] = posting] /\ posting.at = "posting" /\ marker' = marker
    BY DEF Work, WorkerInv, AgentsOK, WorkerState
  <1> HIDE DEF posting
  <1>5. \A o \in Machines, j \in Items :
            (o # m => (Busy(o, j)' <=> Busy(o, j))) /\ (o = m => ~Busy(o, j)')
    BY <1>4, ThreadMoves
  <1>6. \A o \in Machines, j \in Items :
            Busy(o, j)' \/ Marks(o, j)' \/ Reports(o, j)' => Holds(o, j)
    BY <1>2, <1>3, <1>4, <1>5, SendReports, SameMarks DEF Holds
  <1>7. QED
    BY <1>3, <1>4, <1>5, <1>6, SendReports, SameMarks, MachineLetsGo DEF Work

LEMMA MarkerStepsPromised ==
  ASSUME WorkerInv, NEW m \in Machines, MarkPosted(m) \/ ClearMarker(m)
  PROVE  Promised
  <1>1. PICK new : /\ marker' = [marker EXCEPT ![m] = new]
                   /\ \A j \in Items : new = [state |-> "pending", i |-> j] => Marks(m, j)
    <2>1. CASE MarkPosted(m)
      <3> DEFINE posted == [marker[m] EXCEPT !.state = "posted"]
      <3>1. \/ marker' = [marker EXCEPT ![m] = marker[m]]
            \/ marker' = [marker EXCEPT ![m] = posted]
        BY <2>1 DEF MarkPosted
      <3>2. posted.state = "posted"
        BY DEF WorkerInv, MarkersOK, MarkerState
      <3> HIDE DEF posted
      <3>3. \A j \in Items : posted # [state |-> "pending", i |-> j]
        BY <3>2
      <3>4. \A j \in Items : marker[m] = [state |-> "pending", i |-> j] => Marks(m, j)
        BY DEF Marks
      <3>5. QED
        BY <3>1, <3>3, <3>4
    <2>2. CASE ClearMarker(m)
      <3>1. \A j \in Items : NoMarker # [state |-> "pending", i |-> j]
        BY DEF NoMarker
      <3>2. marker' = [marker EXCEPT ![m] = NoMarker]
        BY <2>2 DEF ClearMarker
      <3>3. QED
        BY <3>1, <3>2
    <2>3. QED
      BY <2>1, <2>2
  <1>2. PICK moved :
            agent' = [agent EXCEPT ![m] = moved] /\ moved.at \in {"clearing", "idle"}
    <2>1. /\ Idle.at = "idle"
          /\ [agent[m] EXCEPT !.at = "clearing"].at = "clearing"
      BY DEF Idle, Down, WorkerInv, AgentsOK, WorkerState
    <2>2. \/ agent' = [agent EXCEPT ![m] = Idle]
          \/ agent' = [agent EXCEPT ![m] = [agent[m] EXCEPT !.at = "clearing"]]
      BY DEF MarkPosted, ClearMarker
    <2>3. QED
      BY <2>1, <2>2
  <1>3. \A o \in Machines, j \in Items :
            (o # m => (Busy(o, j)' <=> Busy(o, j))) /\ (o = m => ~Busy(o, j)')
    BY <1>2, ThreadMoves
  <1>4. \A o \in Machines, j \in Items :
            (o # m => (Marks(o, j)' <=> Marks(o, j))) /\ (Marks(o, j)' => Marks(o, j))
    BY <1>1, MarkerMoves
  <1>5. post' = post
    BY DEF MarkPosted, ClearMarker
  <1>6. \A o \in Machines, j \in Items :
            Busy(o, j)' \/ Marks(o, j)' \/ Reports(o, j)' => Holds(o, j)
    BY <1>3, <1>4, <1>5, SameReports DEF Holds
  <1>7. QED
    BY <1>3, <1>4, <1>5, <1>6, SameReports, MachineLetsGo DEF MarkPosted, ClearMarker

LEMMA CrashPromised ==
  ASSUME WorkerInv, NEW m \in Machines, Crash(m)
  PROVE  Promised
  <1>1. SeenStays
    BY SeenKept DEF Crash
  <1>2. \A o \in Machines, j \in Items :
            (o # m => (Busy(o, j)' <=> Busy(o, j))) /\ (o = m => ~Busy(o, j)')
    <2>1. agent' = [agent EXCEPT ![m] = Down] /\ Down.at = "down"
      BY DEF Crash, Down
    <2>2. QED
      BY <2>1, ThreadMoves
  <1>3. \A o \in Machines, j \in Items :
            (Offered(o, j)' => Offered(o, j)) /\ (o # m /\ Offered(o, j) => Offered(o, j)')
    <2> DEFINE closed(h) == [poll[h] EXCEPT !.open = FALSE]
    <2>1. \A h \in Polls : /\ poll[h].m # m => poll'[h] = poll[h]
                           /\ poll[h].m = m => poll'[h] = closed(h)
      BY DEF Crash
    <2>2. \A h \in Polls : closed(h).open = FALSE
      BY DEF WorkerInv, PollsOK, PollState
    <2> HIDE DEF closed
    <2>3. \A h \in Polls, o \in Machines, j \in Items :
              /\ Offers(poll'[h], o, j) => Offers(poll[h], o, j)
              /\ o # m /\ Offers(poll[h], o, j) => Offers(poll'[h], o, j)
      BY <2>1, <2>2 DEF Offers
    <2>4. \A o \in Machines, j \in Items :
              Offered(o, j)' <=> \E h \in Polls : Offers(poll'[h], o, j)
      BY DEF Offered, Offers
    <2>5. QED
      BY <2>3, <2>4 DEF Offered
  <1>4. \A o \in Machines, j \in Items : Reports(o, j)' <=> Reports(o, j)
    <2> DEFINE left(p) == IF p.m = m /\ p.by # "cli" THEN [p EXCEPT !.waits = FALSE] ELSE p
    <2>1. post' = {left(p) : p \in post}
      BY DEF Crash
    <2>2. \A p \in post : left(p).m = p.m /\ left(p).i = p.i
      BY PostTypes
    <2> HIDE DEF left
    <2>3. QED
      BY <2>1, <2>2 DEF Reports
  <1>5. \A o \in Machines, j \in Items : Marks(o, j)' <=> Marks(o, j)
    BY SameMarks DEF Crash
  <1>6. OnlyLetsGo(m)
    BY <1>2, <1>3, <1>4, <1>5, HoldersLetGo DEF Holds
  <1>7. QED
    BY <1>1, <1>6, LetsGo

LEMMA StartPromised ==
  ASSUME WorkerInv, NEW m \in Machines, Start(m)
  PROVE  Promised
  <1>1. PICK new : agent' = [agent EXCEPT ![m] = new] /\ new.at \notin {"got", "working"}
    <2>1. \/ agent' = [agent EXCEPT ![m] = Idle]
          \/ agent' = [agent EXCEPT ![m] = [Down EXCEPT !.at = "posting"]]
      BY DEF Start
    <2>2. Idle.at = "idle" /\ [Down EXCEPT !.at = "posting"].at = "posting"
      BY DEF Idle, Down
    <2>3. QED
      BY <2>1, <2>2
  <1>2. \A o \in Machines, j \in Items :
            (o # m => (Busy(o, j)' <=> Busy(o, j))) /\ (o = m => ~Busy(o, j)')
    BY <1>1, ThreadMoves
  <1>3. CASE MustAbort(m)
    <2>1. PICK i \in Items : i = marker[m].i /\ Marks(m, i)
      BY <1>3, Aborted DEF Marks
    <2>2. Send(m, i, "failed", "startup") /\ marker' = marker
      BY <1>3, <2>1 DEF Start
    <2>3. \A o \in Machines, j \in Items :
              Busy(o, j)' \/ Marks(o, j)' \/ Reports(o, j)' => Holds(o, j)
      BY <1>2, <2>1, <2>2, SendReports, SameMarks DEF Holds
    <2>4. QED
      BY <1>2, <2>2, <2>3, SendReports, SameMarks, MachineLetsGo DEF Start
  <1>4. CASE ~MustAbort(m)
    <2>1. marker' = [marker EXCEPT ![m] = NoMarker] /\ post' = post
      BY <1>4 DEF Start
    <2>2. \A j \in Items : NoMarker # [state |-> "pending", i |-> j]
      BY DEF NoMarker
    <2>3. \A o \in Machines, j \in Items :
              (o # m => (Marks(o, j)' <=> Marks(o, j))) /\ (o = m => ~Marks(o, j)')
      BY <2>1, <2>2, MarkerMoves
    <2>4. \A o \in Machines, j \in Items :
              Busy(o, j)' \/ Marks(o, j)' \/ Reports(o, j)' => Holds(o, j)
      BY <1>2, <2>1, <2>3, SameReports DEF Holds
    <2>5. QED
      BY <1>2, <2>1, <2>3, <2>4, SameReports, MachineLetsGo DEF Start
  <1>5. QED
    BY <1>3, <1>4

LEMMA AbortCliPromised ==
  ASSUME WorkerInv, NEW m \in Machines, AbortCli(m)
  PROVE  Promised
  <1>1. PICK i \in Items : i = marker[m].i /\ Marks(m, i)
    BY Aborted DEF AbortCli, Marks
  <1>2. Send(m, i, "failed", "cli") /\ marker' = marker /\ agent' = agent
    BY <1>1 DEF AbortCli
  <1>3. \A o \in Machines, j \in Items : Busy(o, j)' <=> Busy(o, j)
    BY <1>2 DEF Busy
  <1>4. \A o \in Machines, j \in Items :
            Busy(o, j)' \/ Marks(o, j)' \/ Reports(o, j)' => Holds(o, j)
    BY <1>1, <1>2, <1>3, SendReports, SameMarks DEF Holds
  <1>5. QED
    BY <1>2, <1>3, <1>4, SendReports, SameMarks, MachineLetsGo DEF AbortCli

-----------------------------------------------------------------------------
(* Who is being given an item, works on it or reports on it.  A grant is an  *)
(* answer on its way, a worker that was given the item, or a report that was *)
(* not looked at yet; it is whole if its worker will get a prompt.           *)

Gives(q, i) == q.at = "reply" /\ q.open /\ q.i = i
Does(a, i) == a.i = i /\ a.at \in {"got", "working"}
Works(a, i) == a.i = i /\ (a.at = "working" \/ (a.at = "got" /\ a.whole))
Sent(some, i) == \E p \in some : p.i = i /\ p.at = "sent"
SentOnce(some, i) ==
    \A p, q \in some : p.i = i /\ q.i = i /\ p.at = "sent" /\ q.at = "sent" => p = q

Answering(i) == \E h \in Polls : Gives(poll[h], i)
Doing(i) == \E m \in Machines : Does(agent[m], i)
AnsweringWhole(i) == \E h \in Polls : Gives(poll[h], i) /\ poll[h].whole
Working(i) == \E m \in Machines : Works(agent[m], i)
Granted(i) == Answering(i) \/ Doing(i) \/ Sent(post, i)

(* An item nobody took away has one whole grant at most, and while it has    *)
(* one a second claim finds it claimed, deleted or without its prompt.       *)
Covered(i) == status[i] = "gone" \/ data[i].by # None \/ ~(data[i].target /\ data[i].prompt)
WholeOnce(i) ==
    /\ \A g, h \in Polls :
            Gives(poll[g], i) /\ poll[g].whole /\ Gives(poll[h], i) /\ poll[h].whole => g = h
    /\ \A m, n \in Machines : Works(agent[m], i) /\ Works(agent[n], i) => m = n
    /\ ~(AnsweringWhole(i) /\ Working(i))
WorkedOnce(i) ==
    "twice" \notin gaps[i] =>
        /\ WholeOnce(i)
        /\ AnsweringWhole(i) \/ Working(i) => Covered(i)

(* An item nothing went wrong with has one grant at most, and is running or  *)
(* deleted while it has one.                                                 *)
GrantedOnce(i) ==
    /\ \A g, h \in Polls : Gives(poll[g], i) /\ Gives(poll[h], i) => g = h
    /\ \A m, n \in Machines : Does(agent[m], i) /\ Does(agent[n], i) => m = n
    /\ SentOnce(post, i)
    /\ ~(Answering(i) /\ Doing(i))
    /\ Sent(post, i) => ~Answering(i) /\ ~Doing(i)
Clean(i) == gaps[i] \cap {"twice", "finished", "aborted"} = {}
ReportedOnce(i) ==
    Clean(i) => GrantedOnce(i) /\ (Granted(i) => ItemState(i) \in {"running", "gone"})

GrantsOK == \A i \in Items : WorkedOnce(i) /\ ReportedOnce(i)

-----------------------------------------------------------------------------
(* Steps that grant nothing.                                                *)

CalmPolls(i) ==
    \A h \in Polls :
        Gives(poll'[h], i) => Gives(poll[h], i) /\ poll'[h].whole = poll[h].whole
CalmAgents(i) ==
    \A m \in Machines :
        Does(agent'[m], i) => Does(agent[m], i) /\ (Works(agent'[m], i) => Works(agent[m], i))
CalmPosts(i) ==
    /\ Sent(post', i) => Sent(post, i)
    /\ SentOnce(post, i) => SentOnce(post', i)
PollsCalm == \A i \in Items : CalmPolls(i)
AgentsCalm == \A i \in Items : CalmAgents(i)
PostsCalm == \A i \in Items : CalmPosts(i)
GapsGrow == \A i \in Items : gaps[i] \subseteq gaps'[i]
ItemCalm(i) ==
    \/ ~Granted(i)
    \/ "twice" \in gaps'[i]
    \/ /\ ItemState(i)' \in {ItemState(i), "gone"}
       /\ Covered(i) => Covered(i)'

LEMMA WorksDoes == \A a, i : Works(a, i) => Does(a, i)
  BY DEF Works, Does

LEMMA NoWholeGrant ==
  ASSUME NEW i \in Items, ~Granted(i)
  PROVE  ~AnsweringWhole(i) /\ ~Working(i)
  BY WorksDoes DEF Granted, Answering, Doing, AnsweringWhole, Working

LEMMA CalmWhole ==
  ASSUME NEW i \in Items, CalmPolls(i),
         \A m \in Machines : Works(agent'[m], i) => Works(agent[m], i)
  PROVE  /\ AnsweringWhole(i)' => AnsweringWhole(i)
         /\ Working(i)' => Working(i)
         /\ WholeOnce(i) => WholeOnce(i)'
  <1>1. AnsweringWhole(i)' => AnsweringWhole(i)
    BY DEF CalmPolls, AnsweringWhole
  <1>2. Working(i)' => Working(i)
    BY DEF Working
  <1>3. WholeOnce(i) => WholeOnce(i)'
    <2> SUFFICES ASSUME WholeOnce(i) PROVE WholeOnce(i)'
      OBVIOUS
    <2>1. \A h \in Polls :
            Gives(poll'[h], i) /\ poll'[h].whole => Gives(poll[h], i) /\ poll[h].whole
      BY DEF CalmPolls
    <2>2. \A g, h \in Polls :
            Gives(poll'[g], i) /\ poll'[g].whole /\ Gives(poll'[h], i) /\ poll'[h].whole => g = h
      BY <2>1 DEF WholeOnce
    <2>3. \A m, n \in Machines : Works(agent'[m], i) /\ Works(agent'[n], i) => m = n
      BY DEF WholeOnce
    <2>4. ~(AnsweringWhole(i)' /\ Working(i)')
      BY <1>1, <1>2 DEF WholeOnce
    <2>5. QED
      BY <2>2, <2>3, <2>4 DEF WholeOnce
  <1>4. QED
    BY <1>1, <1>2, <1>3

LEMMA CalmWorked ==
  ASSUME GrantsOK, NEW i \in Items, CalmPolls(i), GapsGrow,
         \A m \in Machines : Works(agent'[m], i) => Works(agent[m], i),
         \/ ~Granted(i)
         \/ "twice" \in gaps'[i]
         \/ Covered(i) => Covered(i)'
  PROVE  WorkedOnce(i)'
  <1>1. WorkedOnce(i) /\ gaps[i] \subseteq gaps'[i]
    BY DEF GrantsOK, GapsGrow
  <1>2. CASE "twice" \in gaps'[i]
    BY <1>2 DEF WorkedOnce
  <1>3. CASE ~Granted(i)
    BY <1>1, <1>3, NoWholeGrant, CalmWhole DEF WorkedOnce
  <1>4. CASE Covered(i) => Covered(i)'
    BY <1>1, <1>4, CalmWhole DEF WorkedOnce
  <1>5. QED
    BY <1>2, <1>3, <1>4

LEMMA CalmKeeps ==
  ASSUME GrantsOK, NEW i \in Items, CalmPolls(i), CalmAgents(i), CalmPosts(i), GapsGrow,
         ItemCalm(i)
  PROVE  WorkedOnce(i)' /\ ReportedOnce(i)'
  <1>1. \A m \in Machines : Works(agent'[m], i) => Works(agent[m], i)
    BY WorksDoes DEF CalmAgents
  <1>2. WorkedOnce(i)'
    BY <1>1, CalmWorked DEF ItemCalm
  <1>3. SUFFICES ASSUME Clean(i)'
                 PROVE  /\ GrantedOnce(i)'
                        /\ Granted(i)' => ItemState(i)' \in {"running", "gone"}
    BY <1>2 DEF ReportedOnce
  <1>4. Clean(i)
    BY <1>3 DEF Clean, GapsGrow
  <1>5. GrantedOnce(i) /\ (Granted(i) => ItemState(i) \in {"running", "gone"})
    BY <1>4 DEF ReportedOnce, GrantsOK
  <1>6. /\ Answering(i)' => Answering(i)
        /\ Doing(i)' => Doing(i)
        /\ Sent(post', i) => Sent(post, i)
    BY DEF CalmPolls, CalmAgents, CalmPosts, Answering, Doing
  <1>7. Granted(i)' => Granted(i)
    BY <1>6 DEF Granted
  <1>8. GrantedOnce(i)'
    BY <1>5, <1>6 DEF GrantedOnce, CalmPolls, CalmAgents, CalmPosts
  <1>9. "twice" \notin gaps'[i]
    BY <1>3 DEF Clean
  <1>10. QED
    BY <1>5, <1>7, <1>8, <1>9 DEF ItemCalm

LEMMA CalmSteps ==
  ASSUME GrantsOK, PollsCalm, AgentsCalm, PostsCalm, GapsGrow, \A i \in Items : ItemCalm(i)
  PROVE  GrantsOK'
  BY CalmKeeps
     DEF GrantsOK, PollsCalm, AgentsCalm, PostsCalm

(* What leaves a variable alone.                                             *)
LEMMA CalmVariables ==
  /\ poll' = poll => PollsCalm
  /\ agent' = agent => AgentsCalm
  /\ post' = post => PostsCalm
  /\ gaps' = gaps => GapsGrow
  /\ status' = status /\ data' = data => \A i \in Items : ItemCalm(i)
  <1>1. poll' = poll => PollsCalm
    BY DEF PollsCalm, CalmPolls
  <1>2. agent' = agent => AgentsCalm
    BY DEF AgentsCalm, CalmAgents
  <1>3. post' = post => PostsCalm
    BY DEF PostsCalm, CalmPosts
  <1>4. gaps' = gaps => GapsGrow
    BY DEF GapsGrow
  <1>5. status' = status /\ data' = data => \A i \in Items : ItemCalm(i)
    BY DEF ItemCalm, ItemState, Covered
  <1>6. QED
    BY <1>1, <1>2, <1>3, <1>4, <1>5

LEMMA PollsCalmed ==
  ASSUME WorkerInv, NEW h \in Polls, NEW new, poll' = [poll EXCEPT ![h] = new],
         new.at = "reply" /\ new.open => /\ poll[h].at = "reply" /\ poll[h].open
                                         /\ new.i = poll[h].i /\ new.whole = poll[h].whole
  PROVE  PollsCalm
  <1>1. \A g \in Polls : poll'[g] = IF g = h THEN new ELSE poll[g]
    BY DEF WorkerInv, PollsOK
  <1>2. QED
    BY <1>1 DEF PollsCalm, CalmPolls, Gives

LEMMA AgentsCalmed ==
  ASSUME WorkerInv, NEW m \in Machines, NEW new, agent' = [agent EXCEPT ![m] = new],
         \/ new.at \notin {"got", "working"}
         \/ /\ new.i = agent[m].i
            /\ agent[m].at = "got" /\ agent[m].whole
  PROVE  AgentsCalm
  <1>1. \A o \in Machines : agent'[o] = IF o = m THEN new ELSE agent[o]
    BY DEF WorkerInv, AgentsOK
  <1>2. QED
    BY <1>1 DEF AgentsCalm, CalmAgents, Does, Works

LEMMA PostsCalmed ==
  ASSUME NEW p \in post, NEW new, new.i = p.i, new.at = "sent" => p.at = "sent",
         post' \subseteq (post \ {p}) \cup {new}
  PROVE  PostsCalm
  <1>1. ASSUME NEW i \in Items PROVE Sent(post', i) => Sent(post, i)
    BY DEF Sent
  <1>2. ASSUME NEW i \in Items, SentOnce(post, i) PROVE SentOnce(post', i)
    <2>1. SUFFICES ASSUME NEW q \in post', NEW r \in post', q.i = i, r.i = i,
                          q.at = "sent", r.at = "sent"
                   PROVE  q = r
      BY DEF SentOnce
    <2>2. CASE q = new /\ r = new
      BY <2>2
    <2>3. CASE q = new /\ r # new
      <3>1. p.at = "sent" /\ p.i = i /\ r \in post /\ r # p
        BY <2>1, <2>3
      <3>2. QED
        BY <1>2, <2>1, <3>1 DEF SentOnce
    <2>4. CASE q # new /\ r = new
      <3>1. p.at = "sent" /\ p.i = i /\ q \in post /\ q # p
        BY <2>1, <2>4
      <3>2. QED
        BY <1>2, <2>1, <3>1 DEF SentOnce
    <2>5. CASE q # new /\ r # new
      BY <1>2, <2>1, <2>5 DEF SentOnce
    <2>6. QED
      BY <2>2, <2>3, <2>4, <2>5
  <1>3. QED
    BY <1>1, <1>2 DEF PostsCalm, CalmPosts

LEMMA GapsGrown ==
  ASSUME WorkerInv, NEW i \in Items, NEW why, Gap(i, why)
  PROVE  GapsGrow /\ gaps'[i] = gaps[i] \cup why
  BY DEF WorkerInv, ItemsOK, Gap, GapsGrow

(* Whoever has a grant holds the item.                                       *)
LEMMA GrantHolds ==
  ASSUME WorkerInv, NEW i \in Items, Holders(i) = {}
  PROVE  ~Granted(i)
  <1>1. \A m \in Machines : ~Holds(m, i)
    BY HoldersAre
  <1>2. ~Doing(i)
    BY <1>1 DEF Doing, Does, Holds, Busy
  <1>3. ~Answering(i)
    <2>1. SUFFICES ASSUME NEW h \in Polls, Gives(poll[h], i) PROVE FALSE
      BY DEF Answering
    <2>2. poll[h].m \in Machines
      BY <2>1 DEF WorkerInv, PollsOK, GoodPoll, Gives
    <2>3. Offered(poll[h].m, i)
      BY <2>1, <2>2 DEF Gives, Offered, Offers
    <2>4. QED
      BY <1>1, <2>2, <2>3 DEF Holds
  <1>4. ~Sent(post, i)
    <2>1. SUFFICES ASSUME NEW p \in post, p.i = i PROVE FALSE
      BY DEF Sent
    <2>2. p.m \in Machines /\ Reports(p.m, i)
      BY <2>1, PostTypes DEF Reports
    <2>3. QED
      BY <1>1, <2>2 DEF Holds
  <1>5. QED
    BY <1>2, <1>3, <1>4 DEF Granted

(* An item that was never staged has no grant.                               *)
LEMMA GrantStaged ==
  ASSUME WorkerInv, NEW i \in Items, status[i] = "none"
  PROVE  ~Granted(i)
  <1>1. ~Answering(i)
    BY DEF WorkerInv, PollsOK, GoodPoll, Answering, Gives
  <1>2. ~Doing(i)
    BY DEF WorkerInv, AgentsOK, GoodWorker, Doing, Does
  <1>3. ~Sent(post, i)
    BY DEF WorkerInv, PostsOK, Sent
  <1>4. QED
    BY <1>1, <1>2, <1>3 DEF Granted
-----------------------------------------------------------------------------
(* Every step.                                                              *)

LEMMA OthersCalm ==
  ASSUME NEW i \in Items, status'[i] = status[i], data'[i] = data[i]
  PROVE  ItemCalm(i)
  BY DEF ItemCalm, ItemState, Covered

LEMMA ItemStepsGrants ==
  ASSUME WorkerInv, GrantsOK, NEW i \in Items,
         Stage(i) \/ Dispose(i) \/ Ages(i) \/ RestageRead(i) \/ RestageSave(i) \/ RestageBase(i)
  PROVE  GrantsOK'
  <1>1. PollsCalm /\ AgentsCalm /\ PostsCalm
    BY CalmVariables DEF Stage, Dispose, Ages, RestageRead, RestageSave, RestageBase
  <1>2. CASE Stage(i)
    <2>1. ~Granted(i)
      BY <1>2, GrantStaged DEF Stage
    <2>2. \A j \in Items \ {i} : data'[j] = data[j] /\ status'[j] = status[j]
      BY <1>2 DEF Stage, WorkerInv, ItemsOK
    <2>3. \A j \in Items : ItemCalm(j)
      BY <2>1, <2>2, OthersCalm DEF ItemCalm
    <2>4. QED
      BY <1>1, <1>2, <2>3, CalmVariables, CalmSteps DEF Stage
  <1>3. CASE Dispose(i)
    <2>1. /\ \A j \in Items \ {i} : data'[j] = data[j] /\ status'[j] = status[j]
          /\ status'[i] = "gone"
      BY <1>3 DEF Dispose, WorkerInv, ItemsOK
    <2>2. ItemState(i)' = "gone" /\ Covered(i)'
      BY <2>1 DEF ItemState, Covered
    <2>3. \A j \in Items : ItemCalm(j)
      BY <2>1, <2>2, OthersCalm DEF ItemCalm
    <2>4. QED
      BY <1>1, <1>3, <2>3, CalmVariables, CalmSteps DEF Dispose
  <1>4. CASE Ages(i)
    <2>1. data' = [data EXCEPT ![i] = [data[i] EXCEPT !.old = TRUE]] /\ data[i] \in Data
      BY <1>4 DEF Ages, WorkerInv, ItemsOK
    <2>2. \A j \in Items : /\ data'[j].by = data[j].by /\ data'[j].target = data[j].target
                           /\ data'[j].prompt = data[j].prompt /\ status'[j] = status[j]
      BY <1>4, <2>1 DEF Ages, WorkerInv, ItemsOK, Data
    <2>3. \A j \in Items : ItemCalm(j)
      BY <2>2 DEF ItemCalm, ItemState, Covered
    <2>4. QED
      BY <1>1, <1>4, <2>3, CalmVariables, CalmSteps DEF Ages
  <1>5. CASE RestageRead(i)
    BY <1>1, <1>5, CalmVariables, CalmSteps DEF RestageRead
  <1>6. CASE RestageBase(i)
    BY <1>1, <1>6, GapsGrown, CalmVariables, CalmSteps DEF RestageBase
  <1>7. CASE RestageSave(i)
    <2>1. GapsGrow /\ (Holders(i) # {} => "twice" \in gaps'[i])
      BY <1>7, GapsGrown DEF RestageSave
    <2>2. \A j \in Items \ {i} : data'[j] = data[j] /\ status'[j] = status[j]
      BY <1>7 DEF RestageSave, WorkerInv, ItemsOK
    <2>3. \A j \in Items : ItemCalm(j)
      BY <2>1, <2>2, GrantHolds, OthersCalm DEF ItemCalm
    <2>4. QED
      BY <1>1, <2>1, <2>3, CalmSteps
  <1>8. QED
    BY <1>2, <1>3, <1>4, <1>5, <1>6, <1>7

LEMMA SweepSaveGrants ==
  ASSUME WorkerInv, GrantsOK, NEW i \in Items, NEW h \in Polls, SweepSave(h, i)
  PROVE  GrantsOK'
  <1> DEFINE new == [poll[h] EXCEPT !.at = "base", !.i = i]
  <1>1. poll' = [poll EXCEPT ![h] = new]
    BY DEF SweepSave
  <1>2. new.at # "reply"
    BY DEF WorkerInv, PollsOK, GoodPoll, PollState
  <1> HIDE DEF new
  <1>3. PollsCalm
    BY <1>1, <1>2, PollsCalmed
  <1>4. AgentsCalm /\ PostsCalm
    BY CalmVariables DEF SweepSave
  <1>5. GapsGrow /\ (Holders(i) # {} => "twice" \in gaps'[i])
    BY GapsGrown DEF SweepSave
  <1>6. \A j \in Items \ {i} : data'[j] = data[j] /\ status'[j] = status[j]
    BY DEF SweepSave, WorkerInv, ItemsOK
  <1>7. \A j \in Items : ItemCalm(j)
    BY <1>5, <1>6, GrantHolds, OthersCalm DEF ItemCalm
  <1>8. QED
    BY <1>3, <1>4, <1>5, <1>7, CalmSteps

(* A request that goes on, ends or is hung up answers nobody else.           *)
LEMMA PollStepsCalm ==
  ASSUME WorkerInv, NEW h \in Polls,
         SweepBase(h) \/ Select(h) \/ ClaimMissed(h) \/ Reply(h) \/ Empty(h) \/ HangUp(h)
  PROVE  PollsCalm
  <1>1. poll[h] \in PollState
    BY DEF WorkerInv, PollsOK, GoodPoll
  <1>2. CASE SweepBase(h)
    <2> DEFINE left == [j \in DOMAIN poll[h].copies \ {poll[h].i} |-> poll[h].copies[j]]
               new == [poll[h] EXCEPT !.at = AfterSweep(left), !.i = None, !.copies = left]
    <2>1. poll' = [poll EXCEPT ![h] = new]
      BY <1>2 DEF SweepBase
    <2>2. AfterSweep(left) # "reply"
      BY DEF AfterSweep
    <2> HIDE DEF left
    <2>3. new.at # "reply"
      BY <1>1, <2>2 DEF PollState
    <2> HIDE DEF new
    <2>4. QED
      BY <2>1, <2>3, PollsCalmed
  <1>3. CASE Select(h)
    <2>1. PICK i : poll' = [poll EXCEPT ![h] = [@ EXCEPT !.at = "claim", !.i = i]]
      BY <1>3 DEF Select
    <2> DEFINE new == [poll[h] EXCEPT !.at = "claim", !.i = i]
    <2>2. poll' = [poll EXCEPT ![h] = new] /\ new.at # "reply"
      BY <1>1, <2>1 DEF PollState
    <2> HIDE DEF new
    <2>3. QED
      BY <2>2, PollsCalmed
  <1>4. CASE ClaimMissed(h)
    <2> DEFINE new == [poll[h] EXCEPT !.at = "hold", !.i = None]
    <2>1. poll' = [poll EXCEPT ![h] = new] /\ new.at # "reply"
      BY <1>1, <1>4 DEF PollState, ClaimMissed
    <2> HIDE DEF new
    <2>2. QED
      BY <2>1, PollsCalmed
  <1>5. CASE Reply(h) \/ Empty(h)
    <2>1. poll' = [poll EXCEPT ![h] = NoPoll] /\ NoPoll.at # "reply"
      BY <1>5 DEF Reply, Empty, NoPoll
    <2>2. QED
      BY <2>1, PollsCalmed
  <1>6. CASE HangUp(h)
    <2> DEFINE new == [poll[h] EXCEPT !.open = FALSE]
    <2>1. poll' = [poll EXCEPT ![h] = new] /\ ~new.open
      BY <1>1, <1>6 DEF PollState, HangUp
    <2> HIDE DEF new
    <2>2. QED
      BY <2>1, PollsCalmed
  <1>7. QED
    BY <1>2, <1>3, <1>4, <1>5, <1>6

LEMMA IdleAt == Idle.at \notin {"got", "working"} /\ Down.at \notin {"got", "working"}
  BY DEF Idle, Down

LEMMA NobodyElse ==
  ASSUME WorkerInv, NEW m, NEW new, agent' = [agent EXCEPT ![m] = new],
         new.at \notin {"got", "working"}
  PROVE  AgentsCalm
  <1>1. CASE m \in Machines
    BY <1>1, AgentsCalmed
  <1>2. CASE m \notin Machines
    <2>1. agent' = agent
      BY <1>2 DEF WorkerInv, AgentsOK
    <2>2. QED
      BY <2>1, CalmVariables
  <1>3. QED
    BY <1>1, <1>2

LEMMA QuietPollsGrants ==
  ASSUME WorkerInv, GrantsOK, NEW h \in Polls,
         SweepBase(h) \/ Select(h) \/ ClaimMissed(h) \/ Empty(h) \/ HangUp(h)
  PROVE  GrantsOK'
  <1>1. PollsCalm
    BY PollStepsCalm
  <1>2. /\ status' = status /\ data' = data /\ gaps' = gaps /\ post' = post
    BY DEF SweepBase, Select, ClaimMissed, Empty, HangUp
  <1>3. AgentsCalm
    <2>1. CASE SweepBase(h) \/ Select(h) \/ ClaimMissed(h)
      BY <2>1, CalmVariables DEF SweepBase, Select, ClaimMissed
    <2>2. CASE HangUp(h)
      BY <2>2, IdleAt, NobodyElse DEF HangUp
    <2>3. CASE Empty(h)
      <3>1. CASE poll[h].open
        BY <2>3, <3>1, IdleAt, NobodyElse DEF Empty
      <3>2. CASE ~poll[h].open
        <4>1. agent' = agent
          BY <2>3, <3>2 DEF Empty, WorkerInv, AgentsOK
        <4>2. QED
          BY <4>1, CalmVariables
      <3>3. QED
        BY <3>1, <3>2
    <2>4. QED
      BY <2>1, <2>2, <2>3
  <1>4. QED
    BY <1>1, <1>2, <1>3, CalmVariables, CalmSteps

LEMMA PollStartGrants ==
  ASSUME WorkerInv, GrantsOK, NEW m \in Machines, PollStart(m)
  PROVE  GrantsOK'
  <1> DEFINE mine == {i \in Items : data[i].by = m /\ status[i] = "active"}
             copies == [i \in mine |-> Unclaimed(data[i])]
             new == [NoPoll EXCEPT !.at = AfterSweep(copies), !.m = m,
                                   !.open = TRUE, !.copies = copies]
             polling == [Down EXCEPT !.at = "polling"]
  <1>1. PICK h \in Polls : poll' = [poll EXCEPT ![h] = new]
    BY DEF PollStart
  <1>2. new.at # "reply"
    BY DEF AfterSweep, NoPoll
  <1> HIDE DEF new
  <1>3. agent' = [agent EXCEPT ![m] = polling] /\ polling.at \notin {"got", "working"}
    BY DEF PollStart, Down
  <1> HIDE DEF polling
  <1>4. PollsCalm /\ AgentsCalm
    BY <1>1, <1>2, <1>3, PollsCalmed, NobodyElse
  <1>5. QED
    BY <1>4, CalmVariables, CalmSteps DEF PollStart
(* A claim finds the item free: then nobody has a grant.                     *)
LEMMA ClaimGrants ==
  ASSUME WorkerInv, GrantsOK, NEW h \in Polls, Claim(h)
  PROVE  GrantsOK'
  <1>1. /\ GoodPoll(poll[h]) /\ poll[h].at = "claim"
        /\ poll[h].i \in Items /\ poll[h].m \in Machines
    BY DEF Claim, WorkerInv, PollsOK, GoodPoll
  <1>2. PICK i \in Items, m \in Machines : i = poll[h].i /\ m = poll[h].m
    BY <1>1
  <1> DEFINE has == data[i].target /\ data[i].prompt
             new == [poll[h] EXCEPT !.at = "reply", !.whole = has]
             claimed == [data[i] EXCEPT !.by = m, !.old = FALSE]
  <1>3. data[i] \in Data /\ ClaimLeft(h, i)
    BY <1>2 DEF Claim, WorkerInv, ItemsOK
  <1>4. data' = [data EXCEPT ![i] = claimed] /\ claimed.by = m /\ m # None
    <2>1. data' = [data EXCEPT ![i] = claimed]
      BY <1>2 DEF Claim
    <2>2. claimed.by = m
      BY <1>3, DataTypes
    <2>3. m # None
      BY RemoteWorkerAssumption DEF RemoteWorkerAssumption
    <2>4. QED
      BY <2>1, <2>2, <2>3
  <1>5. /\ \A j \in Items \ {i} : data'[j] = data[j]
        /\ data'[i].by = m /\ status' = status
    BY <1>4 DEF Claim, WorkerInv, ItemsOK
  <1>6. /\ poll' = [poll EXCEPT ![h] = new] /\ new.at = "reply" /\ new.i = i
        /\ new.open = poll[h].open /\ new.whole = has
    BY <1>1, <1>2 DEF Claim, GoodPoll, PollState
  <1>7. /\ GapsGrow
        /\ Holders(i) # {} /\ data[i].old => "twice" \in gaps'[i]
        /\ status[i] # "active" => "finished" \in gaps'[i]
    BY <1>2, GapsGrown DEF Claim
  <1> HIDE DEF new, claimed
  <1>8. \A g \in Polls : poll'[g] = IF g = h THEN new ELSE poll[g]
    BY <1>6 DEF WorkerInv, PollsOK
  <1>9. agent' = agent /\ post' = post
    BY DEF Claim
  <1>10. ASSUME NEW j \in Items \ {i} PROVE WorkedOnce(j)' /\ ReportedOnce(j)'
    <2>1. CalmPolls(j)
      BY <1>6, <1>8 DEF CalmPolls, Gives
    <2>2. CalmAgents(j) /\ CalmPosts(j)
      BY <1>9, CalmVariables DEF AgentsCalm, PostsCalm
    <2>3. ItemCalm(j)
      BY <1>5, OthersCalm
    <2>4. QED
      BY <1>7, <2>1, <2>2, <2>3, CalmKeeps
  <1>11. data[i].by = None \/ data[i].old
    BY <1>3 DEF ClaimLeft, Held
  <1>12. ~Gives(poll[h], i)
    BY <1>1 DEF Gives
  <1>13. WorkedOnce(i)'
    <2>1. CASE has /\ new.open
      <3> SUFFICES ASSUME "twice" \notin gaps'[i] PROVE WorkedOnce(i)'
        BY DEF WorkedOnce
      <3>1. WorkedOnce(i) /\ "twice" \notin gaps[i]
        BY <1>7 DEF GrantsOK, GapsGrow
      <3>2. ~AnsweringWhole(i) /\ ~Working(i)
        <4>1. CASE data[i].old
          BY <1>7, <4>1, GrantHolds, NoWholeGrant
        <4>2. CASE data[i].by = None
          BY <1>3, <2>1, <3>1, <4>2 DEF WorkedOnce, Covered, ClaimLeft
        <4>3. QED
          BY <1>11, <4>1, <4>2
      <3>3. /\ \A g \in Polls : Gives(poll'[g], i) /\ poll'[g].whole => g = h
            /\ \A o \in Machines : ~Works(agent'[o], i)
        BY <1>8, <1>9, <3>2 DEF AnsweringWhole, Working
      <3>4. WholeOnce(i)'
        BY <3>3 DEF WholeOnce, Working
      <3>5. Covered(i)'
        BY <1>4, <1>5 DEF Covered
      <3>6. QED
        BY <3>4, <3>5 DEF WorkedOnce
    <2>2. CASE ~(has /\ new.open)
      <3>1. WorkedOnce(i)
        BY DEF GrantsOK
      <3>2. \A g \in Polls :
              Gives(poll'[g], i) /\ poll'[g].whole => Gives(poll[g], i) /\ poll[g].whole
        BY <1>6, <1>8, <2>2 DEF Gives
      <3>3. /\ AnsweringWhole(i)' => AnsweringWhole(i)
            /\ Working(i)' = Working(i)
        BY <1>9, <3>2 DEF AnsweringWhole, Working
      <3>4. WholeOnce(i) => WholeOnce(i)'
        BY <1>9, <3>2, <3>3 DEF WholeOnce
      <3>5. Covered(i)'
        BY <1>4, <1>5 DEF Covered
      <3>6. QED
        BY <1>7, <3>1, <3>3, <3>4, <3>5 DEF WorkedOnce, GapsGrow
    <2>3. QED
      BY <2>1, <2>2
  <1>14. ReportedOnce(i)'
    <2> SUFFICES ASSUME Clean(i)'
                 PROVE  /\ GrantedOnce(i)'
                        /\ Granted(i)' => ItemState(i)' \in {"running", "gone"}
      BY DEF ReportedOnce
    <2>1. status[i] = "active" /\ (Holders(i) = {} \/ ~data[i].old)
      BY <1>7 DEF Clean
    <2>2. ReportedOnce(i) /\ Clean(i)
      BY <1>7 DEF GrantsOK, GapsGrow, Clean
    <2>3. ~Granted(i)
      <3>1. CASE data[i].old
        BY <2>1, <3>1, GrantHolds
      <3>2. CASE data[i].by = None
        <4>1. ItemState(i) = "queued"
          BY <2>1, <3>2 DEF ItemState
        <4>2. QED
          BY <2>2, <4>1 DEF ReportedOnce
      <3>3. QED
        BY <1>11, <3>1, <3>2
    <2>4. /\ \A g \in Polls : Gives(poll'[g], i) => g = h
          /\ \A o \in Machines : ~Does(agent'[o], i)
          /\ ~Sent(post', i)
      BY <1>8, <1>9, <2>3 DEF Granted, Answering, Doing
    <2>5. GrantedOnce(i)'
      BY <2>4 DEF GrantedOnce, Doing, Sent, SentOnce
    <2>6. ItemState(i)' = "running"
      BY <1>4, <1>5, <2>1 DEF ItemState
    <2>7. QED
      BY <2>5, <2>6
  <1>15. QED
    BY <1>10, <1>13, <1>14 DEF GrantsOK

(* The answer hands the grant to the worker.                                 *)
LEMMA ReplyGrants ==
  ASSUME WorkerInv, GrantsOK, NEW h \in Polls, Reply(h)
  PROVE  GrantsOK'
  <1>1. /\ status' = status /\ data' = data /\ gaps' = gaps /\ post' = post
        /\ poll[h].at = "reply"
    BY DEF Reply
  <1>2. PollsCalm
    BY PollStepsCalm
  <1>3. CASE ~poll[h].open
    <2>1. agent' = agent
      BY <1>3 DEF Reply, WorkerInv, AgentsOK
    <2>2. QED
      BY <1>1, <1>2, <2>1, CalmVariables, CalmSteps
  <1>4. CASE poll[h].open
    <2>1. poll[h].i \in Items /\ poll[h].m \in Machines
      BY <1>1 DEF WorkerInv, PollsOK, GoodPoll
    <2>2. PICK i \in Items, m \in Machines : i = poll[h].i /\ m = poll[h].m
      BY <2>1
    <2>3. Gives(poll[h], i)
      BY <1>1, <1>4, <2>2 DEF Gives
    <2> DEFINE got == [at |-> "got", i |-> i, whole |-> poll[h].whole]
    <2>4. agent' = [agent EXCEPT ![m] = got]
      BY <1>4, <2>2 DEF Reply
    <2>5. \A o \in Machines : agent'[o] = IF o = m THEN got ELSE agent[o]
      BY <2>4 DEF WorkerInv, AgentsOK
    <2>6. got.at = "got" /\ got.i = i /\ got.whole = poll[h].whole
      OBVIOUS
    <2> HIDE DEF got
    <2>7. /\ \A g \in Polls \ {h} : poll'[g] = poll[g]
          /\ \A j \in Items : ~Gives(poll'[h], j)
      BY DEF Reply, WorkerInv, PollsOK, NoPoll, Gives
    <2>8. ASSUME NEW j \in Items \ {i} PROVE WorkedOnce(j)' /\ ReportedOnce(j)'
      <3>1. CalmAgents(j)
        BY <2>5, <2>6 DEF CalmAgents, Does
      <3>2. CalmPolls(j) /\ CalmPosts(j) /\ GapsGrow /\ ItemCalm(j)
        BY <1>1, <1>2, CalmVariables DEF PollsCalm, PostsCalm
      <3>3. QED
        BY <3>1, <3>2, CalmKeeps
    <2>9. WorkedOnce(i)'
      <3>1. CASE poll[h].whole /\ "twice" \notin gaps[i]
        <4>1. WholeOnce(i) /\ AnsweringWhole(i) /\ Covered(i)
          BY <2>3, <3>1 DEF AnsweringWhole, GrantsOK, WorkedOnce
        <4>2. \A o \in Machines : Works(agent'[o], i) => o = m
          BY <2>5, <4>1 DEF WholeOnce, Working
        <4>3. \A g \in Polls : ~(Gives(poll'[g], i) /\ poll'[g].whole)
          BY <2>3, <2>7, <3>1, <4>1 DEF WholeOnce
        <4>4. WholeOnce(i)'
          BY <4>2, <4>3 DEF WholeOnce, AnsweringWhole
        <4>5. Covered(i)'
          BY <1>1, <4>1 DEF Covered
        <4>6. QED
          BY <4>4, <4>5 DEF WorkedOnce
      <3>2. CASE "twice" \in gaps[i]
        BY <1>1, <3>2 DEF WorkedOnce
      <3>3. CASE ~poll[h].whole
        <4>1. \A o \in Machines : Works(agent'[o], i) => Works(agent[o], i)
          BY <2>5, <2>6, <3>3 DEF Works
        <4>2. CalmPolls(i) /\ GapsGrow /\ (Covered(i) => Covered(i)')
          BY <1>1, <1>2, CalmVariables DEF PollsCalm, Covered
        <4>3. QED
          BY <4>1, <4>2, CalmWorked
      <3>4. QED
        BY <3>1, <3>2, <3>3
    <2>10. ReportedOnce(i)'
      <3> SUFFICES ASSUME Clean(i)
                   PROVE  /\ GrantedOnce(i)'
                          /\ Granted(i)' => ItemState(i)' \in {"running", "gone"}
        BY <1>1 DEF ReportedOnce, Clean
      <3>1. Answering(i) /\ Granted(i)
        BY <2>3 DEF Answering, Granted
      <3>2. GrantedOnce(i) /\ ItemState(i) \in {"running", "gone"}
        BY <3>1 DEF GrantsOK, ReportedOnce
      <3>3. /\ \A g \in Polls : ~Gives(poll'[g], i)
            /\ ~Sent(post', i)
            /\ \A o \in Machines : Does(agent'[o], i) => o = m
        BY <1>1, <2>3, <2>5, <2>7, <3>1, <3>2 DEF GrantedOnce, Doing
      <3>4. GrantedOnce(i)'
        BY <3>3 DEF GrantedOnce, Answering, Sent, SentOnce
      <3>5. ItemState(i)' = ItemState(i)
        BY <1>1 DEF ItemState
      <3>6. QED
        BY <3>2, <3>4, <3>5
    <2>11. QED
      BY <2>8, <2>9, <2>10 DEF GrantsOK
  <1>5. QED
    BY <1>3, <1>4
(* A report is sent by a worker that thereby gives its grant up, or by an    *)
(* abort.                                                                    *)
LEMMA SendGrants ==
  ASSUME WorkerInv, GrantsOK, NEW m \in Machines, NEW i \in Items, NEW outcome, NEW by,
         Send(m, i, outcome, by), PollsCalm, AgentsCalm, GapsGrow,
         status' = status, data' = data,
         "aborted" \in gaps'[i] \/ (Does(agent[m], i) /\ ~Does(agent'[m], i))
  PROVE  GrantsOK'
  <1> DEFINE sent == [m |-> m, i |-> i, outcome |-> outcome, by |-> by,
                      at |-> "sent", waits |-> TRUE]
  <1>1. post' = post \cup {sent} /\ sent.i = i
    BY DEF Send
  <1> HIDE DEF sent
  <1>2. \A j \in Items : CalmPolls(j) /\ CalmAgents(j) /\ ItemCalm(j)
    BY CalmVariables DEF PollsCalm, AgentsCalm
  <1>3. ASSUME NEW j \in Items \ {i} PROVE WorkedOnce(j)' /\ ReportedOnce(j)'
    <2>1. CalmPosts(j)
      BY <1>1 DEF CalmPosts, Sent, SentOnce
    <2>2. QED
      BY <1>2, <2>1, CalmKeeps
  <1>4. WorkedOnce(i)'
    <2>1. \A o \in Machines : Works(agent'[o], i) => Works(agent[o], i)
      BY <1>2, WorksDoes DEF CalmAgents
    <2>2. Covered(i) => Covered(i)'
      BY DEF Covered
    <2>3. QED
      BY <1>2, <2>1, <2>2, CalmWorked
  <1>5. ReportedOnce(i)'
    <2> SUFFICES ASSUME Clean(i)'
                 PROVE  /\ GrantedOnce(i)'
                        /\ Granted(i)' => ItemState(i)' \in {"running", "gone"}
      BY DEF ReportedOnce
    <2>1. Clean(i) /\ Does(agent[m], i) /\ ~Does(agent'[m], i)
      BY DEF Clean, GapsGrow
    <2>2. Doing(i) /\ Granted(i)
      BY <2>1 DEF Doing, Granted
    <2>3. GrantedOnce(i) /\ ItemState(i) \in {"running", "gone"}
      BY <2>1, <2>2 DEF GrantsOK, ReportedOnce
    <2>4. ~Answering(i) /\ ~Sent(post, i) /\ \A o \in Machines : Does(agent[o], i) => o = m
      BY <2>1, <2>2, <2>3 DEF GrantedOnce
    <2>5. \A g \in Polls : ~Gives(poll'[g], i)
      BY <1>2, <2>4 DEF CalmPolls, Answering
    <2>6. \A o \in Machines : ~Does(agent'[o], i)
      BY <1>2, <2>1, <2>4 DEF CalmAgents
    <2>7. \A q \in post' : q.i = i /\ q.at = "sent" => q = sent
      BY <1>1, <2>4 DEF Sent
    <2>8. GrantedOnce(i)'
      BY <2>5, <2>6, <2>7 DEF GrantedOnce, Answering, Doing, SentOnce
    <2>9. ItemState(i)' = ItemState(i)
      BY DEF ItemState
    <2>10. QED
      BY <2>3, <2>8, <2>9
  <1>6. QED
    BY <1>3, <1>4, <1>5 DEF GrantsOK

LEMMA BeginGrants ==
  ASSUME WorkerInv, GrantsOK, NEW m \in Machines, Begin(m)
  PROVE  GrantsOK'
  <1>1. PICK i \in Items : i = agent[m].i /\ agent[m].at = "got"
    BY DEF Begin, WorkerInv, AgentsOK, GoodWorker
  <1>2. agent[m] \in WorkerState
    BY DEF WorkerInv, AgentsOK
  <1>3. PollsCalm /\ GapsGrow /\ status' = status /\ data' = data
    BY CalmVariables DEF Begin
  <1>4. CASE agent[m].whole
    <2> DEFINE working == [agent[m] EXCEPT !.at = "working"]
    <2>1. agent' = [agent EXCEPT ![m] = working] /\ post' = post
      BY <1>4 DEF Begin
    <2>2. working.i = agent[m].i
      BY <1>2 DEF WorkerState
    <2> HIDE DEF working
    <2>3. AgentsCalm
      BY <1>1, <1>4, <2>1, <2>2, AgentsCalmed
    <2>4. QED
      BY <1>3, <2>1, <2>3, CalmVariables, CalmSteps
  <1>5. CASE ~agent[m].whole
    <2> DEFINE posting == [agent[m] EXCEPT !.at = "posting"]
    <2>1. agent' = [agent EXCEPT ![m] = posting] /\ Send(m, i, "failed", "refuse")
      BY <1>1, <1>5 DEF Begin
    <2>2. posting.at = "posting"
      BY <1>2 DEF WorkerState
    <2> HIDE DEF posting
    <2>3. AgentsCalm
      BY <2>1, <2>2, NobodyElse
    <2>4. agent'[m] = posting
      BY <2>1 DEF WorkerInv, AgentsOK
    <2>5. Does(agent[m], i) /\ ~Does(agent'[m], i)
      BY <1>1, <2>2, <2>4 DEF Does
    <2>6. QED
      BY <1>3, <2>1, <2>3, <2>5, SendGrants
  <1>6. QED
    BY <1>4, <1>5

LEMMA WorkGrants ==
  ASSUME WorkerInv, GrantsOK, NEW m \in Machines, Work(m)
  PROVE  GrantsOK'
  <1>1. PICK i \in Items : i = agent[m].i /\ agent[m].at = "working"
    BY DEF Work, WorkerInv, AgentsOK, GoodWorker
  <1> DEFINE posting == [agent[m] EXCEPT !.at = "posting"]
  <1>2. PICK outcome \in Outcomes : Send(m, i, outcome, "work")
    BY <1>1 DEF Work
  <1>3. agent' = [agent EXCEPT ![m] = posting] /\ posting.at = "posting"
    BY DEF Work, WorkerInv, AgentsOK, WorkerState
  <1>4. PollsCalm /\ GapsGrow /\ status' = status /\ data' = data
    BY CalmVariables DEF Work
  <1> HIDE DEF posting
  <1>5. AgentsCalm
    BY <1>3, NobodyElse
  <1>6. agent'[m] = posting
    BY <1>3 DEF WorkerInv, AgentsOK
  <1>7. Does(agent[m], i) /\ ~Does(agent'[m], i)
    BY <1>1, <1>3, <1>6 DEF Does
  <1>8. QED
    BY <1>2, <1>4, <1>5, <1>7, SendGrants

LEMMA StartGrants ==
  ASSUME WorkerInv, GrantsOK, NEW m \in Machines, Start(m)
  PROVE  GrantsOK'
  <1>1. status' = status /\ data' = data /\ PollsCalm
    BY CalmVariables DEF Start
  <1>2. CASE MustAbort(m)
    <2>1. PICK i \in Items : i = marker[m].i /\ marker[m].state = "pending"
      BY <1>2, Aborted DEF MustAbort
    <2> DEFINE posting == [Down EXCEPT !.at = "posting"]
    <2>2. Send(m, i, "failed", "startup") /\ agent' = [agent EXCEPT ![m] = posting]
      BY <1>2, <2>1 DEF Start, MustAbort
    <2>3. posting.at = "posting"
      BY DEF Down
    <2>4. Gap(i, {"aborted"})
      BY <1>2, <2>1 DEF Start, MustAbort, GapOfAbort
    <2> HIDE DEF posting
    <2>5. AgentsCalm
      BY <2>2, <2>3, NobodyElse
    <2>6. GapsGrow /\ "aborted" \in gaps'[i]
      BY <2>4, GapsGrown
    <2>7. QED
      BY <1>1, <2>2, <2>5, <2>6, SendGrants
  <1>3. CASE ~MustAbort(m)
    <2>1. agent' = [agent EXCEPT ![m] = Idle] /\ post' = post /\ gaps' = gaps
      BY <1>3 DEF Start
    <2>2. AgentsCalm
      BY <2>1, IdleAt, NobodyElse
    <2>3. QED
      BY <1>1, <2>1, <2>2, CalmVariables, CalmSteps
  <1>4. QED
    BY <1>2, <1>3

LEMMA AbortCliGrants ==
  ASSUME WorkerInv, GrantsOK, NEW m \in Machines, AbortCli(m)
  PROVE  GrantsOK'
  <1>1. PICK i \in Items : i = marker[m].i /\ marker[m].state = "pending"
    BY Aborted DEF AbortCli, MustAbort
  <1>2. Send(m, i, "failed", "cli") /\ Gap(i, {"aborted"})
    BY <1>1 DEF AbortCli, GapOfAbort
  <1>3. PollsCalm /\ AgentsCalm /\ status' = status /\ data' = data
    BY CalmVariables DEF AbortCli
  <1>4. GapsGrow /\ "aborted" \in gaps'[i]
    BY <1>2, GapsGrown
  <1>5. QED
    BY <1>2, <1>3, <1>4, SendGrants

LEMMA MarkerStepsGrants ==
  ASSUME WorkerInv, GrantsOK, NEW m \in Machines, MarkPosted(m) \/ ClearMarker(m)
  PROVE  GrantsOK'
  <1>1. AgentsCalm
    <2> DEFINE clearing == [agent[m] EXCEPT !.at = "clearing"]
    <2>1. clearing.at = "clearing"
      BY DEF WorkerInv, AgentsOK, WorkerState
    <2>2. \/ agent' = [agent EXCEPT ![m] = clearing]
          \/ agent' = [agent EXCEPT ![m] = Idle]
      BY DEF MarkPosted, ClearMarker
    <2> HIDE DEF clearing
    <2>3. QED
      BY <2>1, <2>2, IdleAt, NobodyElse
  <1>2. QED
    BY <1>1, CalmVariables, CalmSteps DEF MarkPosted, ClearMarker

LEMMA CrashGrants ==
  ASSUME WorkerInv, GrantsOK, NEW m \in Machines, Crash(m)
  PROVE  GrantsOK'
  <1>1. AgentsCalm
    <2>1. agent' = [agent EXCEPT ![m] = Down]
      BY DEF Crash
    <2>2. QED
      BY <2>1, IdleAt, NobodyElse
  <1>2. PollsCalm
    <2> DEFINE closed(h) == [poll[h] EXCEPT !.open = FALSE]
    <2>1. \A h \in Polls : poll'[h] = poll[h] \/ poll'[h] = closed(h)
      BY DEF Crash
    <2>2. \A h \in Polls : closed(h).open = FALSE
      BY DEF WorkerInv, PollsOK, PollState
    <2> HIDE DEF closed
    <2>3. QED
      BY <2>1, <2>2 DEF PollsCalm, CalmPolls, Gives
  <1>3. PostsCalm
    <2> DEFINE left(p) == IF p.m = m /\ p.by # "cli" THEN [p EXCEPT !.waits = FALSE] ELSE p
    <2>1. post' = {left(p) : p \in post}
      BY DEF Crash
    <2>2. \A p \in post : left(p).i = p.i /\ left(p).at = p.at
      BY DEF WorkerInv, PostsOK, Posts
    <2> HIDE DEF left
    <2>3. ASSUME NEW i \in Items PROVE Sent(post', i) => Sent(post, i)
      BY <2>1, <2>2 DEF Sent
    <2>4. ASSUME NEW i \in Items, SentOnce(post, i) PROVE SentOnce(post', i)
      BY <2>1, <2>2, <2>4 DEF SentOnce
    <2>5. QED
      BY <2>3, <2>4 DEF PostsCalm, CalmPosts
  <1>4. QED
    BY <1>1, <1>2, <1>3, CalmVariables, CalmSteps DEF Crash

(* A result that was taken, refused or lost is no grant any more.            *)
LEMMA SenderCalm ==
  ASSUME WorkerInv, NEW p \in post, Answered(p) \/ Unanswered(p)
  PROVE  AgentsCalm
  <1> DEFINE to(at) == [agent[p.m] EXCEPT !.at = at]
  <1>1. /\ to("posted").at = "posted" /\ to("clearing").at = "clearing"
    BY PostTypes DEF WorkerInv, AgentsOK, WorkerState
  <1>2. \/ agent' = agent
        \/ agent' = [agent EXCEPT ![p.m] = agent[p.m]]
        \/ agent' = [agent EXCEPT ![p.m] = Idle]
        \/ agent' = [agent EXCEPT ![p.m] = to("posted")]
        \/ agent' = [agent EXCEPT ![p.m] = to("clearing")]
    BY PostTypes DEF Posts, Answered, Unanswered
  <1> HIDE DEF to
  <1>3. [agent EXCEPT ![p.m] = agent[p.m]] = agent
    BY DEF WorkerInv, AgentsOK
  <1>4. QED
    BY <1>1, <1>2, <1>3, IdleAt, NobodyElse, CalmVariables

LEMMA ResultEndsGrants ==
  ASSUME WorkerInv, GrantsOK, NEW p \in post,
         ResultComplete(p) \/ ResultLost(p) \/ PostFails(p)
  PROVE  GrantsOK'
  <1>1. /\ status' = status /\ data' = data /\ gaps' = gaps /\ poll' = poll
    BY DEF ResultComplete, ResultLost, PostFails
  <1>2. AgentsCalm
    BY SenderCalm, CalmVariables DEF ResultComplete, ResultLost, PostFails
  <1>3. PostsCalm
    <2>1. [p EXCEPT !.waits = FALSE].i = p.i /\ [p EXCEPT !.waits = FALSE].at = p.at
      BY PostTypes DEF Posts
    <2>2. \/ post' = post \ {p}
          \/ post' = (post \ {p}) \cup {[p EXCEPT !.waits = FALSE]}
      BY DEF ResultComplete, ResultLost, PostFails
    <2>3. QED
      BY <2>1, <2>2, PostsCalmed
  <1>4. QED
    BY <1>1, <1>2, <1>3, CalmVariables, CalmSteps

LEMMA ResultSaveGrants ==
  ASSUME WorkerInv, GrantsOK, NEW p \in post, ResultSave(p)
  PROVE  GrantsOK'
  <1>1. gaps' = gaps /\ poll' = poll /\ p.at = "sent"
    BY DEF ResultSave
  <1>2. CASE status[p.i] = "gone"
    <2>1. /\ status' = status /\ data' = data /\ post' = post \ {p}
          /\ AgentsCalm
      BY <1>2, SenderCalm DEF ResultSave
    <2>2. PostsCalm
      BY <2>1, PostsCalmed
    <2>3. QED
      BY <1>1, <2>1, <2>2, CalmVariables, CalmSteps
  <1>3. CASE status[p.i] # "gone"
    <2> DEFINE saved == [p EXCEPT !.at = "saved"]
    <2>1. PICK i \in Items : i = p.i
      BY PostTypes
    <2>2. /\ post' = (post \ {p}) \cup {saved} /\ agent' = agent
          /\ data' = [data EXCEPT ![i] = Reported(data[i], p.outcome)]
          /\ \A j \in Items \ {i} : status'[j] = status[j]
      BY <1>3, <2>1 DEF ResultSave, WorkerInv, ItemsOK
    <2>3. saved.i = i /\ saved.at = "saved"
      BY <2>1, PostTypes DEF Posts
    <2> HIDE DEF saved
    <2>4. ASSUME NEW j \in Items PROVE CalmPolls(j) /\ CalmAgents(j) /\ CalmPosts(j) /\ GapsGrow
      BY <1>1, <2>1, <2>2, <2>3, CalmVariables, PostsCalmed
         DEF PollsCalm, AgentsCalm, PostsCalm
    <2>5. ASSUME NEW j \in Items \ {i} PROVE WorkedOnce(j)' /\ ReportedOnce(j)'
      <3>1. data'[j] = data[j]
        BY <2>2 DEF WorkerInv, ItemsOK
      <3>2. ItemCalm(j)
        BY <2>2, <3>1, OthersCalm
      <3>3. QED
        BY <2>4, <3>2, CalmKeeps
    <2>6. WorkedOnce(i)'
      <3>1. data'[i] = Reported(data[i], p.outcome)
        BY <2>2 DEF WorkerInv, ItemsOK
      <3>2. Covered(i)'
        BY <3>1 DEF Covered, Reported, NoData
      <3>3. \A o \in Machines : Works(agent'[o], i) => Works(agent[o], i)
        BY <2>2
      <3>4. QED
        BY <2>4, <3>2, <3>3, CalmWorked
    <2>7. ReportedOnce(i)'
      <3> SUFFICES ASSUME Clean(i) PROVE GrantedOnce(i)' /\ ~Granted(i)'
        BY <1>1 DEF ReportedOnce, Clean
      <3>1. Sent(post, i) /\ GrantedOnce(i)
        BY <1>1, <2>1 DEF Sent, GrantsOK, ReportedOnce
      <3>2. ~Answering(i) /\ ~Doing(i)
        BY <3>1 DEF GrantedOnce
      <3>3. ~Answering(i)' /\ ~Doing(i)'
        BY <1>1, <2>2, <3>2 DEF Answering, Doing
      <3>4. ~Sent(post', i)
        BY <1>1, <2>1, <2>2, <2>3, <3>1 DEF GrantedOnce, SentOnce, Sent
      <3>5. GrantedOnce(i)'
        BY <3>3, <3>4 DEF GrantedOnce, Answering, Doing, Sent, SentOnce
      <3>6. QED
        BY <3>3, <3>4, <3>5 DEF Granted
    <2>8. QED
      BY <2>5, <2>6, <2>7 DEF GrantsOK
  <1>4. QED
    BY <1>2, <1>3

LEMMA InitGrants == Init => GrantsOK
  <1> SUFFICES ASSUME Init PROVE GrantsOK
    OBVIOUS
  <1>1. ASSUME NEW i \in Items PROVE WorkedOnce(i) /\ ReportedOnce(i)
    <2>1. /\ \A h \in Polls : ~Gives(poll[h], i)
          /\ \A m \in Machines : ~Does(agent[m], i)
          /\ ~Sent(post, i)
      BY DEF Init, Gives, NoPoll, Does, Down, Sent
    <2>2. \A m \in Machines : ~Works(agent[m], i)
      BY <2>1, WorksDoes
    <2>3. WorkedOnce(i)
      BY <2>1, <2>2 DEF WorkedOnce, WholeOnce, AnsweringWhole, Working
    <2>4. ReportedOnce(i)
      BY <2>1 DEF ReportedOnce, GrantedOnce, Granted, Answering, Doing, Sent, SentOnce
    <2>5. QED
      BY <2>3, <2>4
  <1>2. QED
    BY <1>1 DEF GrantsOK

LEMMA NextGrants == WorkerInv /\ GrantsOK /\ [Next]_vars => GrantsOK'
  <1> SUFFICES ASSUME WorkerInv, GrantsOK, [Next]_vars PROVE GrantsOK'
    OBVIOUS
  <1>1. ASSUME NEW i \in Items,
               \/ Stage(i) \/ Dispose(i) \/ Ages(i)
               \/ RestageRead(i) \/ RestageSave(i) \/ RestageBase(i)
               \/ \E h \in Polls : SweepSave(h, i)
        PROVE  GrantsOK'
    BY <1>1, ItemStepsGrants, SweepSaveGrants
  <1>2. ASSUME NEW h \in Polls,
               \/ SweepBase(h) \/ Select(h) \/ Claim(h) \/ ClaimMissed(h)
               \/ Reply(h) \/ Empty(h) \/ HangUp(h)
        PROVE  GrantsOK'
    BY <1>2, QuietPollsGrants, ClaimGrants, ReplyGrants
  <1>3. ASSUME NEW m \in Machines,
               \/ PollStart(m) \/ Begin(m) \/ Work(m) \/ MarkPosted(m)
               \/ ClearMarker(m) \/ Crash(m) \/ Start(m) \/ AbortCli(m)
        PROVE  GrantsOK'
    BY <1>3, PollStartGrants, BeginGrants, WorkGrants, MarkerStepsGrants, CrashGrants,
       StartGrants, AbortCliGrants
  <1>4. ASSUME NEW p \in post,
               ResultSave(p) \/ ResultComplete(p) \/ ResultLost(p) \/ PostFails(p)
        PROVE  GrantsOK'
    BY <1>4, ResultSaveGrants, ResultEndsGrants
  <1>5. CASE UNCHANGED vars
    BY <1>5, CalmVariables, CalmSteps DEF vars
  <1>6. QED
    BY <1>1, <1>2, <1>3, <1>4, <1>5 DEF Next

LEMMA GrantsInvariance == Spec => []GrantsOK
  BY InitGrants, NextGrants, Invariance, PTL DEF Spec

LEMMA NoneOrOne ==
  ASSUME NEW S, \A a, b \in S : a = b
  PROVE  Cardinality(S) <= 1
  <1>1. CASE S = {}
    BY <1>1, FS_EmptySet
  <1>2. CASE S # {}
    <2>1. PICK a : a \in S
      BY <1>2
    <2>2. S = {a}
      BY <2>1
    <2>3. QED
      BY <2>2, FS_Singleton
  <1>3. QED
    BY <1>1, <1>2

LEMMA GrantsGiveOneWorker == GrantsOK => OneWorker
  <1> SUFFICES ASSUME GrantsOK, NEW i \in Items, "twice" \notin gaps[i]
               PROVE  Cardinality({m \in Machines : agent[m].at = "working" /\ agent[m].i = i}) <= 1
    BY DEF OneWorker
  <1>1. WholeOnce(i)
    BY DEF GrantsOK, WorkedOnce
  <1>2. \A m \in Machines : agent[m].at = "working" /\ agent[m].i = i => Works(agent[m], i)
    BY DEF Works
  <1>3. \A a, b \in {m \in Machines : agent[m].at = "working" /\ agent[m].i = i} : a = b
    BY <1>1, <1>2 DEF WholeOnce
  <1>4. QED
    BY <1>3, NoneOrOne

-----------------------------------------------------------------------------
(* The result stays with the status it was reported with.                   *)

LEMMA SameFound ==
  ASSUME WorkerInv, ResultFound, GapsGrow, status' = status, data' = data
  PROVE  ResultFound'
  BY DEF ResultFound, GapsGrow

LEMMA ClaimFound ==
  ASSUME WorkerInv, ResultFound, NEW h \in Polls, Claim(h)
  PROVE  ResultFound'
  <1>1. PICK i \in Items : i = poll[h].i
    BY DEF Claim, WorkerInv, PollsOK, GoodPoll
  <1>2. /\ status' = status /\ GapsGrow
        /\ data' = [data EXCEPT ![i] = [data[i] EXCEPT !.by = poll[h].m, !.old = FALSE]]
    BY <1>1, GapsGrown DEF Claim
  <1>3. \A j \in Items : data'[j].result = data[j].result
    BY <1>2 DEF WorkerInv, ItemsOK, Data
  <1>4. QED
    BY <1>2, <1>3 DEF ResultFound, GapsGrow

(* What is put back over an item that ended is a copy.                       *)
LEMMA CopyFound ==
  ASSUME WorkerInv, ResultFound, NEW i \in Items, status' = status, GapsGrow,
         \A j \in Items \ {i} : data'[j] = data[j],
         status[i] # "active" => "copied" \in gaps'[i]
  PROVE  ResultFound'
  <1>1. ASSUME NEW j \in Items, "copied" \notin gaps'[j]
        PROVE  /\ status'[j] = "done" => data'[j].result = "done"
               /\ status'[j] = "blocked" => data'[j].result = "failed"
    BY <1>1 DEF ResultFound, GapsGrow
  <1>2. QED
    BY <1>1 DEF ResultFound

LEMMA ItemStepsFound ==
  ASSUME WorkerInv, ResultFound, NEW i \in Items,
         Stage(i) \/ Dispose(i) \/ Ages(i) \/ RestageRead(i) \/ RestageSave(i) \/ RestageBase(i)
  PROVE  ResultFound'
  <1>1. CASE Stage(i) \/ Dispose(i)
    <2>1. /\ gaps' = gaps /\ status'[i] \in {"active", "gone"}
          /\ \A j \in Items \ {i} : status'[j] = status[j] /\ data'[j] = data[j]
      BY <1>1 DEF Stage, Dispose, WorkerInv, ItemsOK
    <2>2. QED
      BY <2>1 DEF ResultFound
  <1>2. CASE Ages(i)
    <2>1. data' = [data EXCEPT ![i] = [data[i] EXCEPT !.old = TRUE]] /\ gaps' = gaps /\ status' = status
      BY <1>2 DEF Ages, WorkerInv, ItemsOK, Data
    <2>2. \A j \in Items : data'[j].result = data[j].result
      BY <2>1 DEF WorkerInv, ItemsOK, Data
    <2>3. QED
      BY <2>1, <2>2 DEF ResultFound
  <1>3. CASE RestageRead(i)
    BY <1>3, CalmVariables, SameFound DEF RestageRead
  <1>4. CASE RestageBase(i)
    BY <1>4, GapsGrown, SameFound DEF RestageBase
  <1>5. CASE RestageSave(i)
    <2>1. GapsGrow /\ (status[i] # "active" => "copied" \in gaps'[i])
      BY <1>5, GapsGrown DEF RestageSave
    <2>2. status' = status /\ \A j \in Items \ {i} : data'[j] = data[j]
      BY <1>5 DEF RestageSave, WorkerInv, ItemsOK
    <2>3. QED
      BY <2>1, <2>2, CopyFound
  <1>6. QED
    BY <1>1, <1>2, <1>3, <1>4, <1>5

LEMMA SweepSaveFound ==
  ASSUME WorkerInv, ResultFound, NEW i \in Items, NEW h \in Polls, SweepSave(h, i)
  PROVE  ResultFound'
  <1>1. GapsGrow /\ (status[i] # "active" => "copied" \in gaps'[i])
    BY GapsGrown DEF SweepSave
  <1>2. status' = status /\ \A j \in Items \ {i} : data'[j] = data[j]
    BY DEF SweepSave, WorkerInv, ItemsOK
  <1>3. QED
    BY <1>1, <1>2, CopyFound

LEMMA ResultSaveFound ==
  ASSUME WorkerInv, ResultFound, NEW p \in post, ResultSave(p)
  PROVE  ResultFound'
  <1>1. CASE status[p.i] = "gone"
    BY <1>1, CalmVariables, SameFound DEF ResultSave
  <1>2. CASE status[p.i] # "gone"
    <2>1. /\ status' = [status EXCEPT ![p.i] = IF p.outcome = "done" THEN "done" ELSE "blocked"]
          /\ data' = [data EXCEPT ![p.i] = Reported(data[p.i], p.outcome)] /\ gaps' = gaps
      BY <1>2 DEF ResultSave
    <2>2. Reported(data[p.i], p.outcome).result = p.outcome
      BY PostTypes DEF Reported, NoData
    <2>3. p.i \in Items /\ p.outcome \in {"done", "failed"}
      BY PostTypes DEF Outcomes
    <2>4. /\ \A j \in Items \ {p.i} : status'[j] = status[j] /\ data'[j] = data[j]
          /\ status'[p.i] = "done" => data'[p.i].result = "done"
          /\ status'[p.i] = "blocked" => data'[p.i].result = "failed"
      BY <2>1, <2>2, <2>3 DEF WorkerInv, ItemsOK
    <2>5. QED
      BY <2>1, <2>4 DEF ResultFound
  <1>3. QED
    BY <1>1, <1>2

LEMMA NextFound == WorkerInv /\ ResultFound /\ [Next]_vars => ResultFound'
  <1> SUFFICES ASSUME WorkerInv, ResultFound, [Next]_vars PROVE ResultFound'
    OBVIOUS
  <1>1. ASSUME NEW i \in Items,
               \/ Stage(i) \/ Dispose(i) \/ Ages(i)
               \/ RestageRead(i) \/ RestageSave(i) \/ RestageBase(i)
               \/ \E h \in Polls : SweepSave(h, i)
        PROVE  ResultFound'
    BY <1>1, ItemStepsFound, SweepSaveFound
  <1>2. ASSUME NEW h \in Polls,
               \/ SweepBase(h) \/ Select(h) \/ ClaimMissed(h)
               \/ Reply(h) \/ Empty(h) \/ HangUp(h)
        PROVE  ResultFound'
    BY <1>2, CalmVariables, SameFound
       DEF SweepBase, Select, ClaimMissed, Reply, Empty, HangUp
  <1>3. ASSUME NEW m \in Machines,
               \/ PollStart(m) \/ Begin(m) \/ Work(m) \/ MarkPosted(m)
               \/ ClearMarker(m) \/ Crash(m)
        PROVE  ResultFound'
    BY <1>3, CalmVariables, SameFound
       DEF PollStart, Begin, Work, MarkPosted, ClearMarker, Crash
  <1>4. ASSUME NEW m \in Machines, Start(m) \/ AbortCli(m)
        PROVE  ResultFound'
    <2>1. GapsGrow
      <3>1. CASE MustAbort(m)
        BY <1>4, <3>1, Aborted, GapsGrown, CalmVariables DEF Start, AbortCli, GapOfAbort
      <3>2. CASE ~MustAbort(m)
        BY <1>4, <3>2, CalmVariables DEF Start, AbortCli
      <3>3. QED
        BY <3>1, <3>2
    <2>2. QED
      BY <1>4, <2>1, SameFound DEF Start, AbortCli
  <1>5. ASSUME NEW p \in post, ResultComplete(p) \/ ResultLost(p) \/ PostFails(p)
        PROVE  ResultFound'
    BY <1>5, CalmVariables, SameFound DEF ResultComplete, ResultLost, PostFails
  <1>6. CASE UNCHANGED vars
    BY <1>6, CalmVariables, SameFound DEF vars
  <1>7. QED
    BY <1>1, <1>2, <1>3, <1>4, <1>5, <1>6, ClaimFound, ResultSaveFound DEF Next

(* A report that changes an item that is done is not its only one.           *)
DoneStands ==
    \A i \in Items :
        status[i] = "done" /\ status'[i] = "blocked" =>
            gaps[i] \cap {"twice", "finished", "aborted"} # {}

LEMMA SameStands == status' = status => DoneStands
  BY DEF DoneStands

LEMMA ResultSaveStands ==
  ASSUME WorkerInv, GrantsOK, NEW p \in post, ResultSave(p)
  PROVE  DoneStands
  <1>1. SUFFICES ASSUME NEW i \in Items, status[i] = "done", status'[i] = "blocked", Clean(i)
                 PROVE  FALSE
    BY DEF DoneStands, Clean
  <1>2. i = p.i /\ p.at = "sent"
    BY <1>1 DEF ResultSave, WorkerInv, ItemsOK
  <1>3. Granted(i)
    BY <1>2 DEF Granted, Sent
  <1>4. ItemState(i) = "done"
    BY <1>1 DEF ItemState
  <1>5. QED
    BY <1>1, <1>3, <1>4 DEF GrantsOK, ReportedOnce

LEMMA NextStands == WorkerInv /\ GrantsOK /\ [Next]_vars => DoneStands
  <1> SUFFICES ASSUME WorkerInv, GrantsOK, [Next]_vars PROVE DoneStands
    OBVIOUS
  <1>1. ASSUME NEW i \in Items, Stage(i) \/ Dispose(i)
        PROVE  DoneStands
    <2>1. /\ status'[i] \in {"active", "gone"}
          /\ \A j \in Items \ {i} : status'[j] = status[j]
      BY <1>1 DEF Stage, Dispose, WorkerInv, ItemsOK
    <2>2. QED
      BY <2>1 DEF DoneStands
  <1>2. ASSUME NEW i \in Items,
               \/ Ages(i) \/ RestageRead(i) \/ RestageSave(i) \/ RestageBase(i)
               \/ \E h \in Polls : SweepSave(h, i)
        PROVE  DoneStands
    BY <1>2, SameStands DEF Ages, RestageRead, RestageSave, RestageBase, SweepSave
  <1>3. ASSUME NEW h \in Polls,
               \/ SweepBase(h) \/ Select(h) \/ Claim(h) \/ ClaimMissed(h)
               \/ Reply(h) \/ Empty(h) \/ HangUp(h)
        PROVE  DoneStands
    BY <1>3, SameStands
       DEF SweepBase, Select, Claim, ClaimMissed, Reply, Empty, HangUp
  <1>4. ASSUME NEW m \in Machines,
               \/ PollStart(m) \/ Begin(m) \/ Work(m) \/ MarkPosted(m)
               \/ ClearMarker(m) \/ Crash(m) \/ Start(m) \/ AbortCli(m)
        PROVE  DoneStands
    BY <1>4, SameStands
       DEF PollStart, Begin, Work, MarkPosted, ClearMarker, Crash, Start, AbortCli
  <1>5. ASSUME NEW p \in post, ResultComplete(p) \/ ResultLost(p) \/ PostFails(p)
        PROVE  DoneStands
    BY <1>5, SameStands DEF ResultComplete, ResultLost, PostFails
  <1>6. CASE UNCHANGED vars
    BY <1>6, SameStands DEF vars
  <1>7. QED
    BY <1>1, <1>2, <1>3, <1>4, <1>5, <1>6, ResultSaveStands DEF Next

-----------------------------------------------------------------------------
(* The theorems.                                                            *)

LEMMA NextPromised == WorkerInv /\ [Next]_vars => Promised
  <1> SUFFICES ASSUME WorkerInv, [Next]_vars PROVE Promised
    OBVIOUS
  <1>1. ASSUME NEW i \in Items,
               \/ Stage(i) \/ Dispose(i) \/ Ages(i)
               \/ RestageRead(i) \/ RestageSave(i) \/ RestageBase(i)
               \/ \E h \in Polls : SweepSave(h, i)
        PROVE  Promised
    BY <1>1, ItemStepsPromised, SweepSavePromised
  <1>2. ASSUME NEW h \in Polls,
               \/ SweepBase(h) \/ Select(h) \/ Claim(h) \/ ClaimMissed(h)
               \/ Reply(h) \/ Empty(h) \/ HangUp(h)
        PROVE  Promised
    BY <1>2, QuietPollsPromised, ClaimPromised, ReplyPromised, EmptyPromised, HangUpPromised
  <1>3. ASSUME NEW m \in Machines,
               \/ PollStart(m) \/ Begin(m) \/ Work(m) \/ MarkPosted(m)
               \/ ClearMarker(m) \/ Crash(m) \/ Start(m) \/ AbortCli(m)
        PROVE  Promised
    BY <1>3, PollStartPromised, BeginPromised, WorkPromised, MarkerStepsPromised,
       CrashPromised, StartPromised, AbortCliPromised
  <1>4. ASSUME NEW p \in post,
               ResultSave(p) \/ ResultComplete(p) \/ ResultLost(p) \/ PostFails(p)
        PROVE  Promised
    BY <1>4, ResultSavePromised, ResultEndsPromised
  <1>5. CASE UNCHANGED vars
    BY <1>5, HoldersSame, SeenKept, Stutters DEF vars
  <1>6. QED
    BY <1>1, <1>2, <1>3, <1>4, <1>5 DEF Next

LEMMA InitPromised == Init => Contract!Init
  <1> SUFFICES ASSUME Init PROVE Contract!Init
    OBVIOUS
  <1>1. \A i \in Items : ItemState(i) = "none"
    BY DEF Init, ItemState
  <1>2. \A m \in Machines, i \in Items : ~Holds(m, i)
    <2>1. \A m \in Machines, i \in Items : ~Busy(m, i) /\ ~Reports(m, i)
      BY DEF Init, Busy, Down, Reports
    <2>2. \A m \in Machines, i \in Items : ~Marks(m, i)
      <3>1. \A i \in Items : NoMarker # [state |-> "pending", i |-> i]
        BY DEF NoMarker
      <3>2. QED
        BY <3>1 DEF Init, Marks
    <2>3. \A m \in Machines, i \in Items : ~Offered(m, i)
      BY DEF Init, Offered, Offers, NoPoll
    <2>4. QED
      BY <2>1, <2>2, <2>3 DEF Holds
  <1>3. \A i \in Items : Holders(i) = {}
    BY <1>2, HoldersAre
  <1>4. QED
    BY <1>1, <1>3 DEF Contract!Init

(* The variables of the pipeline keep their types, and what a poll, a       *)
(* worker, a marker or a report names is an item that exists.               *)
THEOREM WorkerTypeCorrect == Spec => []TypeOK
  BY InvTypes, Invariance, PTL

(* The pipeline implements WorkItem: whatever machines claim, crash, poll   *)
(* again, abort or report, in whatever order, GET /api/work/result never    *)
(* shows a change that the contract does not allow, and a report changes an *)
(* item only if its machine was handed the item before and has neither      *)
(* reported on it nor given it up since.                                    *)
THEOREM WorkerImplementsWorkItem == Spec => ImplementsWorkItem
  <1>1. Spec => Contract!Init /\ [][Contract!Next]_(Contract!vars)
    BY InitPromised, Invariance, NextPromised, PTL DEF Spec, Promised
  <1>2. QED
    BY <1>1 DEF ImplementsWorkItem, Contract!Spec

(* No two machines work on an item at once, unless its claim was taken away  *)
(* while somebody could still report on it.                                  *)
THEOREM WorkerOneWorker == Spec => []OneWorker
  BY GrantsGiveOneWorker, GrantsInvariance, PTL

(* A result that was reported is found where GET /api/work/result looks, and *)
(* an item that is done turns into a failed one only after a claim was taken *)
(* away, given out for a finished item, or aborted.                          *)
THEOREM WorkerResultKept == Spec => ResultKept
  <1>1. Init => ResultFound
    BY DEF Init, ResultFound
  <1>2. Spec => []ResultFound
    BY <1>1, NextFound, Invariance, PTL DEF Spec
  <1>3. WorkerInv /\ GrantsOK /\ [Next]_vars =>
            [\A i \in Items :
                status[i] = "done" /\ status'[i] = "blocked" =>
                    gaps[i] \cap {"twice", "finished", "aborted"} # {}]_vars
    BY NextStands DEF DoneStands
  <1>4. QED
    BY <1>2, <1>3, Invariance, GrantsInvariance, PTL DEF Spec, ResultKept
=============================================================================
