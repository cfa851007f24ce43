------------------------------ MODULE Research ------------------------------
(***************************************************************************)
(* One research topic through the research-agent: requests are queued in   *)
(* the data of the research-agent action, a drain turns the head of the    *)
(* queue into the action's next_target, the action agent dispatches every  *)
(* model the target needs, the models finish in any order as processes of  *)
(* their own, the last one to finish queues the synthesis, and two healers *)
(* and a reconciler repair what a dead process left behind.                *)
(* Sources: tjai_app/action_runner.py (_dispatch_research_3way,            *)
(* research_model_complete, heal_research_subprocess_state),               *)
(* tjai_app/research_queue.py, scripts/research_multimodel.py,             *)
(* scripts/agent_complete.py, scripts/action_agent.py and                  *)
(* scripts/reconcile_research.py.                                          *)
(*                                                                         *)
(* Data fields are saved whole.  A copy that is held across other work (the *)
(* copy of the action held through a dispatch, the copies of the base entry *)
(* of a dispatch and of a drain) is read in one step and put back in        *)
(* another; a read and a save with no more than one save in between are one *)
(* step.                                                                    *)
(***************************************************************************)
EXTENDS Naturals, FiniteSets, Sequences, Functions

CONSTANTS
    Models,       \* RESEARCH_MODELS, in the order they are dispatched
    Claude,       \* the one run by tj agent; the others are subprocesses of
                  \* research_multimodel.py
    MaxRequests,  \* bound on the requests made from the web
    MaxFaults,    \* bound on failed launches and killed processes
    MaxRaces      \* bound on how often a thread is overtaken between two of
                  \* its steps

ModelSet == Range(Models)

ASSUME ResearchAssumption ==
    /\ Models \in Seq(STRING) /\ IsInjective(Models)
    /\ Claude \in ModelSet
    /\ {"none", "synthesis"} \cap ModelSet = {}
    /\ MaxRequests \in Nat \ {0}
    /\ {MaxFaults, MaxRaces} \subseteq Nat

Rounds == 1..(MaxRequests + MaxRaces)   \* a dispatch needs a request, or a race
                                        \* that puts one back

VARIABLES
    ra,       \* data of the research-agent action: pending_runs, next_target
    running,  \* SysConfig agent_research-agent_status is 'running'
    working,  \* SysConfig agent_research-agent_entry: what the agent works on
    topic,    \* status of the base entry
    base,     \* data of the base entry
    sub,      \* the live sub-entry of each model
    synth,    \* the live synthesis sub-entry
    synths,   \* how many synthesis agents are running
    proc,     \* the process of each model and dispatch: the entry it writes
    pid,      \* SysConfig research_<topic>_<model>_pid: the dispatch it is of
    disp,     \* execute_action in the action agent
    call,     \* what every thread that completes, heals or drains has to do
    round,    \* how many dispatches there have been
    requests, \* how many requests have been made
    faults,   \* how many faults have happened
    races,    \* how many times a thread has been overtaken
    turn,     \* the thread that is between two of its steps
    holes     \* history: what has gone wrong, see Holes

ours == <<ra, running, working>>
entries == <<topic, base, sub, synth>>
procs == <<proc, pid, synths>>
counters == <<round, requests, faults>>
sched == <<races, turn>>
vars == <<ours, entries, procs, disp, call, counters, sched, holes>>

(* ------------------------------ types ----------------------------------- *)

Terminal == {"done", "failed"}     \* MODEL_TERMINAL_STATUSES ('blocked' is
                                   \* the old spelling of 'failed')
BaseData == [status : [ModelSet -> {"none", "rerun", "launching", "active"}
                                    \cup Terminal],
             ids : SUBSET ModelSet,     \* models with an {model}_entry_id
             triggered : BOOLEAN]       \* synthesis_triggered
NewBase == [status |-> [m \in ModelSet |-> "none"], ids |-> {},
            triggered |-> FALSE]

Items == [kind : {"run", "rerun", "synthesize"}, models : SUBSET ModelSet]
Item(kind, models) == [kind |-> kind, models |-> models]

(* next_target_entry_id and agent_..._entry name an entry: the topic, the    *)
(* synthesis entry or Claude's sub-entry with a number.                      *)
Nothing == <<"none", 0>>
Topic == <<"topic", 0>>
Synthesis(n) == <<"synthesis", n>>
NewAction == [queue |-> <<>>, target |-> Nothing]

(* A sub-entry that is deleted and made again gets another id.               *)
NoEntry == [status |-> "none", id |-> 0]

(* The threads: each model process of each dispatch, the web, the action     *)
(* agent, the cron job and the synthesis agent.                              *)
Web == <<"web", 0>>
Agent == <<"agent", 0>>
Cron == <<"cron", 0>>
Synth == <<"synthesis", 0>>
Callers == (ModelSet \X Rounds) \cup {Web, Agent, Cron, Synth}
Healers == {Web, Agent}
Nobody == <<"nobody", 0>>

(* What a thread has still to do, the entry it completes, and what it read   *)
(* on the way.                                                               *)
NoCall == [todo |-> <<>>, m |-> "none", e |-> 0, as |-> "none",
           item |-> Item("run", {}), base |-> NewBase, ra |-> NewAction]
NoDispatch == [at |-> "idle", todo |-> {}, e |-> 0, put |-> "none",
               read |-> NewBase, failed |-> {}, ra |-> NewAction, agent |-> FALSE]

Steps == {"enqueue", "drain", "pop", "run", "rerun", "synthesize", "launch",
          "save", "txn", "trigger", "publish", "healmark"}
Holes == {"crossed",  \* a completion or a drain came in the middle of a dispatch
          "stale",    \* a model completed whose entry a rerun had deleted
          "overlap",  \* two threads took up the queue or its target at once
          "crash"}    \* a process died while it was completing, or the
                      \* synthesis agent died

TypeOK ==
    /\ Range(ra.queue) \subseteq Items /\ Len(ra.queue) <= 3
    /\ ra.target \in {Nothing, Topic} \/ ra.target = Synthesis(ra.target[2])
    /\ running \in BOOLEAN
    /\ working[1] \in {"none", Claude, "synthesis"}
    /\ topic \in {"new", "active"} \cup Terminal
    /\ base \in BaseData
    /\ synth.status \in {"none", "open"} \cup Terminal
    /\ {synth.id, synths} \subseteq Nat
    /\ \A m \in ModelSet :
        /\ sub[m].status \in {"none", "launching", "active"} \cup Terminal
        /\ sub[m].id \in {0} \cup Rounds /\ pid[m] \in {0} \cup Rounds
        /\ \A r \in Rounds : proc[m][r] \in 0..r
    /\ disp.at \in {"idle", "execute", "sub", "read", "write", "launch", "pid",
                    "mark", "fails", "end", "last", "synth"}
    /\ \A c \in Callers : Range(call[c].todo) \subseteq Steps
    /\ round \in {0} \cup Rounds
    /\ requests \in 0..MaxRequests
    /\ faults \in 0..MaxFaults
    /\ races \in 0..MaxRaces /\ turn \in Callers \cup {Nobody}
    /\ holes \subseteq Holes

Init ==
    /\ ra = NewAction
    /\ running = FALSE
    /\ working = Nothing
    /\ topic = "new"
    /\ base = NewBase
    /\ sub = [m \in ModelSet |-> NoEntry]
    /\ synth = NoEntry
    /\ synths = 0
    /\ proc = [m \in ModelSet |-> [r \in Rounds |-> 0]]
    /\ pid = [m \in ModelSet |-> 0]
    /\ disp = NoDispatch
    /\ call = [c \in Callers |-> NoCall]
    /\ round = 0 /\ requests = 0 /\ faults = 0
    /\ races = 0 /\ turn = Nobody
    /\ holes = {}

(* ------------------------------ threads --------------------------------- *)

At(c, step) == call[c].todo # <<>> /\ Head(call[c].todo) = step
Free(c) == call[c].todo = <<>>

(* Thread c is through with its step, has read rec and does more next.      *)
Do(c, more, rec) ==
    LET rest == more \o Tail(call[c].todo)
    IN  call' = [call EXCEPT ![c] =
                   IF rest = <<>> THEN NoCall ELSE [rec EXCEPT !.todo = rest]]
Kept(c) ==
    IF Range(Tail(call[c].todo)) \cap {"save", "txn", "publish"} = {}
    THEN NoCall
    ELSE [NoCall EXCEPT !.m = call[c].m, !.e = call[c].e, !.as = call[c].as]
Done(c) == Do(c, <<>>, Kept(c))

Start(c, rec) == Free(c) /\ call' = [call EXCEPT ![c] = rec]

(* ... to complete entry e of model m.                                      *)
Completing(m, e, as, todo) ==
    [NoCall EXCEPT !.todo = todo, !.m = m, !.e = e, !.as = as]

(* The steps of a thread are milliseconds apart, its process or its next     *)
(* call minutes away: as a rule a thread that has begun goes on to its end,  *)
(* and MaxRaces times another one overtakes it.                              *)
Unfinished(c) == c # Nobody /\ (~Free(c) \/ (c = Agent /\ disp.at # "idle"))

Turn(c) ==
    /\ turn' = IF Unfinished(c)' THEN c ELSE Nobody
    /\ IF turn = c \/ ~Unfinished(turn)
       THEN UNCHANGED races
       ELSE races < MaxRaces /\ races' = races + 1

Fault == faults < MaxFaults /\ faults' = faults + 1

(* A process lives until it has completed.                                  *)
Alive(m, r) == proc[m][r] # 0 \/ ~Free(<<m, r>>)

(* ------------------------------- queue ---------------------------------- *)

(* enqueue: under the row lock; an item of the same kind is not added twice. *)
QueuedAlone(queue, item) == <<item>>                             \* mutant
Queued(queue, item) ==
    IF \E i \in DOMAIN queue : queue[i].kind = item.kind
    THEN queue ELSE Append(queue, item)

Enqueue(c) ==
    /\ At(c, "enqueue")
    /\ ra' = [ra EXCEPT !.queue = Queued(@, call[c].item)]
    /\ Done(c)
    /\ UNCHANGED <<running, working, entries, procs, disp, counters, holes>>

(* drain_if_idle, drain_after_complete: nothing while the agent runs or a    *)
(* target waits for it.                                                      *)
MayDrainUnpinned == ra.target = Nothing     \* mutant: is_running not asked
MayDrain == ~running /\ ra.target = Nothing

Draining(c) ==
    \/ \E step \in {"pop", "run", "rerun", "synthesize", "launch"} : At(c, step)
    \/ c = Agent /\ disp.at = "execute"
Overlap(c) ==
    IF \E d \in Callers \ {c} : Draining(d) THEN {"overlap"} ELSE {}

DispAt(step) == disp.at = step
Crossed(c) == IF c # Agent /\ ~DispAt("idle") THEN {"crossed"} ELSE {}

Drain(c) ==
    /\ At(c, "drain")
    /\ Do(c, IF MayDrain THEN <<"pop">> ELSE <<>>, Kept(c))
    /\ holes' = holes \cup (IF MayDrain THEN Overlap(c) \cup Crossed(c) ELSE {})
    /\ UNCHANGED <<ours, entries, procs, disp, counters>>

(* consume_one: pop the head under the row lock and read the base entry.     *)
Pop(c) ==
    /\ At(c, "pop")
    /\ IF ra.queue = <<>>
       THEN Done(c) /\ UNCHANGED ra
       ELSE /\ ra' = [ra EXCEPT !.queue = Tail(@)]
            /\ Do(c, <<Head(ra.queue).kind>>,
                  [Kept(c) EXCEPT !.item = Head(ra.queue), !.base = base])
    /\ UNCHANGED <<running, working, entries, procs, disp, counters, holes>>

(* dispatch_run: the base entry's data goes back as it was read, and the    *)
(* action gets a next_target and last_run = 0, which makes it due.          *)
TargetTopic == ra' = [ra EXCEPT !.target = Topic]

DispatchRun(c) ==
    /\ At(c, "run")
    /\ base' = call[c].base
    /\ topic' = "active"
    /\ TargetTopic
    /\ Done(c)
    /\ UNCHANGED <<running, working, sub, synth, procs, disp, counters, holes>>

(* dispatch_rerun: the selected models are marked, their sub-entries deleted, *)
(* a model that never ran counts as done.                                     *)
Marked(read, models) ==
    [read EXCEPT !.status = [m \in ModelSet |->
                    CASE m \in models             -> "rerun"
                      [] read.status[m] = "none"  -> "done"
                      [] OTHER                    -> read.status[m]]]
RerunMarks(read, models) == [Marked(read, models) EXCEPT !.triggered = FALSE]

DispatchRerun(c) ==
    /\ At(c, "rerun")
    /\ base' = RerunMarks(call[c].base, call[c].item.models)
    /\ sub' = [m \in ModelSet |-> IF m \in call[c].item.models THEN NoEntry ELSE sub[m]]
    /\ topic' = "active"
    /\ TargetTopic
    /\ Done(c)
    /\ UNCHANGED <<running, working, synth, procs, disp, counters, holes>>

(* dispatch_synthesize and the first half of _create_and_dispatch_synthesis: *)
(* the old synthesis entry is retired, a new one is created and becomes the *)
(* target.                                                                  *)
DispatchSynthesize(c) ==
    /\ At(c, "synthesize")
    /\ IF call[c].base.ids = {}
       THEN Done(c) /\ UNCHANGED <<ra, base, synth>>
       ELSE /\ base' = [base EXCEPT !.triggered = TRUE]
            /\ synth' = [status |-> "open", id |-> synth.id + 1]
            /\ ra' = [ra EXCEPT !.target = Synthesis(synth'.id)]
            /\ Do(c, <<"launch">>, [Kept(c) EXCEPT !.ra = ra'])
    /\ UNCHANGED <<running, working, topic, sub, procs, disp, counters, holes>>

(* dispatch_ai marks the agent running on the target of the copy it is given *)
(* and saves that copy without the target; update_last_run saves it again.   *)
Without(copy) == [copy EXCEPT !.target = Nothing]
DispatchAI(copy) ==
    /\ running' = TRUE
    /\ working' = copy.target
    /\ ra' = Without(copy)

(* ... and the second half: dispatch_ai, called at once by the thread that  *)
(* drains, and update_last_run.                                             *)
LaunchSynthesis(c) ==
    /\ At(c, "launch")
    /\ DispatchAI(call[c].ra)
    /\ synths' = synths + 1
    /\ Done(c)
    /\ UNCHANGED <<entries, proc, pid, disp, counters, holes>>

(* --------------------------- requests ----------------------------------- *)

(* api_research_run, api_research_rerun_models, api_research_synthesize.      *)
Request(item) ==
    /\ requests < MaxRequests
    /\ requests' = requests + 1
    /\ item.kind = "run" => topic # "active"
    /\ item.kind = "rerun" <=> item.models # {}
    /\ item.kind = "synthesize" => base.ids # {}
    /\ Start(Web, [NoCall EXCEPT !.todo = <<"enqueue", "drain">>, !.item = item])
    /\ UNCHANGED <<ours, entries, procs, disp, round, faults, holes>>

Completes(c) == \E step \in {"save", "txn", "trigger"} : At(c, step)

(* --------------------------- the dispatcher ----------------------------- *)

IsNext(i) == Models[i] \in disp.todo /\ \A j \in 1..(i - 1) : Models[j] \notin disp.todo
Next1 == Models[CHOOSE i \in DOMAIN Models : IsNext(i)]   \* the model it is at
Entry1 == <<Next1, disp.e>>                \* ... and its sub-entry
EntryLives == sub[Next1].id = disp.e

(* get_due_actions: the action is due as long as its target waits; the copy *)
(* of the action read here is the one every later save puts back.           *)
ListDue ==
    /\ DispAt("idle") /\ Free(Agent)
    /\ ra.target # Nothing /\ ~running
    /\ disp' = [NoDispatch EXCEPT !.at = "execute", !.ra = ra]
    /\ holes' = holes \cup Overlap(Agent)
                      \cup (IF \E c \in Callers \ {Agent} : Completes(c)
                            THEN {"crossed"} ELSE {})
    /\ UNCHANGED <<ours, entries, procs, call, counters>>

(* _dispatch_research_3way: the models that never ran or are marked.        *)
ToRun == {m \in ModelSet : base.status[m] \in {"none", "rerun"}}

(* execute_action up to the choice between a topic and a synthesis.         *)
Execute ==
    /\ DispAt("execute")
    /\ running' = TRUE
    /\ IF disp.ra.target # Topic
       THEN disp' = [disp EXCEPT !.at = "synth"] /\ UNCHANGED round
       ELSE IF ToRun = {}
       THEN disp' = [disp EXCEPT !.at = "end"] /\ UNCHANGED round
       ELSE /\ round + 1 \in Rounds /\ round' = round + 1
            /\ disp' = [disp EXCEPT !.at = "sub", !.todo = ToRun]
    /\ UNCHANGED <<ra, working, entries, procs, call, requests, faults, holes>>

(* A synthesis sub-entry as target: straight to dispatch_ai.                *)
LaunchSynthTarget ==
    /\ DispAt("synth")
    /\ DispatchAI(disp.ra)
    /\ synths' = synths + 1
    /\ disp' = [disp EXCEPT !.at = "last", !.agent = TRUE]
    /\ UNCHANGED <<entries, proc, pid, call, counters, holes>>

(* An existing sub-entry is used again.                                     *)
MakeSub ==
    /\ DispAt("sub")
    /\ sub' = [sub EXCEPT ![Next1] = [status |-> "launching",
                                      id |-> IF @.id = 0 THEN round ELSE @.id]]
    /\ disp' = [disp EXCEPT !.at = "read", !.e = sub'[Next1].id, !.put = "launching"]
    /\ UNCHANGED <<ours, topic, base, synth, procs, call, counters, holes>>

(* _save_base_model_state: refresh, then save the fresh copy with this      *)
(* model's fields; a completion in the fresh copy is kept.                  *)
ReadBase ==
    /\ DispAt("read")
    /\ disp' = [disp EXCEPT !.at = "write", !.read = base]
    /\ UNCHANGED <<ours, entries, procs, call, counters, holes>>

Merged(read, m, put) ==
    [read EXCEPT !.ids = @ \cup {m},
                 !.status[m] = IF @ \in Terminal /\ ~ put \in Terminal
                               THEN @ ELSE put]

AfterModel ==
    LET rest == disp.todo \ {Next1}
    IN  [disp EXCEPT !.at = IF rest = {} THEN "fails" ELSE "sub",
                     !.todo = rest, !.e = 0, !.put = "none", !.read = NewBase]

WriteBase ==
    /\ DispAt("write")
    /\ base' = Merged(disp.read, Next1, disp.put)
    /\ disp' = IF disp.put = "launching"
               THEN [disp EXCEPT !.at = "launch", !.read = NewBase] ELSE AfterModel
    /\ UNCHANGED <<ours, topic, sub, synth, procs, call, counters, holes>>

(* Claude: the sub-entry becomes the action's target and dispatch_ai starts  *)
(* the agent.                                                                *)
LaunchClaude ==
    /\ DispAt("launch") /\ Next1 = Claude
    /\ DispatchAI([disp.ra EXCEPT !.target = Entry1])
    /\ proc' = [proc EXCEPT ![Claude][round] = disp.e]
    /\ disp' = [disp EXCEPT !.at = "mark", !.agent = TRUE]
    /\ UNCHANGED <<entries, pid, synths, call, counters, holes>>

(* The others: research_multimodel.py looks its entry up, ends at once if a  *)
(* rerun has deleted it, and marks it active; then its pid is recorded.      *)
LaunchSubprocess ==
    /\ DispAt("launch") /\ Next1 # Claude
    /\ IF EntryLives
       THEN /\ proc' = [proc EXCEPT ![Next1][round] = disp.e]
            /\ sub' = [sub EXCEPT ![Next1].status = "active"]
       ELSE UNCHANGED <<proc, sub>>
    /\ disp' = [disp EXCEPT !.at = "pid"]
    /\ UNCHANGED <<ours, topic, base, synth, pid, synths, call, counters, holes>>

RecordPid ==
    /\ DispAt("pid")
    /\ pid' = [pid EXCEPT ![Next1] = round]
    /\ disp' = [disp EXCEPT !.at = "mark"]
    /\ UNCHANGED <<ours, entries, proc, synths, call, counters, holes>>

LaunchFails ==
    /\ DispAt("launch") /\ Fault
    /\ sub' = IF EntryLives THEN [sub EXCEPT ![Next1].status = "failed"] ELSE sub
    /\ disp' = [disp EXCEPT !.at = "read", !.put = "failed",
                            !.failed = @ \cup {Entry1}]
    /\ IF Next1 = Claude
       THEN DispatchAI([disp.ra EXCEPT !.target = Entry1])
       ELSE UNCHANGED ours
    /\ UNCHANGED <<topic, base, synth, procs, call, round, requests, holes>>

(* The sub-entry becomes active: for Claude whatever it says, for a          *)
(* subprocess unless it is terminal already.                                 *)
Overwrites(m) == m = Claude \/ ~ sub[m].status \in Terminal
MarkActive ==
    /\ DispAt("mark")
    /\ sub' = IF EntryLives /\ Overwrites(Next1)
              THEN [sub EXCEPT ![Next1].status = "active"] ELSE sub
    /\ disp' = [disp EXCEPT !.at = "read", !.put = "active"]
    /\ UNCHANGED <<ours, topic, base, synth, procs, call, counters, holes>>

(* After the loop: the failed launches complete, one by one.                *)
CompleteFailed ==
    /\ DispAt("fails") /\ Free(Agent)
    /\ IF disp.failed = {}
       THEN disp' = [disp EXCEPT !.at = "end"] /\ UNCHANGED call
       ELSE \E f \in disp.failed :
            /\ disp' = [disp EXCEPT !.failed = @ \ {f}]
            /\ Start(Agent, Completing(f[1], f[2], "failed", <<"txn">>))
    /\ UNCHANGED <<ours, entries, procs, counters, holes>>

(* No agent was launched: the target is dropped here.                       *)
EndDispatch ==
    /\ DispAt("end") /\ Free(Agent)
    /\ ra' = IF disp.agent THEN ra ELSE Without(disp.ra)
    /\ disp' = [disp EXCEPT !.at = "last"]
    /\ UNCHANGED <<running, working, entries, procs, call, counters, holes>>

(* update_last_run; without an agent execute_action also ends the running    *)
(* status.                                                                   *)
LastRun ==
    /\ DispAt("last")
    /\ ra' = Without(disp.ra)
    /\ running' = (running /\ disp.agent)
    /\ disp' = NoDispatch
    /\ UNCHANGED <<working, entries, procs, call, counters, holes>>

Dispatch ==
    \/ Execute \/ LaunchSynthTarget \/ MakeSub \/ ReadBase \/ WriteBase
    \/ LaunchClaude \/ LaunchSubprocess \/ RecordPid \/ LaunchFails \/ MarkActive
    \/ CompleteFailed \/ EndDispatch \/ LastRun

(* ----------------------------- completion ------------------------------- *)

EndedAsRun(ok) == IF ok THEN "completed" ELSE "failed"           \* mutant
Ended(ok) == IF ok THEN "done" ELSE "failed"

(* research_multimodel.py saves the entry it was started with and completes. *)
SubprocessEnds(m, r, ok) ==
    /\ m # Claude /\ proc[m][r] # 0
    /\ proc' = [proc EXCEPT ![m][r] = 0]
    /\ Start(<<m, r>>, Completing(m, proc[m][r], Ended(ok), <<"save", "txn">>))
    /\ UNCHANGED <<ours, entries, pid, synths, disp, counters, holes>>

(* agent_complete.py looks up what the agent worked on, ends the running     *)
(* status, drains, and if the entry has not been deleted saves and completes *)
(* it.  Its retry bookkeeping is in Wrangler.                                *)
WorkLives ==
    \/ working[1] = Claude /\ sub[Claude].id = working[2]
    \/ working[1] = "synthesis" /\ synth.id = working[2]
AfterAgent(ok) ==
    IF ~WorkLives THEN <<"drain">>
    ELSE IF working[1] = Claude THEN <<"drain", "save", "txn">>
    ELSE IF ok THEN <<"drain", "save", "publish">>
    ELSE <<"drain", "save", "txn", "publish">>

AgentComplete(c, ok) ==
    /\ Start(c, Completing(working[1], working[2], Ended(ok), AfterAgent(ok)))
    /\ running' = FALSE
    /\ UNCHANGED <<ra, working, entries, pid, disp, counters, holes>>

ClaudeEnds(r, ok) ==
    /\ proc[Claude][r] # 0
    /\ proc' = [proc EXCEPT ![Claude][r] = 0]
    /\ AgentComplete(<<Claude, r>>, ok)
    /\ UNCHANGED synths

SynthEnds(ok) ==
    /\ synths > 0
    /\ synths' = synths - 1
    /\ AgentComplete(Synth, ok)
    /\ UNCHANGED proc

Stale(m, e) == IF m \in ModelSet /\ sub[m].id # e THEN {"stale"} ELSE {}

(* A deleted entry is saved without a trace.                                *)
SaveEntry(c) ==
    /\ At(c, "save")
    /\ LET m == call[c].m
       IN  /\ sub' = IF m \in ModelSet /\ sub[m].id = call[c].e
                     THEN [sub EXCEPT ![m].status = call[c].as] ELSE sub
           /\ synth' = IF m = "synthesis" /\ synth.id = call[c].e
                       THEN [synth EXCEPT !.status = call[c].as] ELSE synth
    /\ Done(c)
    /\ holes' = holes \cup Crossed(c)
    /\ UNCHANGED <<ours, topic, base, procs, disp, counters>>

(* research_model_complete: the pid row goes, the model's status is recorded *)
(* under the row lock, and if every model with an entry_id is terminal the   *)
(* thread goes on to trigger the synthesis.                                  *)
Recorded(m, as) ==
    IF m \in ModelSet THEN [base EXCEPT !.status[m] = as] ELSE base
SomeTerminal(b) == \E m \in b.ids : b.status[m] \in Terminal     \* mutant
AllTerminal(b) == b.ids # {} /\ \A m \in b.ids : b.status[m] \in Terminal

Complete(c) ==
    /\ At(c, "txn")
    /\ LET m == call[c].m
       IN  /\ pid' = IF m \in ModelSet THEN [pid EXCEPT ![m] = 0] ELSE pid
           /\ base' = Recorded(m, call[c].as)
    /\ Do(c, IF AllTerminal(base') /\ ~base'.triggered THEN <<"trigger">> ELSE <<>>,
          Kept(c))
    /\ holes' = holes \cup Crossed(c) \cup Stale(call[c].m, call[c].e)
    /\ UNCHANGED <<ours, topic, sub, synth, proc, synths, disp, counters>>

(* ... where it looks again under the row lock.                              *)
StillUntriggered == ~base.triggered

Trigger(c) ==
    /\ At(c, "trigger")
    /\ IF StillUntriggered
       THEN /\ base' = [base EXCEPT !.triggered = TRUE]
            /\ Do(c, <<"enqueue", "drain">>,
                  [Kept(c) EXCEPT !.item = Item("synthesize", {})])
       ELSE Done(c) /\ UNCHANGED base
    /\ UNCHANGED <<ours, topic, sub, synth, procs, disp, counters, holes>>

(* A synthesis is complete: the base entry's status is its own.              *)
Publish(c) ==
    /\ At(c, "publish")
    /\ topic' = call[c].as
    /\ Done(c)
    /\ UNCHANGED <<ours, base, sub, synth, procs, disp, counters, holes>>

(* ------------------------- repair and failure --------------------------- *)

(* A process dies without another word.  Its entry may be saved already.     *)
ModelDies(m, r) ==
    /\ Alive(m, r) /\ Fault
    /\ proc' = [proc EXCEPT ![m][r] = 0]
    /\ call' = [call EXCEPT ![<<m, r>>] = NoCall]
    /\ holes' = IF Free(<<m, r>>) THEN holes ELSE holes \cup {"crash"}
    /\ UNCHANGED <<ours, entries, pid, synths, disp, round, requests>>

SynthDies ==
    /\ synths > 0 /\ Fault
    /\ synths' = synths - 1
    /\ holes' = holes \cup {"crash"}
    /\ UNCHANGED <<ours, entries, proc, pid, disp, call, round, requests>>

(* The healers leave a launch alone that is less than                        *)
(* LOCAL_API_LAUNCH_GRACE_SECONDS old; a dispatch is over by then.           *)
Settled == DispAt("idle")

(* Entries the healers look at.                                             *)
Working(m) == sub[m].status \in {"launching", "active"}

(* _mark_research_model_failed.                                             *)
OnlyMarks(m, e) == Completing(m, e, "failed", <<"save">>)        \* mutant
MarkFailed(m, e) == Completing(m, e, "failed", <<"save", "txn">>)

(* heal_research_subprocess_state, over the pid rows: a dead process's row   *)
(* goes, with the completion of its entry or by itself.                      *)
HealPid(c, m) ==
    /\ Settled /\ Free(c)
    /\ pid[m] # 0 /\ ~Alive(m, pid[m])
    /\ IF Working(m)
       THEN Start(c, MarkFailed(m, sub[m].id)) /\ UNCHANGED pid
       ELSE pid' = [pid EXCEPT ![m] = 0] /\ UNCHANGED call
    /\ UNCHANGED <<ours, entries, proc, synths, disp, counters, holes>>

(* ... and over the entries, listed before any of them is looked at.         *)
HealList(c, m) ==
    /\ Settled
    /\ m # Claude /\ Working(m)
    /\ Start(c, Completing(m, sub[m].id, "failed", <<"healmark">>))
    /\ UNCHANGED <<ours, entries, procs, disp, counters, holes>>

HasLivePidUnread(m) == FALSE                \* mutant: the row is not read
HasLivePid(m) == pid[m] # 0 /\ Alive(m, pid[m])

HealMark(c) ==
    /\ At(c, "healmark")
    /\ Do(c, IF HasLivePid(call[c].m) THEN <<>> ELSE <<"save", "txn">>, call[c])
    /\ UNCHANGED <<ours, entries, procs, disp, counters, holes>>

(* _check_agent_health: the agent is marked running and no agent lives.      *)
AgentGone == /\ \A r \in Rounds : ~Alive(Claude, r)
             /\ synths = 0 /\ Free(Synth)
HealAgent ==
    /\ Settled /\ Free(Agent) /\ running /\ AgentGone
    /\ running' = FALSE
    /\ IF working[1] = Claude /\ WorkLives /\ sub[Claude].status = "active"
       THEN Start(Agent, MarkFailed(Claude, working[2]))
       ELSE UNCHANGED call
    /\ UNCHANGED <<ra, working, entries, procs, disp, counters, holes>>

(* reconcile_stale_next_target.                                              *)
StaleTarget ==
    \/ ra.target = Topic /\ topic \in Terminal
    \/ /\ ra.target[1] = "synthesis"
       /\ ra.target # Synthesis(synth.id) \/ synth.status \in Terminal
Unpin ==
    /\ StaleTarget /\ ~running
    /\ ra' = Without(ra)
    /\ Start(Cron, [NoCall EXCEPT !.todo = <<"drain">>])
    /\ UNCHANGED <<running, working, entries, procs, disp, counters, holes>>

(* reconcile_orphan_bases.                                                   *)
Reconcile ==
    /\ topic = "active" /\ AllTerminal(base) /\ Free(Cron)
    /\ \/ /\ synth = NoEntry
          /\ Start(Cron, [NoCall EXCEPT !.todo = <<"enqueue", "drain">>,
                                        !.item = Item("synthesize", {})])
          /\ UNCHANGED topic
       \/ /\ synth.status \in Terminal
          /\ topic' = synth.status
          /\ UNCHANGED call
    /\ UNCHANGED <<ours, base, sub, synth, procs, disp, counters, holes>>

(* --------------------------- specification ------------------------------ *)

CallStep(c) ==
    \/ Enqueue(c) \/ Drain(c) \/ Pop(c)
    \/ DispatchRun(c) \/ DispatchRerun(c)
    \/ DispatchSynthesize(c) \/ LaunchSynthesis(c)
    \/ SaveEntry(c) \/ Complete(c) \/ Trigger(c) \/ Publish(c)
    \/ HealMark(c)

Heal(c) == \E m \in ModelSet : HealPid(c, m) \/ HealList(c, m)

Ends(m, r, ok) ==
    \/ SubprocessEnds(m, r, ok)
    \/ m = Claude /\ ClaudeEnds(r, ok)

Next ==
    \/ \E c \in Callers : CallStep(c) /\ Turn(c)
    \/ \E item \in Items : Request(item) /\ Turn(Web)
    \/ (ListDue \/ Dispatch \/ HealAgent) /\ Turn(Agent)
    \/ \E c \in Healers : Heal(c) /\ Turn(c)
    \/ (Unpin \/ Reconcile) /\ Turn(Cron)
    \/ \E m \in ModelSet, r \in Rounds, ok \in BOOLEAN :
          Ends(m, r, ok) /\ Turn(<<m, r>>)
    \/ \E ok \in BOOLEAN : SynthEnds(ok) /\ Turn(Synth)
    \/ \E m \in ModelSet, r \in Rounds : ModelDies(m, r) /\ Turn(<<m, r>>)
    \/ SynthDies /\ Turn(Synth)

Spec == Init /\ [][Next]_vars

(* Fairness: the processes go on, the action agent keeps looping over its    *)
(* due actions and its watchdogs, cron keeps running the reconciler, and the *)
(* models end, by their timeouts if not before.  Faults, requests and the    *)
(* web's healing need not happen.                                           *)
Fairness ==
    /\ SF_vars(\E c \in Callers \ Healers : CallStep(c) /\ Turn(c))
    /\ \A c \in Healers : SF_vars(CallStep(c) /\ Turn(c))
    /\ SF_vars((ListDue \/ Dispatch \/ HealAgent) /\ Turn(Agent))
    /\ SF_vars(Heal(Agent) /\ Turn(Agent))
    /\ SF_vars((Unpin \/ Reconcile) /\ Turn(Cron))
    /\ SF_vars(\/ \E ok \in BOOLEAN, m \in ModelSet, r \in Rounds :
                     Ends(m, r, ok) /\ Turn(<<m, r>>)
               \/ \E ok \in BOOLEAN : SynthEnds(ok) /\ Turn(Synth))

FairSpec == Spec /\ Fairness

(* --------------------------- properties --------------------------------- *)

Agents == Cardinality({r \in Rounds : proc[Claude][r] # 0}) + synths

(* There is at most one research agent and while there is one the status is  *)
(* 'running': is_running and next_target_entry_id together keep every thread *)
(* that drains, and the action agent, from launching a second one, unless    *)
(* two of them pass these checks before either has acted on them.            *)
OneAgent ==
    "overlap" \in holes \/ (Agents <= 1 /\ (Agents = 1 => running))

(* A queued request leaves pending_runs by being popped for its dispatch,    *)
(* or inside a dispatch, whose saves of the whole action put back the queue   *)
(* as it was before.                                                         *)
Lists(queue, item) == \E i \in DOMAIN queue : queue[i] = item
QueueKept ==
    [][\A item \in Items :
         Lists(ra.queue, item) /\ ~Lists(ra.queue', item)
           => \/ Head(ra.queue) = item /\ \E c \in Callers : At(c, "pop") /\ At(c, item.kind)'
              \/ ~DispAt("idle")
              \/ \E c \in Callers : At(c, "launch")]_vars

(* The synthesis is triggered when no model is at work any more: the last of *)
(* them to complete sees every other one's status, whatever order they end   *)
(* in and whoever completes them, unless it completed in the middle of a      *)
(* dispatch, or for an entry that a rerun had replaced, or a drain put back   *)
(* a base entry that it had read before another drain or dispatch.           *)
Triggers == \E c \in Callers : At(c, "trigger") /\ At(c, "enqueue")'
SynthesisWaits ==
    [][Triggers => \/ \A m \in ModelSet : ~Working(m)
                   \/ holes \cap {"crossed", "stale", "overlap"} # {}]_vars

(* The healers mark an entry failed only when the process that writes it is  *)
(* gone: a live process keeps its pid row from its launch to its completion,  *)
(* unless the process of a replaced entry completes and removes it, or a      *)
(* drain puts back a base entry it read before another drain or dispatch, and *)
(* the next dispatch starts a second process for an entry that has one.       *)
Marks(c, m) == call[c].m = m /\ At(c, "save") /\ call[c].e = sub[m].id
LiveSpared ==
    [][\A c \in Healers, m \in ModelSet :
         ~Marks(c, m) /\ Marks(c, m)' /\ sub[m].id # 0
           => \/ \A r \in Rounds : proc[m][r] # sub[m].id
              \/ holes \cap {"crossed", "stale", "overlap"} # {}]_vars

(* A topic that is being researched is done or failed in the end, whatever   *)
(* order its models end in, when launches fail, processes are killed and      *)
(* models are rerun: the healers and the reconciler bring it there, unless a  *)
(* process dies in the middle of its completion, the synthesis agent dies, or *)
(* a dispatch has undone a completion.                                       *)
Finishes == topic = "active" ~> topic \in Terminal \/ holes \cap {"crash", "crossed"} # {}
=============================================================================
