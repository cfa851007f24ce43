------------------------------ MODULE ActionAgent ------------------------------
(***************************************************************************)
(* The daemon of the actions the wrangler does not own                     *)
(* (scripts/action_agent.py, docs/action-agent.md): one thread that serves *)
(* request flags, runs what is due and sleeps; the AI agents it launches   *)
(* and that complete on their own; the health check that clears a status   *)
(* nobody will clear; the backfill of assessments, one script at a time;   *)
(* and the web pages and tools that ask for runs, aborts and restarts.     *)
(*                                                                         *)
(* An action's schedule is a value of its entry's data, which everybody    *)
(* reads and saves whole; one moment of the day stands for its times and   *)
(* weekday.  Journal, prompts, flood detection, Capcom and the research    *)
(* dispatch (Research) are left out.                                       *)
(***************************************************************************)
EXTENDS Integers, FiniteSets, FiniteSetsExt

CONSTANTS
    Actions,
    Ai,         \* those with an ai_prompt; the others are mechanical
    Timed,      \* those with scheduled_time; the others have an interval
    Assess,     \* the action whose script is the assessment
    DayLen,     \* length of a day
    Moment,     \* scheduled_time, a time of the day
    Interval,   \* interval_hours
    MaxRetries, \* MAX_RETRIES of agent_complete.py
    MaxRuns,    \* runs of one action in half an hour that are a runaway
    Checks,     \* checks of a dead agent before its status is cleared
    Dialog,     \* dates with dialog; dates count down to 0
    Slots,      \* bound on the agents, and on the scripts, at once
    Pending,    \* bound on the requests at the start
    MaxEvents,  \* bound on requests and faults
    MaxTime,    \* bound on the clock
    None

VARIABLES
    now,        \* time.time(), in parts of a day
    action,     \* data of the action entries
    status,     \* agent_<action>_status; "running" with the time since the launch
                \* or the last activity, and "over" for idle, completed and failed
    found,      \* agent_<action>_process_alive is '0', which pages show of agents
    stale,      \* agent_<action>_stale_count
    flags,      \* requests of sysconfig: wake, restart, kill, rerun
    backfill,   \* assessment_backfill_all
    daemon, runs,
    agent,      \* local agents and their agent_complete.py
    script,     \* assessment scripts in the background
    form,       \* a run_action between its read and its save
    events,
    wanted,     \* history: actions asked for and not begun since
    excused,    \* history: actions whose last run failed or was cut short, or
                \* whose data was saved over a change since that run
    ran,        \* history: when an action was begun last
    loose,      \* history: actions whose status was cleared over a doer
    launched,   \* history: how often the backfill launched a date
    skipped     \* history: dates lost by a crash of the daemon

schedule == <<action, wanted, excused, ran>>
marks == <<status, found, stale, loose>>
requests == <<flags, backfill, launched, skipped>>
doers == <<agent, script>>
vars == <<now, schedule, marks, requests, daemon, runs, doers, form, events>>

Dates == 0..Max(Dialog)
Data == [sched : 0..(DayLen - 1), config : 0..(DayLen - 1) \cup {None},
         last : 0..MaxTime, retry : 0..MaxTime \cup {None}, count : 0..MaxRetries]
Copies == [a : Actions, data : Data]
AgentState == [a : Ai, at : {"works", "write"}, ok : BOOLEAN, data : Data \cup {None}]

ASSUME ActionAgentAssumption ==
    /\ Ai \subseteq Actions /\ Timed \subseteq Actions /\ Assess \in Actions \ Ai
    /\ DayLen \in Nat \ {0} /\ Moment \in 0..(DayLen - 1) /\ Interval \in Nat
    /\ MaxTime \in Nat /\ DayLen <= MaxTime
    /\ {MaxRetries, MaxEvents} \subseteq Nat /\ {MaxRuns, Checks} \subseteq Nat \ {0}
    /\ Slots \subseteq Nat
    /\ Dialog \subseteq Nat \ {0} /\ \E last \in Dialog : \A d \in Dialog : d <= last
    /\ None \notin Nat /\ None \notin Copies /\ None \notin AgentState

TypeOK ==
    /\ now \in DayLen..MaxTime
    /\ action \in [Actions -> Data]
    /\ status \in [Actions -> {"over", "young", "grown", "old"}]
    /\ found \in [Ai -> BOOLEAN]
    /\ stale \in [Actions -> 0..(Checks - 1)]
    /\ flags \subseteq {"wake", "restart", "kill", "rerun"}
    /\ backfill \in Dates \cup {None}
    /\ daemon.at \in {"down", "requests", "backfill", "launch", "due", "run", "exec",
                      "save", "pending", "sleep"}
    /\ daemon.todo \subseteq Copies
    /\ daemon.cur \in Copies \cup {None}
    /\ daemon.date \in Dates \cup {None}
    /\ runs \in [Actions -> 0..MaxRuns]
    /\ \A s \in Slots :
        /\ agent[s] \in AgentState \cup {None}
        /\ script[s] \in {None, "watched", "loose"}
    /\ form \in Copies \cup {None}
    /\ events \in 0..MaxEvents
    /\ {wanted, excused, loose} \subseteq SUBSET Actions
    /\ ran \in [Actions -> 0..MaxTime]
    /\ launched \in [Dialog -> Nat] /\ skipped \subseteq Dialog

Down == [at |-> "down", todo |-> {}, cur |-> None, date |-> None]

Event == events < MaxEvents /\ events' = events + 1

(* Half an hour has gone by too: the log of runs is emptied.                 *)
Tick ==
    /\ now < MaxTime
    /\ now' = now + 1
    /\ runs' = [a \in Actions |-> 0]
    /\ UNCHANGED <<schedule, marks, requests, daemon, doers, form, events>>

Busy(a) == status[a] # "over"

Grow(a) ==
    /\ status[a] \in {"young", "grown"}
    /\ status' = [status EXCEPT ![a] = IF @ = "young" THEN "grown" ELSE "old"]
    /\ UNCHANGED <<now, schedule, found, stale, loose, requests, daemon, runs, doers, form,
                   events>>

(* ---------------------------- the schedule ------------------------------ *)

NextDue(a, data) ==
    LET today == now - (now % DayLen) + data.sched
    IN  IF data.retry # None THEN data.retry
        ELSE IF a \notin Timed THEN data.last + Interval
        ELSE IF today > data.last THEN today ELSE today + DayLen

Due(a) == ~Busy(a) /\ NextDue(a, action[a]) <= now

(* update_last_run stamps the copy of the data the run began with, and the  *)
(* time of a forced run gives way to the one saved with it.                 *)
Stamped(copy, clear) ==
    [copy.data EXCEPT !.last = now,
                      !.retry = IF clear THEN None ELSE @,
                      !.count = IF clear THEN 0 ELSE @,
                      !.sched = IF copy.data.config # None THEN copy.data.config ELSE @,
                      !.config = None]

(* What a save of a copy leaves of the changes made since it was read.       *)
Over(copy) == IF action[copy.a] # copy.data THEN {copy.a} ELSE {}
Put(copy, data) == action' = [action EXCEPT ![copy.a] = data]

(* ------------------------------- run_action ------------------------------ *)

ForcedTwice(a, data) ==                  \* mutant: the saved time is replaced
    IF a \notin Timed THEN [data EXCEPT !.last = 0]
    ELSE [data EXCEPT !.config = data.sched, !.sched = now % DayLen, !.last = 0]
Forced(a, data) ==
    IF a \notin Timed THEN [data EXCEPT !.last = 0]
    ELSE [data EXCEPT !.config = IF @ = None THEN data.sched ELSE @,
                      !.sched = now % DayLen, !.last = 0]

(* The daemon is about to be started; a run may have been asked for and a    *)
(* backfill may be under way.                                                *)
Fresh == [sched |-> Moment, config |-> None, last |-> DayLen - 1, retry |-> None, count |-> 0]

Init ==
    /\ now = DayLen
    /\ wanted \in SUBSET Actions
    /\ action = [a \in Actions |-> IF a \in wanted THEN Forced(a, Fresh) ELSE Fresh]
    /\ flags = IF wanted = {} THEN {} ELSE {"wake"}
    /\ backfill \in {None, Max(Dialog)}
    /\ Cardinality(wanted) + (IF backfill = None THEN 0 ELSE 1) <= Pending
    /\ status = [a \in Actions |-> "over"]
    /\ found = [a \in Ai |-> FALSE]
    /\ stale = [a \in Actions |-> 0]
    /\ daemon = Down
    /\ runs = [a \in Actions |-> 0]
    /\ agent = [s \in Slots |-> None] /\ script = [s \in Slots |-> None]
    /\ form = None /\ events = 0
    /\ excused = {} /\ loose = {}
    /\ ran = [a \in Actions |-> DayLen - 1]
    /\ launched = [d \in Dialog |-> 0] /\ skipped = {}

RunAction(a) ==
    /\ form = None /\ Event
    /\ form' = [a |-> a, data |-> action[a]]
    /\ UNCHANGED <<now, schedule, marks, requests, daemon, runs, doers>>

Queue ==
    /\ form # None
    /\ Put(form, Forced(form.a, form.data))
    /\ excused' = excused \cup Over(form)
    /\ wanted' = wanted \cup {form.a}
    /\ flags' = flags \cup {"wake"}
    /\ form' = None
    /\ UNCHANGED <<now, ran, marks, backfill, launched, skipped, daemon, runs, doers, events>>

(* ---------------------------- other requests ----------------------------- *)

Running(a) == {s \in Slots : agent[s] # None /\ agent[s].a = a /\ agent[s].at = "works"}
Scripts == {s \in Slots : script[s] # None}
Executing(a) == daemon.at = "exec" /\ daemon.cur.a = a

(* A status that is cleared beside a living doer lets another one begin.     *)
Clear(as) ==
    /\ status' = [a \in Actions |-> IF a \in as THEN "over" ELSE status[a]]
    /\ loose' = loose \cup {a \in as : \/ Running(a) # {}
                                       \/ Executing(a)
                                       \/ a = Assess /\ Scripts # {}}

Abort(a) ==
    /\ a \in Ai /\ Busy(a)
    /\ Event
    /\ Clear({a})
    /\ flags' = flags \cup {"kill"}
    /\ excused' = excused \cup {a}
    /\ UNCHANGED <<now, action, wanted, ran, found, stale, backfill, launched, skipped,
                   daemon, runs, doers, form>>

(* A page that shows the agent believes the last finding, however old.       *)
HealStaleAgent(a) ==
    /\ a \in Ai /\ status[a] \in {"grown", "old"} /\ found[a]
    /\ Clear({a})
    /\ excused' = excused \cup {a}
    /\ UNCHANGED <<now, action, wanted, ran, found, stale, requests, daemon, runs, doers,
                   form, events>>

(* A restart, or the assessment of one date again.                           *)
Ask(request) ==
    /\ Event
    /\ flags' = flags \cup (IF request = "rerun" THEN {"rerun", "wake"} ELSE {request})
    /\ UNCHANGED <<now, schedule, marks, backfill, launched, skipped, daemon, runs, doers,
                   form>>

AskBackfill ==
    /\ backfill = None /\ launched = [d \in Dialog |-> 0]
    /\ Event
    /\ backfill' = Max(Dialog)
    /\ UNCHANGED <<now, schedule, marks, flags, launched, skipped, daemon, runs, doers, form>>

(* ------------------------------ the daemon ------------------------------- *)

Goes(from, to) == daemon.at = from /\ daemon' = [daemon EXCEPT !.at = to]
Launched(a) == status' = [status EXCEPT ![a] = "young"]

Start ==
    /\ Goes("down", "requests")
    /\ runs' = [a \in Actions |-> 0]
    /\ UNCHANGED <<now, schedule, marks, requests, doers, form, events>>

(* _check_assessment_rerun_for looks at no status.                           *)
Rerun ==
    /\ Goes("requests", "backfill")
    /\ "rerun" \in flags /\ flags' = flags \ {"rerun"}
    /\ Launched(Assess)
    /\ loose' = loose \cup {a \in {Assess} : Scripts # {}}
    /\ Scripts # Slots /\ script' = [script EXCEPT ![Min(Slots \ Scripts)] = "watched"]
    /\ UNCHANGED <<now, schedule, found, stale, backfill, launched, skipped, runs, agent,
                   form, events>>

(* No rerun was asked for, or it was launched a moment ago.                  *)
PastRerun ==
    \/ daemon.at = "backfill"
    \/ daemon.at = "requests" /\ "rerun" \notin flags

IdleAlways == TRUE                       \* mutant: no look at the status
Idle == ~Busy(Assess)
Dialogs == IF backfill = None THEN {} ELSE {d \in Dialog : d <= backfill}

(* The flag moves on before the launch, which survives a restart.            *)
TakeDate(next) ==
    /\ PastRerun /\ Idle /\ Dialogs # {}
    /\ daemon' = [daemon EXCEPT !.at = "launch", !.date = Max(Dialogs)]
    /\ backfill' = next
    /\ UNCHANGED <<now, schedule, marks, flags, launched, skipped, runs, doers, form, events>>
AdvanceNot == TakeDate(backfill)         \* mutant: the flag stays
Advance == TakeDate(Max(Dialogs) - 1)

LaunchBackfill ==
    /\ daemon.at = "launch"
    /\ daemon' = [daemon EXCEPT !.at = "due", !.date = None]
    /\ Launched(Assess)
    /\ launched' = [launched EXCEPT ![daemon.date] = @ + 1]
    /\ Scripts # Slots /\ script' = [script EXCEPT ![Min(Slots \ Scripts)] = "loose"]
    /\ UNCHANGED <<now, schedule, found, stale, loose, flags, backfill, skipped, runs, agent,
                   form, events>>

(* Before it lists, a pass ends a backfill that has no date left.            *)
ListDue ==
    /\ \/ daemon.at = "due"
       \/ PastRerun /\ (~Idle \/ Dialogs = {})
    /\ backfill' = IF PastRerun /\ Idle THEN None ELSE backfill
    /\ daemon' = [daemon EXCEPT !.at = "run",
                                !.todo = {[a |-> a, data |-> action[a]] : a \in {b \in Actions : Due(b)}}]
    /\ UNCHANGED <<now, schedule, marks, flags, launched, skipped, runs, doers, form, events>>

Begin(copy) ==
    /\ daemon.at = "run" /\ copy \in daemon.todo
    /\ runs[copy.a] < MaxRuns
    /\ daemon' = [daemon EXCEPT !.at = "exec", !.todo = @ \ {copy}, !.cur = copy]
    /\ Launched(copy.a)
    /\ wanted' = wanted \ {copy.a}
    /\ excused' = excused \ {copy.a}
    /\ ran' = [ran EXCEPT ![copy.a] = now]
    /\ UNCHANGED <<now, action, found, stale, loose, requests, runs, doers, form, events>>

(* An action that ran too often is stamped instead, until its next moment.   *)
Runaway(copy) ==
    /\ daemon.at = "run" /\ copy \in daemon.todo
    /\ runs[copy.a] = MaxRuns
    /\ daemon' = [daemon EXCEPT !.todo = @ \ {copy}]
    /\ Put(copy, Stamped(copy, TRUE))
    /\ excused' = excused \cup Over(copy)
    /\ runs' = [runs EXCEPT ![copy.a] = 0]
    /\ wanted' = wanted \ {copy.a}
    /\ UNCHANGED <<now, ran, marks, requests, doers, form, events>>

(* What the finally of execute_action does: agent_complete.py clears the     *)
(* status of the others.                                                     *)
Leave(a) == IF a \in Ai THEN status ELSE [status EXCEPT ![a] = "over"]

(* The journal entry cannot be made, or a step raises: nothing is stamped,   *)
(* and a run that raised is not in the log.                                  *)
Fails(logged) ==
    /\ daemon.at = "exec"
    /\ Event
    /\ daemon' = [daemon EXCEPT !.at = "run", !.cur = None]
    /\ runs' = [runs EXCEPT ![daemon.cur.a] = IF logged THEN @ + 1 ELSE @]
    /\ status' = Leave(daemon.cur.a)
    /\ excused' = excused \cup {daemon.cur.a}
    /\ UNCHANGED <<now, action, wanted, ran, found, stale, loose, requests, doers, form>>

(* The script, or the launch of the agent, fails: the run is stamped.        *)
StepFails ==
    /\ Goes("exec", "save")
    /\ Event
    /\ excused' = excused \cup {daemon.cur.a}
    /\ UNCHANGED <<now, action, wanted, ran, marks, requests, runs, doers, form>>

Mechanical ==
    /\ daemon.at = "exec" /\ daemon.cur.a \notin Ai
    /\ Goes("exec", "save")
    /\ UNCHANGED <<now, schedule, marks, requests, runs, doers, form, events>>

DispatchAi ==
    /\ daemon.at = "exec" /\ daemon.cur.a \in Ai
    /\ Goes("exec", "pending")
    /\ Launched(daemon.cur.a)
    /\ LET free == {s \in Slots : agent[s] = None}
       IN  free # {} /\ agent' = [agent EXCEPT ![Min(free)] =
               [a |-> daemon.cur.a, at |-> "works", ok |-> TRUE, data |-> None]]
    /\ UNCHANGED <<now, schedule, found, stale, loose, requests, runs, script, form, events>>

(* The retry state of an action whose agent works is the agent's to clear; a *)
(* request made during the run is lost.                                      *)
UpdateLastRun ==
    /\ daemon.at \in {"save", "pending"}
    /\ daemon' = [daemon EXCEPT !.at = "run", !.cur = None]
    /\ Put(daemon.cur, Stamped(daemon.cur, daemon.at = "save"))
    /\ excused' = excused \cup Over(daemon.cur)
    /\ wanted' = wanted \ {daemon.cur.a}
    /\ runs' = [runs EXCEPT ![daemon.cur.a] = @ + 1]
    /\ status' = Leave(daemon.cur.a)
    /\ UNCHANGED <<now, ran, found, stale, loose, requests, doers, form, events>>

EndPass ==
    /\ Goes("run", "sleep")
    /\ daemon.todo = {} /\ "restart" \notin flags
    /\ UNCHANGED <<now, schedule, marks, requests, runs, doers, form, events>>

Restart ==
    /\ daemon.at = "run" /\ daemon.todo = {} /\ "restart" \in flags
    /\ daemon' = Down
    /\ flags' = flags \ {"restart"}
    /\ UNCHANGED <<now, schedule, marks, backfill, launched, skipped, runs, doers, form, events>>

(* -------------------------------- asleep --------------------------------- *)

(* _check_kill_request: every local agent is signalled, with the shell that  *)
(* would have run agent_complete.py after it.                                *)
Alive == {s \in Slots : agent[s] # None /\ agent[s].at = "works"}
Killed == IF "kill" \in flags THEN Alive ELSE {}

(* _check_agent_health: a status whose agent was silent for its timeout is   *)
(* cleared after some checks in a row that find no agent at all.             *)
Dead(a) == status[a] = "old" /\ Alive = Killed
ClearedLate == {a \in Actions : Dead(a) /\ stale[a] = Checks}   \* mutant: one check more
Cleared == {a \in Actions : Dead(a) /\ stale[a] = Checks - 1}
ChecksNot == UNCHANGED marks             \* mutant: no recovery
CheckAgentHealth ==
    /\ found' = [a \in Ai |-> IF Busy(a) THEN Alive = Killed ELSE found[a]]
    /\ stale' = [a \in Actions |->
                   IF ~Busy(a) THEN stale[a]
                   ELSE IF Dead(a) /\ a \notin Cleared THEN stale[a] + 1 ELSE 0]
    /\ Clear(Cleared)

(* One turn of the loop of sleep_until_next: the kill request, the flags     *)
(* that wake, the health check; then the next turn, or the time is over.     *)
CheckKillRequest ==
    /\ daemon.at = "sleep"
    /\ agent' = [s \in Slots |-> IF s \in Killed THEN None ELSE agent[s]]

Poll(over) ==
    /\ CheckKillRequest
    /\ flags \cap {"wake", "restart"} = {}
    /\ daemon' = [daemon EXCEPT !.at = IF over THEN "requests" ELSE "sleep"]
    /\ flags' = flags \ {"kill"}
    /\ CheckAgentHealth
    /\ excused' = excused \cup Cleared \cup {agent[s].a : s \in Killed}
    /\ UNCHANGED <<now, action, wanted, ran, backfill, launched, skipped, runs, script, form,
                   events>>

Wake ==
    /\ CheckKillRequest
    /\ flags \cap {"wake", "restart"} # {}
    /\ daemon' = [daemon EXCEPT !.at = "requests"]
    /\ flags' = flags \ {"kill", "wake"}
    /\ excused' = excused \cup {agent[s].a : s \in Killed}
    /\ UNCHANGED <<now, action, wanted, ran, marks, backfill, launched, skipped, runs, script,
                   form, events>>

(* The daemon is killed or shut down; what it started goes on.  A date taken *)
(* from the flag and not launched is not launched later.                     *)
Crash ==
    /\ daemon.at # "down"
    /\ Event
    /\ daemon' = Down
    /\ script' = [s \in Slots |-> IF script[s] = None THEN None ELSE "loose"]
    /\ skipped' = IF daemon.at = "launch" THEN skipped \cup {daemon.date} ELSE skipped
    /\ excused' = IF daemon.cur = None THEN excused ELSE excused \cup {daemon.cur.a}
    /\ UNCHANGED <<now, action, wanted, ran, marks, flags, backfill, launched, runs, agent,
                   form>>

(* --------------------------- agents and scripts -------------------------- *)

(* agent_complete.py sets the status and reads the action; later it saves    *)
(* the retry state with the rest of the data it read.                        *)
AgentEnds(s, ok) ==
    LET a == agent[s].a
    IN  /\ s \in Alive
        /\ ok \/ events < MaxEvents
        /\ events' = IF ok THEN events ELSE events + 1
        /\ agent' = [agent EXCEPT ![s].at = "write", ![s].ok = ok, ![s].data = action[a]]
        /\ status' = [status EXCEPT ![a] = "over"]
        /\ loose' = IF Running(a) = {s} THEN loose ELSE loose \cup {a}
        /\ found' = [found EXCEPT ![a] = TRUE]
        /\ excused' = IF ok THEN excused ELSE excused \cup {a}
        /\ UNCHANGED <<now, action, wanted, ran, stale, requests, daemon, runs, script, form>>

RetryForever(data, ok) ==                \* mutant: nothing clears a retry
    IF ok THEN data ELSE [data EXCEPT !.retry = IF now < MaxTime THEN now + 1 ELSE now]
Settled(data, ok) ==
    IF ok \/ data.count = MaxRetries THEN [data EXCEPT !.retry = None, !.count = 0]
    ELSE [data EXCEPT !.retry = IF now < MaxTime THEN now + 1 ELSE now, !.count = @ + 1]

WriteAction(s) ==
    LET copy == [a |-> agent[s].a, data |-> agent[s].data]
        data == Settled(copy.data, agent[s].ok)
    IN  /\ agent[s] # None /\ agent[s].at = "write"
        /\ IF agent[s].ok /\ data = copy.data
           THEN UNCHANGED <<action, excused, wanted>>
           ELSE /\ Put(copy, data)
                /\ excused' = excused \cup Over(copy) \cup {a \in {copy.a} : ~agent[s].ok}
                /\ wanted' = wanted \ Over(copy)
        /\ agent' = [agent EXCEPT ![s] = None]
        /\ UNCHANGED <<now, ran, marks, requests, daemon, runs, script, form, events>>

AgentDies(s) ==
    /\ agent[s] # None
    /\ Event
    /\ excused' = excused \cup {agent[s].a}
    /\ agent' = [agent EXCEPT ![s] = None]
    /\ UNCHANGED <<now, action, wanted, ran, marks, requests, daemon, runs, script, form>>

(* The daemon watches a rerun and sets its status; the script of a backfill  *)
(* writes its own to action_status_<action>, which nobody reads, and wakes   *)
(* the daemon.                                                               *)
ScriptEnds(s) ==
    /\ script[s] # None
    /\ script' = [script EXCEPT ![s] = None]
    /\ IF script[s] = "watched"
       THEN /\ status' = [status EXCEPT ![Assess] = "over"]
            /\ loose' = IF Scripts = {s} /\ ~Executing(Assess) THEN loose ELSE loose \cup {Assess}
            /\ UNCHANGED flags
       ELSE UNCHANGED <<status, loose>> /\ flags' = flags \cup {"wake"}
    /\ UNCHANGED <<now, schedule, found, stale, backfill, launched, skipped, daemon, runs,
                   agent, form, events>>

(* ------------------------------- behaviours ------------------------------ *)

Pass ==
    \/ Rerun \/ Advance \/ LaunchBackfill \/ ListDue
    \/ \E copy \in daemon.todo : Begin(copy) \/ Runaway(copy)
    \/ Mechanical \/ DispatchAi \/ UpdateLastRun \/ EndPass \/ Restart \/ Wake

Next ==
    \/ Tick
    \/ \E a \in Actions :
        \/ Grow(a)
        \/ RunAction(a)
        \/ Abort(a)
        \/ HealStaleAgent(a)
    \/ Queue
    \/ \E request \in {"restart", "rerun"} : Ask(request)
    \/ AskBackfill
    \/ Start
    \/ Pass
    \/ \E over \in BOOLEAN : Poll(over)
    \/ \E logged \in BOOLEAN : Fails(logged)
    \/ StepFails
    \/ Crash
    \/ \E s \in Slots :
        \/ \E ok \in BOOLEAN : AgentEnds(s, ok)
        \/ WriteAction(s)
        \/ AgentDies(s)
        \/ ScriptEnds(s)

Spec == Init /\ [][Next]_vars

(* supervisord starts the daemon again, the daemon goes on and its sleep     *)
(* ends; and beside it time passes, a run_action is answered, agents and     *)
(* scripts end, as long as one of these is left to happen.                   *)
DaemonGoesOn == Start \/ Pass \/ Poll(TRUE)
OthersGoOn ==
    \/ Tick
    \/ \E a \in Actions : Grow(a)
    \/ Queue
    \/ \E s \in Slots : AgentEnds(s, TRUE) \/ WriteAction(s) \/ ScriptEnds(s)

FairSpec == Spec /\ WF_vars(DaemonGoesOn) /\ WF_vars(OthersGoOn)

(* ------------------------------- properties ------------------------------ *)

(* An action has one agent or script at work, unless its status was cleared  *)
(* beside a living one: by an abort, by a page that believed an old finding, *)
(* by a completion of another run, or over a script of a backfill.           *)
OneDoer ==
    \A a \in Actions \ loose :
        Cardinality(Running(a)) + (IF a = Assess THEN Cardinality(Scripts) ELSE 0)
            + (IF Executing(a) THEN 1 ELSE 0) <= 1

(* "No in-memory state. Fully restart-safe": a backfill launches a date once *)
(* and passes over none, but for one that a crash took before its launch.    *)
BackfillCovers ==
    \A d \in Dialog :
        /\ launched[d] <= 1
        /\ backfill # None /\ d > backfill =>
               \/ launched[d] = 1
               \/ d \in skipped
               \/ daemon.at = "launch" /\ daemon.date = d

(* An action runs when it is configured to.  Whoever saves which copy in    *)
(* which order, it never loses its configured time ("scheduled_time_config  *)
(* keeps the true original across repeated force-runs"); and a pass lists   *)
(* it as due only for a moment that has come since its last run, unless it  *)
(* was asked for, that run failed or was given up, somebody saved the data  *)
(* as read before a change, or the agent of a retry has said that it is     *)
(* done and the retry is still in the data.                                 *)
TimeKept ==
    \A a \in Timed :
        IF action[a].config = None THEN action[a].sched = Moment ELSE action[a].config = Moment
Settling(a) == \E s \in Slots : agent[s] # None /\ agent[s].a = a /\ agent[s].at = "write"
Come(a) ==
    IF a \in Timed
    THEN \E t \in (ran[a] + 1)..now : t % DayLen = Moment
    ELSE ran[a] + Interval <= now
ScheduleKept ==
    /\ []TimeKept
    /\ [][\A copy \in daemon'.todo \ daemon.todo :
            Come(copy.a) \/ copy.a \in wanted \cup excused \/ Settling(copy.a)]_vars

(* "auto-recovers running status left behind by hard-killed agents":         *)
(* whatever fails or is killed, no action is kept from running for ever.     *)
StatusEnds == \A a \in Actions : Busy(a) ~> ~Busy(a)

=============================================================================
