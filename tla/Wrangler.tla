------------------------------ MODULE Wrangler ------------------------------
(***************************************************************************)
(* Scheduled and on-demand execution (docs/wrangler.md): the roster claims *)
(* due actions, work is a durable row of wrangle_workers, an AI action's   *)
(* row is left running for a detached doer, agent_complete.py closes it    *)
(* and writes retry state onto the action, an abort kills the doer by the  *)
(* pid on its row, and a restarted wrangler reclaims the rows whose doer   *)
(* is dead.  Sources: tjai_app/wrangler.py, scripts/wrangler_agent.py,     *)
(* scripts/agent_complete.py and the schedule of tjai_app/action_runner.py. *)
(* The library wrangle_ai (bullpen, foreman, reclaim) is external.         *)
(***************************************************************************)
EXTENDS Integers, FiniteSets, FiniteSetsExt, Functions

CONSTANTS
    Actions,     \* kind=action entries with runner: wrangler
    Ai,          \* those with an ai_prompt; the others are mechanical
    After,       \* the action whose completion triggers one (or none)
    Moments,     \* scheduled_time: times of the day; {}: interval_hours
    DayLen,      \* length of a day
    Interval,    \* interval_hours
    MaxRetries,  \* MAX_RETRIES of agent_complete.py
    Backoff,     \* RETRY_BACKOFF_MINUTES
    Limit,       \* how many due actions one pass may claim
    Slots,       \* max_workers
    NumWorkers,  \* bound on the worker rows
    MaxFaults,   \* bound on crashes, killed doers and failed closes
    MaxTime      \* bound on the clock

ASSUME WranglerAssumption ==
    /\ IsFiniteSet(Actions) /\ Ai \subseteq Actions
    /\ DayLen \in Nat \ {0}
    /\ Moments \in [Actions -> SUBSET (0..(DayLen - 1))]
    /\ Interval \in Nat \ {0}
    /\ MaxRetries \in Nat
    /\ Backoff \in [0..MaxRetries -> Nat \ {0}]
    /\ {Limit, Slots, NumWorkers, MaxTime} \subseteq Nat \ {0}
    /\ MaxFaults \in Nat

Workers == 1..NumWorkers
Launches == 0..(MaxFaults + 1)     \* a row's launches; 0 is no pid: every
                                   \* launch but the first follows a fault

VARIABLES
    now,      \* time.time()
    action,   \* the schedule state in an action entry's data
    claimed,  \* Worker objects returned by claim_due, not yet in the bullpen
    row,      \* the rows of wrangle_workers
    handler,  \* the handler threads of the wrangler process
    doer,     \* the detached wrapper and agent of a row's n-th launch
    shown,    \* actions whose agent_<action>_status is running
    faults,   \* how many faults have happened
    firedAt,  \* history: when the clock last claimed an action
    failed,   \* history: actions with a failed run since that claim
    undone,   \* history: actions whose claim a completion wrote over
    orphaned  \* history: rows whose doer's pid was lost by a crash

history == <<firedAt, failed, undone, orphaned>>
vars == <<now, action, claimed, row, handler, doer, shown, faults, history>>

(* ------------------------------ types ----------------------------------- *)

Data == [lastRun : 0..MaxTime, retryAfter : Nat, retryCount : 0..MaxRetries]
NoData == [lastRun |-> 0, retryAfter |-> 0, retryCount |-> 0]

RowStates == {"none", "pending", "running", "done", "failed"}
NoRow == [status |-> "none", type |-> "run", action |-> "none", target |-> 0,
          launches |-> 0, pid |-> 0]
NoHandler == [at |-> "none", pid |-> 0]
NoDoer == [at |-> "none", ok |-> FALSE, read |-> NoData]

Row == [status : RowStates, type : {"run", "abort"}, action : Actions \cup {"none"},
        target : 0..NumWorkers, launches : Launches, pid : Launches]
HandlerState == [at : {"none", "run", "launched", "kill"}, pid : Launches]
DoerState == [at : {"none", "agent", "close", "read", "write", "chain", "stray", "gone"},
              ok : BOOLEAN, read : Data]

TypeOK ==
    /\ now \in 1..MaxTime
    /\ action \in [Actions -> Data]
    /\ claimed \subseteq Actions
    /\ row \in [Workers -> Row]
    /\ \A w \in Workers : row[w].status # "none" => row[w].action \in Actions
    /\ handler \in [Workers -> HandlerState]
    /\ doer \in [Workers -> [Launches \ {0} -> DoerState]]
    /\ shown \subseteq Actions
    /\ faults \in 0..MaxFaults
    /\ firedAt \in [Actions -> 0..MaxTime]
    /\ failed \subseteq Actions /\ undone \subseteq Actions
    /\ orphaned \subseteq Workers

Init ==
    /\ now = 1
    /\ action = [a \in Actions |-> NoData]
    /\ claimed = {}
    /\ row = [w \in Workers |-> NoRow]
    /\ handler = [w \in Workers |-> NoHandler]
    /\ doer = [w \in Workers |-> [n \in Launches \ {0} |-> NoDoer]]
    /\ shown = {}
    /\ faults = 0
    /\ firedAt = [a \in Actions |-> 0]
    /\ failed = {} /\ undone = {} /\ orphaned = {}

Tick == /\ now < MaxTime /\ now' = now + 1
        /\ UNCHANGED <<action, claimed, row, handler, doer, shown, faults, history>>

Fault == faults < MaxFaults /\ faults' = faults + 1

(* ---------------------------- the schedule ------------------------------ *)

Earliest(times) == CHOOSE t \in times : \A u \in times : t <= u
Today(a) == {now - (now % DayLen) + t : t \in Moments[a]}

(* get_next_scheduled_time: a pending retry first, then the earliest moment *)
(* of today that last_run has not consumed, then tomorrow's first.          *)
NextDue(a) ==
    LET ahead == {t \in Today(a) : t > action[a].lastRun}
    IN  IF action[a].retryAfter # 0 THEN action[a].retryAfter
        ELSE IF Moments[a] = {} THEN action[a].lastRun + Interval
        ELSE IF ahead # {} THEN Earliest(ahead)
        ELSE Earliest(Today(a)) + DayLen

(* claim_due skips the actions triggered after another one.                 *)
Due(a) == After[a] \notin Actions /\ NextDue(a) <= now

ClaimKeepingRetry(data) ==              \* mutant: retry_after not popped
    [data EXCEPT !.lastRun = now]
Claim(data) == [data EXCEPT !.lastRun = now, !.retryAfter = 0]

(* TjaiRoster.claim_due: one transaction stamps up to Limit due actions and *)
(* returns their workers, which the foreman then puts into the bullpen.     *)
RosterClaim ==
    /\ claimed = {}
    /\ \E due \in SUBSET {a \in Actions : Due(a)} :
        /\ due # {}
        /\ Cardinality(due) <= Limit
        /\ \/ Cardinality(due) = Limit
           \/ due = {a \in Actions : Due(a)}
        /\ action' = [a \in Actions |-> IF a \in due THEN Claim(action[a])
                                        ELSE action[a]]
        /\ claimed' = due
        /\ firedAt' = [a \in Actions |-> IF a \in due THEN now ELSE firedAt[a]]
        /\ failed' = failed \ due
        /\ undone' = undone \ due
    /\ UNCHANGED <<now, row, handler, doer, shown, faults, orphaned>>

(* ------------------------------ producers ------------------------------- *)

Rows == Cardinality({w \in Workers : row[w].status # "none"})

Insert(new) == /\ Rows < NumWorkers
               /\ row' = [row EXCEPT ![Rows + 1] = new]

PendingRun(a) == [NoRow EXCEPT !.status = "pending", !.action = a]

ForemanPut(a) ==
    /\ a \in claimed
    /\ claimed' = claimed \ {a}
    /\ Insert(PendingRun(a))
    /\ UNCHANGED <<now, action, handler, doer, shown, faults, history>>

(* enqueue_action: force-runs, reruns and backfills leave the schedule be.  *)
Enqueue(a) ==
    /\ Insert(PendingRun(a))
    /\ UNCHANGED <<now, action, claimed, handler, doer, shown, faults, history>>

RunningRows(a) ==
    {w \in Workers : row[w].status = "running" /\ row[w].action = a}

(* _abort_agent: for an action shown as running, an abort worker against    *)
(* the newest running row; without one the flag is for the action agent.    *)
RequestAbort(a) ==
    /\ a \in shown
    /\ shown' = shown \ {a}
    /\ IF RunningRows(a) = {} THEN UNCHANGED row
       ELSE Insert([NoRow EXCEPT !.status = "pending", !.type = "abort",
                                 !.action = a,
                                 !.target = Max(RunningRows(a))])
    /\ UNCHANGED <<now, action, claimed, handler, doer, faults, history>>

(* ------------------------- the wrangler process ------------------------- *)

(* key_fn: one handler at a time per action and per aborted worker.         *)
Key(w) == <<row[w].type, row[w].action, row[w].target>>
Busy == {w \in Workers : handler[w].at # "none"}

Take(w) ==
    /\ row[w].status = "pending"
    /\ Cardinality(Busy) < Slots
    /\ \A v \in Busy : Key(v) # Key(w)
    /\ row' = [row EXCEPT ![w].status = "running"]
    /\ handler' = [handler EXCEPT ![w].at = "run"]
    /\ UNCHANGED <<now, action, claimed, doer, shown, faults, history>>

Close(w, status) == [row EXCEPT ![w].status = status]
Return(w) == handler' = [handler EXCEPT ![w] = NoHandler]

(* A mechanical worker, and an AI worker whose journal or script step       *)
(* fails before the launch.                                                 *)
CanLaunch(w) == row[w].action \in Ai /\ row[w].launches + 1 \in Launches

HandlerEnds(w) ==
    /\ handler[w].at = "run" /\ row[w].type = "run"
    /\ \E status \in {"done", "failed"} :
        /\ row[w].action \in Ai => status = "failed" /\ CanLaunch(w)
        /\ row' = Close(w, status)
    /\ Return(w)
    /\ UNCHANGED <<now, action, claimed, doer, shown, faults, history>>

(* handle_ai_dispatch: dispatch_ai starts the agent in its own session,     *)
(* then record_doer_pid puts the pid on the row and the row is left alone.  *)
Launch(w) ==
    /\ handler[w].at = "run" /\ row[w].type = "run" /\ CanLaunch(w)
    /\ LET n == row[w].launches + 1
       IN  /\ row' = [row EXCEPT ![w].launches = n]
           /\ doer' = [doer EXCEPT ![w][n].at = "agent"]
           /\ handler' = [handler EXCEPT ![w] = [at |-> "launched", pid |-> n]]
    /\ shown' = shown \cup {row[w].action}
    /\ UNCHANGED <<now, action, claimed, faults, history>>

RecordedLauncher(w) ==                  \* mutant: the pid of a process that
    [row EXCEPT ![w].pid = 0]           \* exits once the agent is started
ClosedAtLaunch(w) ==                    \* mutant: DETACHED not returned
    [row EXCEPT ![w].pid = handler[w].pid, ![w].status = "done"]
Recorded(w) == [row EXCEPT ![w].pid = handler[w].pid]

RecordDoerPid(w) ==
    /\ handler[w].at = "launched"
    /\ row' = Recorded(w)
    /\ Return(w)
    /\ UNCHANGED <<now, action, claimed, doer, shown, faults, history>>

(* handle_abort reads the target's row once ...                             *)
AbortReads(w) ==
    /\ handler[w].at = "run" /\ row[w].type = "abort"
    /\ LET v == row[w].target
       IN  IF row[v].status # "running"
           THEN row' = Close(w, "done") /\ Return(w)
           ELSE /\ handler' = [handler EXCEPT ![w] = [at |-> "kill",
                                                      pid |-> row[v].pid]]
                /\ UNCHANGED row
    /\ UNCHANGED <<now, action, claimed, doer, shown, faults, history>>

(* The pid is the shell wrapper that runs the agent and then                *)
(* agent_complete.py; a stray is an agent whose wrapper is dead.            *)
Alive(w, n) == doer[w][n].at \notin {"none", "stray", "gone"}
Ended(at) == [NoDoer EXCEPT !.at = at]
Gone(w, n) == [doer EXCEPT ![w][n] = Ended("gone")]

(* timeout(1) has put the agent into a process group of its own, so the     *)
(* signal to the group of the recorded pid ends the wrapper only.           *)
Killed(w, n) ==
    [doer EXCEPT ![w][n] = Ended(IF @.at = "agent" THEN "stray" ELSE "gone")]

(* ... signals the process group of the pid it read, and fails the row.     *)
AbortKills(w) ==
    /\ handler[w].at = "kill"
    /\ LET v == row[w].target
           n == handler[w].pid
       IN  /\ doer' = IF n # 0 /\ Alive(v, n) THEN Killed(v, n) ELSE doer
           /\ row' = [row EXCEPT ![v].status = "failed", ![w].status = "done"]
    /\ Return(w)
    /\ UNCHANGED <<now, action, claimed, shown, faults, history>>

(* The process dies: handlers and claimed workers are gone, rows and doers  *)
(* stay.                                                                    *)
WranglerCrash ==
    /\ Fault
    /\ Busy # {} \/ claimed # {}
    /\ handler' = [w \in Workers |-> NoHandler]
    /\ claimed' = {}
    /\ orphaned' = orphaned \cup {w \in Workers : handler[w].at = "launched"}
    /\ UNCHANGED <<now, action, row, doer, shown, firedAt, failed, undone>>

(* The bullpen's liveness reclaim: a running row without a handler and      *)
(* without a live recorded doer is run again.                               *)
Reclaim(w) ==
    /\ row[w].status = "running" /\ handler[w].at = "none"
    /\ row[w].pid # 0 => ~Alive(w, row[w].pid)
    /\ row' = [row EXCEPT ![w].status = "pending", ![w].pid = 0]
    /\ UNCHANGED <<now, action, claimed, handler, doer, shown, faults, history>>

(* -------------- the doer: the agent, then agent_complete.py ------------- *)

Goto(w, n, at) == doer' = [doer EXCEPT ![w][n].at = at]

AgentExits(w, n) ==
    /\ doer[w][n].at = "agent"
    /\ \E ok \in BOOLEAN :
        doer' = [doer EXCEPT ![w][n] = [@ EXCEPT !.at = "close", !.ok = ok]]
    /\ UNCHANGED <<now, action, claimed, row, handler, shown, faults, history>>

ClosesNothing(w, n) == row              \* mutant: worker id not in the env
Closed(w, n) == Close(w, IF doer[w][n].ok THEN "done" ELSE "failed")

(* The agent's status, then _close_wrangler_worker; an exception leaves the *)
(* row running.                                                             *)
CloseRow(w, n) ==
    /\ doer[w][n].at = "close"
    /\ \/ row' = Closed(w, n) /\ UNCHANGED faults
       \/ Fault /\ UNCHANGED row
    /\ shown' = shown \ {row[w].action}
    /\ Goto(w, n, "read")
    /\ UNCHANGED <<now, action, claimed, handler, history>>

(* _schedule_retry and _clear_retry read the action's data ...              *)
ReadAction(w, n) ==
    /\ doer[w][n].at = "read"
    /\ doer' = [doer EXCEPT ![w][n] = [@ EXCEPT !.at = "write",
                                                !.read = action[row[w].action]]]
    /\ UNCHANGED <<now, action, claimed, row, handler, shown, faults, history>>

ScheduledRetry(data) ==
    IF data.retryCount >= MaxRetries
    THEN [data EXCEPT !.retryAfter = 0, !.retryCount = 0]
    ELSE [data EXCEPT !.retryAfter = now + Backoff[data.retryCount],
                      !.retryCount = @ + 1]

ClearedRetry(data) == [data EXCEPT !.retryAfter = 0, !.retryCount = 0]

(* ... and save the whole of it; a success without retry state saves        *)
(* nothing.                                                                 *)
WriteAction(w, n) ==
    /\ doer[w][n].at = "write"
    /\ LET a == row[w].action
           data == doer[w][n].read
           new == IF doer[w][n].ok THEN ClearedRetry(data)
                  ELSE ScheduledRetry(data)
           saves == doer[w][n].ok => new # data
       IN  /\ action' = IF saves THEN [action EXCEPT ![a] = new] ELSE action
           /\ failed' = IF doer[w][n].ok THEN failed ELSE failed \cup {a}
           /\ undone' = IF saves /\ new.lastRun # action[a].lastRun
                        THEN undone \cup {a} ELSE undone
    /\ doer' = IF doer[w][n].ok
               THEN [doer EXCEPT ![w][n] = [@ EXCEPT !.at = "chain", !.read = NoData]]
               ELSE Gone(w, n)
    /\ UNCHANGED <<now, claimed, row, handler, shown, faults, firedAt, orphaned>>

(* _enqueue_chained: a row for every action triggered after this one, or    *)
(* none once the bound on the rows is reached.                              *)
Chained(w) == {b \in Actions : After[b] = row[w].action}
NewRows(n) == (Rows + 1)..(Rows + n)

EnqueueChained(w, n) ==
    /\ doer[w][n].at = "chain"
    /\ IF Rows + Cardinality(Chained(w)) > NumWorkers THEN UNCHANGED row
       ELSE \E order \in Bijection(NewRows(Cardinality(Chained(w))), Chained(w)) :
            row' = [v \in Workers |-> IF v \in DOMAIN order
                                      THEN PendingRun(order[v]) ELSE row[v]]
    /\ doer' = Gone(w, n)
    /\ UNCHANGED <<now, action, claimed, handler, shown, faults, history>>

(* An aborted agent ends on its own, at the latest by timeout(1).           *)
StrayEnds(w, n) ==
    /\ doer[w][n].at = "stray"
    /\ doer' = Gone(w, n)
    /\ UNCHANGED <<now, action, claimed, row, handler, shown, faults, history>>

(* The doer is killed, or the host takes it down: nothing completes.        *)
DoerDies(w, n) ==
    /\ Alive(w, n)
    /\ Fault
    /\ doer' = Gone(w, n)
    /\ UNCHANGED <<now, action, claimed, row, handler, shown, history>>

-----------------------------------------------------------------------------
Handler(w) == \/ Take(w) \/ HandlerEnds(w) \/ Launch(w) \/ RecordDoerPid(w)
              \/ AbortReads(w) \/ AbortKills(w) \/ Reclaim(w)

Doer(w, n) == \/ AgentExits(w, n) \/ CloseRow(w, n) \/ ReadAction(w, n)
              \/ WriteAction(w, n) \/ EnqueueChained(w, n) \/ StrayEnds(w, n)

Next == \/ Tick \/ RosterClaim \/ WranglerCrash
        \/ \E a \in Actions : ForemanPut(a) \/ Enqueue(a) \/ RequestAbort(a)
        \/ \E w \in Workers :
            \/ Handler(w)
            \/ \E n \in Launches \ {0} : Doer(w, n) \/ DoerDies(w, n)

Spec == Init /\ [][Next]_vars

(* supervisord keeps the wrangler running, handlers have timeouts, and an   *)
(* agent runs under timeout(1) and ends with agent_complete.py.  All take   *)
(* few steps, so it is enough that one of those that can go on does.        *)
Fairness == WF_vars(\E w \in Workers :
                        Handler(w) \/ \E n \in Launches \ {0} : Doer(w, n))

FairSpec == Spec /\ Fairness

-----------------------------------------------------------------------------
(* A row never has two live agents, and is done only when its agent has    *)
(* ended (what DETACHED is for), unless the wrangler crashed between        *)
(* starting one and recording its pid.                                      *)
OneDoerPerRow ==
    \A w \in Workers \ orphaned :
        /\ Cardinality({n \in Launches \ {0} :
                           doer[w][n].at \notin {"none", "gone"}}) <= 1
        /\ row[w].status = "done" =>
               \A n \in Launches \ {0} : doer[w][n].at \notin {"agent", "stray"}

(* Every firing of the clock is earned: since the previous one of the same  *)
(* action a scheduled moment has passed or a run has failed.  A retry_after *)
(* left on the action launched a doer every 15 s on 2026-09-18.  A          *)
(* completion that saves the action as it read it before the claim undoes   *)
(* the claim, and only then is the moment fired again.                      *)
AllMoments(a) == {t \in 0..MaxTime : t % DayLen \in Moments[a]}
MomentPassed(a) == IF Moments[a] = {} THEN now >= firedAt[a] + Interval
                   ELSE \E t \in AllMoments(a) : firedAt[a] < t /\ t <= now
FiringsEarned ==
    [][\A a \in claimed' \ claimed :
         a \in failed \/ a \in undone \/ MomentPassed(a)]_vars

(* Every row is closed in the end, whatever crashes in between.             *)
RowsClose ==
    \A w \in Workers :
        row[w].status \in {"pending", "running"}
          ~> row[w].status \in {"done", "failed"}
=============================================================================
