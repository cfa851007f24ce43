--------------------------- MODULE ActionAgentProofs ---------------------------
(* Proofs about ActionAgent: its type invariant, that an action has one doer *)
(* at a time, that a backfill launches every date once, and that an action   *)
(* runs when it is configured to, for any actions, dates, times of the day,  *)
(* number of agents at once, requests and faults.                            *)
EXTENDS ActionAgent, FiniteSetTheorems, WellFoundedInduction, TLAPS

(* The types, one part per group of variables.                               *)
ClockOK ==
    /\ now \in DayLen..MaxTime
    /\ events \in 0..MaxEvents
    /\ ran \in [Actions -> 0..MaxTime]
    /\ \A a \in Actions : ran[a] <= now

ScheduleOK ==
    /\ action \in [Actions -> Data]
    /\ form \in Copies \cup {None}
    /\ wanted \subseteq Actions /\ excused \subseteq Actions

MarksOK ==
    /\ status \in [Actions -> {"over", "young", "grown", "old"}]
    /\ found \in [Ai -> BOOLEAN]
    /\ stale \in [Actions -> 0..(Checks - 1)]
    /\ loose \subseteq Actions

RequestsOK ==
    /\ flags \subseteq {"wake", "restart", "kill", "rerun"}
    /\ backfill \in Dates \cup {None}
    /\ launched \in [Dialog -> Nat] /\ skipped \subseteq Dialog

(* The daemon has work only while it goes through what is due.               *)
Places == {"down", "requests", "backfill", "launch", "due", "run", "exec", "save", "pending",
           "sleep"}
DaemonState == [at : Places, todo : SUBSET Copies, cur : Copies \cup {None},
                date : Dates \cup {None}]
DaemonOK ==
    /\ daemon \in DaemonState
    /\ daemon.cur # None <=> daemon.at \in {"exec", "save", "pending"}
    /\ daemon.at \notin {"run", "exec", "save", "pending"} => daemon.todo = {}
    /\ daemon.at = "launch" => daemon.date \in Dialog

RunsOK ==
    /\ runs \in [Actions -> 0..MaxRuns]
    /\ daemon.cur # None => runs[daemon.cur.a] < MaxRuns

WorkersOK ==
    /\ agent \in [Slots -> AgentState \cup {None}]
    /\ \A s \in Slots : agent[s] # None /\ agent[s].at = "write" => agent[s].data \in Data
    /\ script \in [Slots -> {None, "watched", "loose"}]

AgentInv ==
    /\ ClockOK /\ ScheduleOK /\ MarksOK /\ RequestsOK /\ DaemonOK /\ RunsOK /\ WorkersOK

LEMMA InvTypes == AgentInv => TypeOK
  <1> SUFFICES ASSUME AgentInv PROVE TypeOK
    OBVIOUS
  <1>1. /\ now \in DayLen..MaxTime /\ action \in [Actions -> Data]
        /\ status \in [Actions -> {"over", "young", "grown", "old"}]
        /\ found \in [Ai -> BOOLEAN] /\ stale \in [Actions -> 0..(Checks - 1)]
        /\ flags \subseteq {"wake", "restart", "kill", "rerun"}
        /\ backfill \in Dates \cup {None}
    BY DEF AgentInv, ClockOK, ScheduleOK, MarksOK, RequestsOK
  <1>2. /\ daemon.at \in Places /\ daemon.todo \subseteq Copies
        /\ daemon.cur \in Copies \cup {None} /\ daemon.date \in Dates \cup {None}
        /\ runs \in [Actions -> 0..MaxRuns]
    BY DEF AgentInv, DaemonOK, DaemonState, RunsOK
  <1>3. \A s \in Slots : agent[s] \in AgentState \cup {None} /\ script[s] \in {None, "watched", "loose"}
    BY DEF AgentInv, WorkersOK
  <1>4. /\ form \in Copies \cup {None} /\ events \in 0..MaxEvents
        /\ {wanted, excused, loose} \subseteq SUBSET Actions
        /\ ran \in [Actions -> 0..MaxTime]
        /\ launched \in [Dialog -> Nat] /\ skipped \subseteq Dialog
    BY DEF AgentInv, ClockOK, ScheduleOK, MarksOK, RequestsOK
  <1>5. QED
    BY <1>1, <1>2, <1>3, <1>4 DEF TypeOK, Places

-----------------------------------------------------------------------------
(* The operators.                                                           *)

LEMMA Numbers ==
  /\ DayLen \in Nat /\ DayLen > 0 /\ Moment \in 0..(DayLen - 1) /\ Interval \in Nat
  /\ MaxTime \in Nat /\ DayLen <= MaxTime /\ MaxRetries \in Nat /\ MaxEvents \in Nat
  /\ MaxRuns \in Nat /\ MaxRuns > 0 /\ Checks \in Nat /\ Checks > 0 /\ None \notin Nat
  BY ActionAgentAssumption DEF ActionAgentAssumption

LEMMA Names ==
  /\ Ai \subseteq Actions /\ Assess \in Actions /\ Assess \notin Ai /\ Timed \subseteq Actions
  /\ None \notin Copies /\ None \notin AgentState
  BY ActionAgentAssumption DEF ActionAgentAssumption

LEMMA DatesAre == \A d \in Dialog : d \in Nat /\ d > 0
  BY ActionAgentAssumption DEF ActionAgentAssumption

LEMMA SlotsAre == Slots \subseteq Nat
  BY ActionAgentAssumption DEF ActionAgentAssumption

(* The last date of a set is the greatest.                                   *)
LEMMA LastDate ==
  ASSUME NEW S \in SUBSET Nat, NEW x \in S, \A y \in S : y <= x
  PROVE  Max(S) \in S /\ \A y \in S : y <= Max(S)
  BY DEF Max

LEMMA LastDialog == Max(Dialog) \in Dialog /\ Max(Dialog) \in Nat /\ \A d \in Dialog : d <= Max(Dialog)
  <1>1. PICK last \in Dialog : \A d \in Dialog : d <= last
    BY ActionAgentAssumption DEF ActionAgentAssumption
  <1>2. QED
    BY <1>1, LastDate, DatesAre

(* Every set of naturals with a bound has a greatest member.                 *)
LEMMA Bounded ==
  ASSUME NEW S \in SUBSET Nat, S # {}, NEW n \in Nat, \A y \in S : y <= n
  PROVE  Max(S) \in S /\ \A y \in S : y <= Max(S)
  <1> DEFINE T == {k \in Nat : \A y \in S : y <= k}
             R == OpToRel(<, Nat)
  <1>1. T # {} /\ T \subseteq Nat
    OBVIOUS
  <1>2. PICK k \in T : \A j \in T : ~ (<<j, k>> \in R)
    <2> HIDE DEF T
    <2>1. QED
      BY <1>1, NatLessThanWellFounded, WFMin, Zenon
  <1>3. \A j \in T : ~ (j < k)
    BY <1>1, <1>2 DEF OpToRel
  <1>4. k \in Nat /\ \A y \in S : y <= k
    BY <1>2
  <1> HIDE DEF T
  <1>5. k \in S
    <2>1. SUFFICES ASSUME k \notin S PROVE FALSE
      OBVIOUS
    <2>2. \A y \in S : y \in Nat /\ y < k
      BY <1>4, <2>1
    <2>3. k - 1 \in Nat
      <3>1. PICK y \in S : y \in Nat /\ y < k /\ k \in Nat
        BY <1>4, <2>2
      <3>2. QED
        BY <3>1
    <2>4. ASSUME NEW y \in S PROVE y <= k - 1
      <3>1. y \in Nat /\ k \in Nat /\ y < k
        BY <1>4, <2>2
      <3>2. QED
        BY <3>1
    <2>5. k - 1 \in T
      BY <2>3, <2>4 DEF T
    <2>6. QED
      BY <1>3, <1>4, <2>5
  <1>6. QED
    BY <1>4, <1>5, LastDate

LEMMA LastOfDialogs ==
  ASSUME RequestsOK, Dialogs # {}
  PROVE  /\ backfill # None /\ Max(Dialogs) \in Dialog /\ Max(Dialogs) <= backfill
         /\ \A d \in Dialog : d <= backfill => d <= Max(Dialogs)
         /\ Max(Dialogs) - 1 \in Dates
  <1>1. backfill # None /\ backfill \in Dates
    BY DEF Dialogs, RequestsOK
  <1>2. Dialogs = {d \in Dialog : d <= backfill}
    BY <1>1 DEF Dialogs
  <1>3. backfill \in Nat /\ Max(Dialog) \in Nat
    BY <1>1, LastDialog, DatesAre DEF Dates
  <1>4. Max(Dialogs) \in Dialogs /\ \A d \in Dialogs : d <= Max(Dialogs)
    BY <1>2, <1>3, Bounded, DatesAre
  <1>5. Max(Dialogs) \in Dialog /\ Max(Dialogs) <= Max(Dialog) /\ Max(Dialogs) > 0
    BY <1>2, <1>4, LastDialog, DatesAre
  <1>6. Max(Dialogs) - 1 \in Dates
    BY <1>3, <1>5, DatesAre DEF Dates
  <1>7. QED
    BY <1>1, <1>2, <1>4, <1>5, <1>6

LEMMA Lowest ==
  ASSUME NEW S \in SUBSET Slots, S # {}
  PROVE  Min(S) \in S
  <1>1. S \subseteq Nat
    BY SlotsAre
  <1>2. PICK x \in S : \A y \in S : ~ (<<y, x>> \in OpToRel(<, Nat))
    BY <1>1, NatLessThanWellFounded, WFMin
  <1>3. \A n, m \in Nat : <<m, n>> \in OpToRel(<, Nat) <=> m < n
    BY DEF OpToRel
  <1>4. ASSUME NEW y \in S PROVE x <= y
    <2>1. x \in Nat /\ y \in Nat /\ ~(y < x)
      BY <1>1, <1>2, <1>3
    <2>2. QED
      BY <2>1
  <1>5. QED
    BY <1>4 DEF Min

LEMMA DataParts ==
  \A d \in Data :
      /\ d.sched \in 0..(DayLen - 1) /\ d.config \in 0..(DayLen - 1) \cup {None}
      /\ d.last \in 0..MaxTime /\ d.retry \in 0..MaxTime \cup {None} /\ d.count \in 0..MaxRetries
  BY DEF Data

LEMMA CopyTypes == \A c \in Copies : c.a \in Actions /\ c.data \in Data
  BY DEF Copies

LEMMA ForcedIs ==
  ASSUME ClockOK, NEW a, NEW d \in Data
  PROVE  /\ Forced(a, d) \in Data /\ Forced(a, d).retry = d.retry
         /\ a \in Timed => Forced(a, d).config = IF d.config = None THEN d.sched ELSE d.config
         /\ a \notin Timed => Forced(a, d).sched = d.sched /\ Forced(a, d).config = d.config
  <1>1. PICK t \in 0..(DayLen - 1) : t = now % DayLen
    BY Numbers DEF ClockOK
  <1>2. PICK c \in 0..(DayLen - 1) \cup {None} : c = IF d.config = None THEN d.sched ELSE d.config
    BY DataParts
  <1>3. 0 \in 0..MaxTime
    BY Numbers
  <1>4. CASE a \notin Timed
    BY <1>3, <1>4 DEF Forced, Data
  <1>5. CASE a \in Timed
    <2>1. Forced(a, d) = [d EXCEPT !.config = c, !.sched = t, !.last = 0]
      BY <1>1, <1>2, <1>5 DEF Forced
    <2>2. Forced(a, d) \in Data
      BY <1>3, <2>1 DEF Data
    <2>3. Forced(a, d).retry = d.retry /\ Forced(a, d).config = c
      BY <2>1 DEF Data
    <2>4. QED
      BY <1>2, <1>5, <2>2, <2>3
  <1>6. QED
    BY <1>4, <1>5

LEMMA SettledIs ==
  ASSUME ClockOK, NEW d \in Data, NEW ok \in BOOLEAN
  PROVE  /\ Settled(d, ok) \in Data
         /\ Settled(d, ok).sched = d.sched /\ Settled(d, ok).config = d.config
         /\ Settled(d, ok).last = d.last
         /\ ok => Settled(d, ok).retry = None
  <1>1. CASE ok \/ d.count = MaxRetries
    <2>1. Settled(d, ok) = [d EXCEPT !.retry = None, !.count = 0] /\ 0 \in 0..MaxRetries
      BY <1>1, Numbers DEF Settled
    <2>2. Settled(d, ok) \in Data
      BY <2>1 DEF Data
    <2>3. /\ Settled(d, ok).sched = d.sched /\ Settled(d, ok).config = d.config
          /\ Settled(d, ok).last = d.last /\ Settled(d, ok).retry = None
      BY <2>1 DEF Data
    <2>4. QED
      BY <2>2, <2>3
  <1>2. CASE ~(ok \/ d.count = MaxRetries)
    <2>1. PICK r \in 0..MaxTime : r = IF now < MaxTime THEN now + 1 ELSE now
      BY Numbers DEF ClockOK
    <2>2. PICK n \in 0..MaxRetries : n = d.count + 1
      BY <1>2, DataParts, Numbers
    <2>3. Settled(d, ok) = [d EXCEPT !.retry = r, !.count = n]
      BY <1>2, <2>1, <2>2 DEF Settled
    <2>4. Settled(d, ok) \in Data
      BY <2>3 DEF Data
    <2>5. /\ Settled(d, ok).sched = d.sched /\ Settled(d, ok).config = d.config
          /\ Settled(d, ok).last = d.last
      BY <2>3 DEF Data
    <2>6. QED
      BY <1>2, <2>4, <2>5
  <1>3. QED
    BY <1>1, <1>2

LEMMA StampedIs ==
  ASSUME ClockOK, NEW c \in Copies, NEW clear \in BOOLEAN
  PROVE  /\ Stamped(c, clear) \in Data
         /\ Stamped(c, clear).last = now /\ Stamped(c, clear).config = None
         /\ Stamped(c, clear).sched = IF c.data.config # None THEN c.data.config ELSE c.data.sched
         /\ Stamped(c, clear).retry = IF clear THEN None ELSE c.data.retry
  <1>1. c.data \in Data /\ now \in 0..MaxTime
    BY CopyTypes, Numbers DEF ClockOK
  <1>2. PICK t \in 0..(DayLen - 1) :
            t = IF c.data.config # None THEN c.data.config ELSE c.data.sched
    BY <1>1, DataParts
  <1>3. PICK r \in 0..MaxTime \cup {None} : r = IF clear THEN None ELSE c.data.retry
    BY <1>1, DataParts
  <1>4. PICK n \in 0..MaxRetries : n = IF clear THEN 0 ELSE c.data.count
    BY <1>1, DataParts, Numbers
  <1>5. Stamped(c, clear) = [c.data EXCEPT !.last = now, !.retry = r, !.count = n, !.sched = t,
                                           !.config = None]
    BY <1>2, <1>3, <1>4 DEF Stamped
  <1>6. Stamped(c, clear) \in Data
    BY <1>1, <1>5 DEF Data
  <1>7. /\ Stamped(c, clear).last = now /\ Stamped(c, clear).config = None
        /\ Stamped(c, clear).sched = t /\ Stamped(c, clear).retry = r
    BY <1>1, <1>5 DEF Data
  <1>8. QED
    BY <1>2, <1>3, <1>6, <1>7
-----------------------------------------------------------------------------
(* The types are kept.                                                      *)

LEMMA Same ==
  ASSUME AgentInv
  PROVE  /\ now' = now /\ ran' = ran => /\ events' = events => ClockOK'
                                        /\ Event => ClockOK'
         /\ action' = action /\ form' = form /\ wanted' \subseteq Actions /\ excused' \subseteq Actions
               => ScheduleOK'
         /\ UNCHANGED <<status, found, stale, loose>> => MarksOK'
         /\ UNCHANGED <<flags, backfill, launched, skipped>> => RequestsOK'
         /\ daemon' = daemon => DaemonOK'
         /\ runs' = runs /\ daemon'.cur \in {daemon.cur, None} => RunsOK'
         /\ UNCHANGED <<agent, script>> => WorkersOK'
  <1>1. now' = now /\ ran' = ran /\ (events' = events \/ Event) => ClockOK'
    BY Numbers DEF AgentInv, ClockOK, Event
  <1>2. action' = action /\ form' = form /\ wanted' \subseteq Actions /\ excused' \subseteq Actions
            => ScheduleOK'
    BY DEF AgentInv, ScheduleOK
  <1>3. UNCHANGED <<status, found, stale, loose>> => MarksOK'
    BY DEF AgentInv, MarksOK
  <1>4. UNCHANGED <<flags, backfill, launched, skipped>> => RequestsOK'
    BY DEF AgentInv, RequestsOK
  <1>5. daemon' = daemon => DaemonOK'
    BY DEF AgentInv, DaemonOK
  <1>6. runs' = runs /\ daemon'.cur \in {daemon.cur, None} => RunsOK'
    BY DEF AgentInv, RunsOK
  <1>7. UNCHANGED <<agent, script>> => WorkersOK'
    BY DEF AgentInv, WorkersOK
  <1>8. QED
    BY <1>1, <1>2, <1>3, <1>4, <1>5, <1>6, <1>7

LEMMA Goals == AgentInv => wanted \subseteq Actions /\ excused \subseteq Actions
  BY DEF AgentInv, ScheduleOK

(* The daemon moves on, with what it has.                                    *)
LEMMA GoesOn ==
  ASSUME AgentInv, NEW from, NEW to \in Places, Goes(from, to)
  PROVE  /\ daemon.at = from /\ daemon'.at = to /\ daemon' \in DaemonState
         /\ daemon'.todo = daemon.todo /\ daemon'.cur = daemon.cur /\ daemon'.date = daemon.date
  BY DEF AgentInv, DaemonOK, DaemonState, Goes

LEMMA DaemonTypes ==
  AgentInv => /\ daemon \in DaemonState /\ daemon.at \in Places /\ daemon.todo \subseteq Copies
              /\ daemon.cur \in Copies \cup {None} /\ daemon.date \in Dates \cup {None}
              /\ (daemon.cur # None <=> daemon.at \in {"exec", "save", "pending"})
              /\ (daemon.at \notin {"run", "exec", "save", "pending"} => daemon.todo = {})
              /\ (daemon.at = "launch" => daemon.date \in Dialog)
  BY DEF AgentInv, DaemonOK, DaemonState

LEMMA CurTypes ==
  ASSUME AgentInv, daemon.at \in {"exec", "save", "pending"}
  PROVE  /\ daemon.cur \in Copies /\ daemon.cur # None /\ daemon.cur.a \in Actions
         /\ daemon.cur.data \in Data /\ runs[daemon.cur.a] < MaxRuns
  BY DaemonTypes, CopyTypes DEF AgentInv, RunsOK

LEMMA DownTypes ==
  /\ Down \in DaemonState /\ Down.at = "down" /\ Down.todo = {} /\ Down.cur = None
  BY DEF Down, DaemonState, Places

LEMMA ClearTypes ==
  ASSUME AgentInv, NEW as \in SUBSET Actions, Clear(as)
  PROVE  /\ status' \in [Actions -> {"over", "young", "grown", "old"}]
         /\ loose \subseteq loose' /\ loose' \subseteq Actions
         /\ \A a \in Actions : status'[a] = IF a \in as THEN "over" ELSE status[a]
         /\ \A a \in as : Executing(a) \/ Running(a) # {} \/ (a = Assess /\ Scripts # {}) => a \in loose'
  BY DEF Clear, AgentInv, MarksOK

LEMMA LaunchedTypes ==
  ASSUME AgentInv, NEW a \in Actions, Launched(a)
  PROVE  /\ status' \in [Actions -> {"over", "young", "grown", "old"}]
         /\ \A b \in Actions : status'[b] = IF b = a THEN "young" ELSE status[b]
  BY DEF Launched, AgentInv, MarksOK

LEMMA OthersKeep ==
  ASSUME AgentInv, NEW a \in Actions, NEW request \in {"restart", "rerun"},
         \/ Tick \/ Grow(a) \/ RunAction(a) \/ Abort(a) \/ HealStaleAgent(a) \/ Queue
         \/ Ask(request) \/ AskBackfill
  PROVE  AgentInv'
  <1>1. CASE Tick
    <2>1. ClockOK'
      BY <1>1, Numbers DEF Tick, schedule, AgentInv, ClockOK
    <2>2. RunsOK'
      BY <1>1, Numbers, DaemonTypes, CopyTypes DEF Tick, AgentInv, RunsOK
    <2>3. QED
      BY <1>1, <2>1, <2>2, Same, Goals DEF Tick, schedule, marks, requests, doers, AgentInv
  <1>2. CASE Grow(a)
    <2>1. MarksOK'
      BY <1>2 DEF Grow, AgentInv, MarksOK
    <2>2. QED
      BY <1>2, <2>1, Same, Goals DEF Grow, schedule, requests, doers, AgentInv
  <1>3. CASE RunAction(a)
    <2>1. ScheduleOK'
      BY <1>3 DEF RunAction, schedule, AgentInv, ScheduleOK, Copies
    <2>2. QED
      BY <1>3, <2>1, Same DEF RunAction, schedule, marks, requests, doers, AgentInv
  <1>4. CASE Abort(a)
    <2>1. MarksOK'
      BY <1>4, ClearTypes DEF Abort, AgentInv, MarksOK
    <2>2. RequestsOK'
      BY <1>4 DEF Abort, AgentInv, RequestsOK
    <2>3. QED
      BY <1>4, <2>1, <2>2, Same, Goals DEF Abort, doers, AgentInv
  <1>5. CASE HealStaleAgent(a)
    <2>1. MarksOK'
      BY <1>5, ClearTypes DEF HealStaleAgent, AgentInv, MarksOK
    <2>2. QED
      BY <1>5, <2>1, Same, Goals DEF HealStaleAgent, requests, doers, AgentInv
  <1>6. CASE Queue
    <2>1. form \in Copies
      BY <1>6 DEF Queue, AgentInv, ScheduleOK
    <2>2. Forced(form.a, form.data) \in Data /\ form.a \in Actions
      BY <2>1, CopyTypes, ForcedIs DEF AgentInv
    <2>3. ScheduleOK'
      BY <1>6, <2>2 DEF Queue, Put, Over, AgentInv, ScheduleOK
    <2>4. RequestsOK'
      BY <1>6 DEF Queue, AgentInv, RequestsOK
    <2>5. QED
      BY <1>6, <2>3, <2>4, Same DEF Queue, marks, doers, AgentInv
  <1>7. CASE Ask(request)
    <2>1. RequestsOK'
      BY <1>7 DEF Ask, AgentInv, RequestsOK
    <2>2. QED
      BY <1>7, <2>1, Same, Goals DEF Ask, schedule, marks, doers, AgentInv
  <1>8. CASE AskBackfill
    <2>1. RequestsOK'
      BY <1>8, LastDialog DEF AskBackfill, AgentInv, RequestsOK, Dates
    <2>2. QED
      BY <1>8, <2>1, Same, Goals DEF AskBackfill, schedule, marks, doers, AgentInv
  <1>9. QED
    BY <1>1, <1>2, <1>3, <1>4, <1>5, <1>6, <1>7, <1>8

(* A free script slot is taken.                                              *)
LEMMA ScriptTaken ==
  ASSUME AgentInv, Scripts # Slots, NEW how \in {"watched", "loose"},
         script' = [script EXCEPT ![Min(Slots \ Scripts)] = how]
  PROVE  /\ script' \in [Slots -> {None, "watched", "loose"}]
         /\ \E t \in Slots \ Scripts : \A s \in Slots : script'[s] = IF s = t THEN how ELSE script[s]
  <1>1. Slots \ Scripts # {} /\ Slots \ Scripts \subseteq Slots
    BY DEF Scripts
  <1>2. PICK t \in Slots \ Scripts : t = Min(Slots \ Scripts)
    BY <1>1, Lowest
  <1>3. QED
    BY <1>2 DEF AgentInv, WorkersOK

LEMMA StartKeeps ==
  ASSUME AgentInv, Start
  PROVE  AgentInv'
  <1>1. /\ daemon.at = "down" /\ daemon'.at = "requests" /\ daemon' \in DaemonState
        /\ daemon'.todo = daemon.todo /\ daemon'.cur = daemon.cur
    BY GoesOn DEF Start, Places
  <1>2. DaemonOK' /\ daemon'.cur = None
    BY <1>1, DaemonTypes DEF DaemonOK
  <1>3. RunsOK'
    BY <1>2, Numbers DEF Start, AgentInv, RunsOK
  <1>4. QED
    BY <1>2, <1>3, Same, Goals DEF Start, schedule, marks, requests, doers, AgentInv

LEMMA RerunKeeps ==
  ASSUME AgentInv, Rerun
  PROVE  AgentInv'
  <1>1. /\ daemon.at = "requests" /\ daemon'.at = "backfill" /\ daemon' \in DaemonState
        /\ daemon'.todo = daemon.todo /\ daemon'.cur = daemon.cur
    BY GoesOn DEF Rerun, Places
  <1>2. DaemonOK'
    BY <1>1, DaemonTypes DEF DaemonOK
  <1>3. RunsOK'
    BY <1>1, Same DEF Rerun
  <1>4. MarksOK'
    BY LaunchedTypes, Names DEF Rerun, AgentInv, MarksOK
  <1>5. RequestsOK'
    BY DEF Rerun, AgentInv, RequestsOK
  <1>6. WorkersOK'
    BY ScriptTaken DEF Rerun, AgentInv, WorkersOK
  <1>7. QED
    BY <1>2, <1>3, <1>4, <1>5, <1>6, Same, Goals DEF Rerun, schedule, AgentInv

LEMMA TakeDateKeeps ==
  ASSUME AgentInv, Advance
  PROVE  /\ AgentInv' /\ daemon.at \in {"requests", "backfill"} /\ daemon'.at = "launch"
         /\ daemon'.date = Max(Dialogs) /\ daemon'.todo = daemon.todo /\ daemon'.cur = daemon.cur
  <1>1. daemon.at \in {"requests", "backfill"} /\ Dialogs # {}
    BY DEF Advance, TakeDate, PastRerun
  <1>2. Max(Dialogs) \in Dialog /\ Max(Dialogs) \in Dates /\ Max(Dialogs) - 1 \in Dates
    <2>1. RequestsOK
      BY DEF AgentInv
    <2>2. Max(Dialogs) \in Dialog /\ Max(Dialogs) - 1 \in Dates
      BY <1>1, <2>1, LastOfDialogs
    <2>3. Max(Dialogs) \in Dates
      BY <2>2, DatesAre, LastDialog DEF Dates
    <2>4. QED
      BY <2>2, <2>3
  <1>3. daemon' = [daemon EXCEPT !.at = "launch", !.date = Max(Dialogs)]
    BY DEF Advance, TakeDate
  <1>4. /\ daemon' \in DaemonState /\ daemon'.at = "launch" /\ daemon'.date = Max(Dialogs)
        /\ daemon'.todo = daemon.todo /\ daemon'.cur = daemon.cur
    BY <1>2, <1>3, DaemonTypes DEF DaemonState, Places
  <1>5. DaemonOK'
    BY <1>1, <1>2, <1>4, DaemonTypes DEF DaemonOK
  <1>6. RequestsOK'
    BY <1>2 DEF Advance, TakeDate, AgentInv, RequestsOK
  <1>7. RunsOK'
    BY <1>4, Same DEF Advance, TakeDate
  <1>8. AgentInv'
    BY <1>5, <1>6, <1>7, Same, Goals DEF Advance, TakeDate, schedule, marks, doers, AgentInv
  <1>9. QED
    BY <1>1, <1>4, <1>8

LEMMA LaunchBackfillKeeps ==
  ASSUME AgentInv, LaunchBackfill
  PROVE  /\ AgentInv' /\ daemon'.at = "due" /\ daemon'.todo = daemon.todo
         /\ daemon'.cur = daemon.cur
  <1>1. daemon.at = "launch" /\ daemon' = [daemon EXCEPT !.at = "due", !.date = None]
    BY DEF LaunchBackfill
  <1>2. /\ daemon' \in DaemonState /\ daemon'.at = "due"
        /\ daemon'.todo = daemon.todo /\ daemon'.cur = daemon.cur
    BY <1>1, DaemonTypes DEF DaemonState, Places
  <1>3. DaemonOK'
    BY <1>1, <1>2, DaemonTypes DEF DaemonOK
  <1>4. RunsOK'
    BY <1>2, Same DEF LaunchBackfill
  <1>5. MarksOK'
    BY LaunchedTypes, Names DEF LaunchBackfill, AgentInv, MarksOK
  <1>6. RequestsOK'
    BY <1>1, DaemonTypes DEF LaunchBackfill, AgentInv, RequestsOK
  <1>7. WorkersOK'
    BY ScriptTaken DEF LaunchBackfill, AgentInv, WorkersOK
  <1>8. AgentInv'
    BY <1>3, <1>4, <1>5, <1>6, <1>7, Same, Goals DEF LaunchBackfill, schedule, AgentInv
  <1>9. QED
    BY <1>2, <1>8

LEMMA ListDueKeeps ==
  ASSUME AgentInv, ListDue
  PROVE  /\ AgentInv' /\ daemon.at \in {"requests", "backfill", "due"} /\ daemon'.at = "run"
         /\ daemon'.cur = None /\ daemon.cur = None /\ daemon.todo = {}
         /\ daemon'.todo = {[a |-> a, data |-> action[a]] : a \in {b \in Actions : Due(b)}}
  <1> DEFINE due == {[a |-> a, data |-> action[a]] : a \in {b \in Actions : Due(b)}}
  <1>1. daemon.at \in {"requests", "backfill", "due"}
    BY DEF ListDue, PastRerun
  <1>2. due \subseteq Copies
    BY DEF AgentInv, ScheduleOK, Copies
  <1>3. daemon' = [daemon EXCEPT !.at = "run", !.todo = due]
    BY DEF ListDue
  <1> HIDE DEF due
  <1>4. /\ daemon' \in DaemonState /\ daemon'.at = "run" /\ daemon'.todo = due
        /\ daemon'.cur = daemon.cur
    BY <1>2, <1>3, DaemonTypes DEF DaemonState, Places
  <1>5. DaemonOK' /\ daemon.cur = None /\ daemon.todo = {}
    BY <1>1, <1>4, DaemonTypes DEF DaemonOK
  <1>6. RequestsOK'
    BY DEF ListDue, AgentInv, RequestsOK
  <1>7. RunsOK'
    BY <1>4, Same DEF ListDue
  <1>8. AgentInv'
    BY <1>5, <1>6, <1>7, Same, Goals DEF ListDue, schedule, marks, doers, AgentInv
  <1>9. QED
    BY <1>1, <1>4, <1>5, <1>8 DEF due

LEMMA BeginKeeps ==
  ASSUME AgentInv, NEW copy \in daemon.todo, Begin(copy)
  PROVE  /\ AgentInv' /\ daemon.at = "run" /\ daemon.cur = None /\ copy.a \in Actions
         /\ copy \in Copies
         /\ daemon'.at = "exec" /\ daemon'.todo = daemon.todo \ {copy} /\ daemon'.cur = copy
  <1>1. /\ daemon.at = "run" /\ daemon.cur = None
        /\ copy \in Copies /\ copy.a \in Actions /\ copy # None
    BY DaemonTypes, CopyTypes, Names DEF Begin
  <1>2. daemon' = [daemon EXCEPT !.at = "exec", !.todo = @ \ {copy}, !.cur = copy]
    BY DEF Begin
  <1>3. /\ daemon' \in DaemonState /\ daemon'.at = "exec" /\ daemon'.todo = daemon.todo \ {copy}
        /\ daemon'.cur = copy
    BY <1>1, <1>2, DaemonTypes DEF DaemonState, Places
  <1>4. DaemonOK'
    BY <1>1, <1>3 DEF DaemonOK
  <1>5. RunsOK'
    BY <1>3 DEF Begin, AgentInv, RunsOK
  <1>6. MarksOK'
    BY <1>1, LaunchedTypes DEF Begin, AgentInv, MarksOK
  <1>7. ClockOK'
    BY <1>1, Numbers DEF Begin, AgentInv, ClockOK
  <1>8. AgentInv'
    BY <1>4, <1>5, <1>6, <1>7, Same, Goals DEF Begin, requests, doers, AgentInv
  <1>9. QED
    BY <1>1, <1>3, <1>8

LEMMA RunawayKeeps ==
  ASSUME AgentInv, NEW copy \in daemon.todo, Runaway(copy)
  PROVE  /\ AgentInv' /\ daemon'.at = "run" /\ daemon'.cur = None /\ daemon.cur = None
         /\ copy \in Copies /\ copy.a \in Actions
         /\ daemon'.todo = daemon.todo \ {copy}
  <1>1. copy \in Copies /\ copy.a \in Actions /\ daemon.at = "run" /\ daemon.cur = None
    BY DaemonTypes, CopyTypes DEF Runaway
  <1>2. /\ daemon' \in DaemonState /\ daemon'.at = "run" /\ daemon'.todo = daemon.todo \ {copy}
        /\ daemon'.cur = None
    BY <1>1, DaemonTypes DEF Runaway, DaemonState
  <1>3. DaemonOK'
    BY <1>2 DEF DaemonOK
  <1>4. RunsOK'
    BY <1>1, <1>2, Numbers DEF Runaway, AgentInv, RunsOK
  <1>5. Stamped(copy, TRUE) \in Data
    BY <1>1, StampedIs DEF AgentInv
  <1>6. ScheduleOK'
    BY <1>1, <1>5 DEF Runaway, Put, Over, AgentInv, ScheduleOK
  <1>7. AgentInv'
    BY <1>3, <1>4, <1>6, Same DEF Runaway, marks, requests, doers, AgentInv
  <1>8. QED
    BY <1>1, <1>2, <1>7

LEMMA LeaveTypes ==
  ASSUME AgentInv, NEW a \in Actions, status' = Leave(a)
  PROVE  /\ status' \in [Actions -> {"over", "young", "grown", "old"}]
         /\ \A b \in Actions : status'[b] = IF b = a /\ a \notin Ai THEN "over" ELSE status[b]
  BY DEF Leave, AgentInv, MarksOK

LEMMA FailsKeeps ==
  ASSUME AgentInv, NEW logged \in BOOLEAN, Fails(logged)
  PROVE  /\ AgentInv' /\ daemon.at = "exec" /\ daemon'.at = "run" /\ daemon'.cur = None
         /\ daemon'.todo = daemon.todo
  <1>1. daemon.at = "exec" /\ daemon.cur.a \in Actions /\ runs[daemon.cur.a] < MaxRuns
    BY CurTypes DEF Fails
  <1>2. /\ daemon' \in DaemonState /\ daemon'.at = "run" /\ daemon'.todo = daemon.todo
        /\ daemon'.cur = None
    BY DaemonTypes DEF Fails, DaemonState, Places
  <1>3. DaemonOK'
    BY <1>2 DEF DaemonOK
  <1>4. RunsOK'
    BY <1>1, <1>2, Numbers DEF Fails, AgentInv, RunsOK
  <1>5. MarksOK'
    BY <1>1, LeaveTypes DEF Fails, AgentInv, MarksOK
  <1>6. AgentInv'
    BY <1>1, <1>3, <1>4, <1>5, Same, Goals DEF Fails, requests, doers, AgentInv
  <1>7. QED
    BY <1>1, <1>2, <1>6

(* A step of the run of the current action.                                  *)
LEMMA RunStepsKeep ==
  ASSUME AgentInv, StepFails \/ Mechanical \/ DispatchAi
  PROVE  /\ AgentInv' /\ daemon.at = "exec" /\ daemon'.at \in {"save", "pending"}
         /\ daemon'.todo = daemon.todo /\ daemon'.cur = daemon.cur
         /\ daemon.cur \in Copies /\ daemon.cur # None /\ daemon.cur.a \in Actions
  <1>1. PICK to \in {"save", "pending"} : Goes("exec", to)
    BY DEF StepFails, Mechanical, DispatchAi
  <1>2. /\ daemon.at = "exec" /\ daemon'.at = to /\ daemon' \in DaemonState
        /\ daemon'.todo = daemon.todo /\ daemon'.cur = daemon.cur
    BY <1>1, GoesOn DEF Places
  <1>3. daemon.cur \in Copies /\ daemon.cur # None /\ daemon.cur.a \in Actions
    BY <1>2, CurTypes
  <1>4. DaemonOK'
    BY <1>2, <1>3 DEF DaemonOK
  <1>5. runs' = runs
    BY DEF StepFails, Mechanical, DispatchAi
  <1>6. RunsOK'
    BY <1>2, <1>5, Same
  <1>7. CASE StepFails
    BY <1>2, <1>3, <1>4, <1>6, <1>7, Same, Goals DEF StepFails, marks, requests, doers, AgentInv
  <1>8. CASE Mechanical
    BY <1>2, <1>3, <1>4, <1>6, <1>8, Same, Goals DEF Mechanical, schedule, marks, requests, doers, AgentInv
  <1>9. CASE DispatchAi
    <2>1. MarksOK'
      BY <1>3, <1>9, LaunchedTypes DEF DispatchAi, AgentInv, MarksOK
    <2>2. WorkersOK'
      <3> DEFINE free == {s \in Slots : agent[s] = None}
                 new == [a |-> daemon.cur.a, at |-> "works", ok |-> TRUE, data |-> None]
      <3>1. free # {} /\ free \subseteq Slots /\ agent' = [agent EXCEPT ![Min(free)] = new]
        BY <1>9 DEF DispatchAi
      <3>2. new \in AgentState /\ new.at = "works"
        BY <1>9 DEF DispatchAi, AgentState
      <3> HIDE DEF new, free
      <3>3. Min(free) \in Slots
        BY <3>1, Lowest
      <3>4. QED
        BY <1>9, <3>1, <3>2, <3>3 DEF DispatchAi, AgentInv, WorkersOK
    <2>3. QED
      BY <1>2, <1>3, <1>4, <1>6, <1>9, <2>1, <2>2, Same, Goals
         DEF DispatchAi, schedule, requests, AgentInv
  <1>10. QED
    BY <1>2, <1>3, <1>7, <1>8, <1>9

LEMMA UpdateLastRunKeeps ==
  ASSUME AgentInv, UpdateLastRun
  PROVE  /\ AgentInv' /\ daemon.at \in {"save", "pending"} /\ daemon'.at = "run"
         /\ daemon'.cur = None /\ daemon'.todo = daemon.todo
  <1>1. /\ daemon.at \in {"save", "pending"} /\ daemon.cur \in Copies
        /\ daemon.cur.a \in Actions /\ runs[daemon.cur.a] < MaxRuns
    BY CurTypes DEF UpdateLastRun
  <1>2. /\ daemon' \in DaemonState /\ daemon'.at = "run" /\ daemon'.todo = daemon.todo
        /\ daemon'.cur = None
    BY DaemonTypes DEF UpdateLastRun, DaemonState, Places
  <1>3. DaemonOK'
    BY <1>2 DEF DaemonOK
  <1>4. RunsOK'
    BY <1>1, <1>2, Numbers DEF UpdateLastRun, AgentInv, RunsOK
  <1>5. MarksOK'
    BY <1>1, LeaveTypes DEF UpdateLastRun, AgentInv, MarksOK
  <1>6. Stamped(daemon.cur, daemon.at = "save") \in Data
    BY <1>1, StampedIs DEF AgentInv
  <1>7. ScheduleOK'
    BY <1>1, <1>6 DEF UpdateLastRun, Put, Over, AgentInv, ScheduleOK
  <1>8. AgentInv'
    BY <1>3, <1>4, <1>5, <1>7, Same DEF UpdateLastRun, requests, doers, AgentInv
  <1>9. QED
    BY <1>1, <1>2, <1>8

LEMMA EndPassKeeps ==
  ASSUME AgentInv, EndPass
  PROVE  AgentInv' /\ daemon'.at = "sleep" /\ daemon'.todo = {} /\ daemon'.cur = None
  <1>1. /\ daemon.at = "run" /\ daemon'.at = "sleep" /\ daemon' \in DaemonState
        /\ daemon'.todo = {} /\ daemon'.cur = daemon.cur /\ daemon.cur = None
    BY GoesOn, DaemonTypes DEF EndPass, Places
  <1>2. DaemonOK' /\ RunsOK'
    BY <1>1, Same DEF EndPass, DaemonOK
  <1>3. QED
    BY <1>1, <1>2, Same, Goals DEF EndPass, schedule, marks, requests, doers, AgentInv

LEMMA RestartKeeps ==
  ASSUME AgentInv, Restart
  PROVE  AgentInv' /\ daemon'.at = "down" /\ daemon'.todo = {} /\ daemon'.cur = None
  <1>1. daemon' = Down
    BY DEF Restart
  <1>2. DaemonOK' /\ RunsOK'
    BY <1>1, DownTypes, Same DEF Restart, DaemonOK
  <1>3. RequestsOK'
    BY DEF Restart, AgentInv, RequestsOK
  <1>4. QED
    BY <1>1, <1>2, <1>3, DownTypes, Same, Goals DEF Restart, schedule, marks, doers, AgentInv

LEMMA KillTypes ==
  ASSUME AgentInv, CheckKillRequest
  PROVE  /\ agent' \in [Slots -> AgentState \cup {None}]
         /\ \A s \in Slots : agent'[s] # None => agent'[s] = agent[s]
         /\ \A s \in Slots : agent'[s] = IF s \in Killed THEN None ELSE agent[s]
         /\ Killed \subseteq Alive
         /\ {agent[s].a : s \in Killed} \subseteq Actions
  <1>1. /\ agent' \in [Slots -> AgentState \cup {None}]
        /\ \A s \in Slots : agent'[s] = IF s \in Killed THEN None ELSE agent[s]
    BY DEF CheckKillRequest, AgentInv, WorkersOK
  <1>2. Killed \subseteq Alive
    BY DEF Killed
  <1>3. \A s \in Alive : agent[s].a \in Actions
    BY Names DEF Alive, AgentInv, WorkersOK, AgentState
  <1>4. QED
    BY <1>1, <1>2, <1>3

LEMMA PollKeeps ==
  ASSUME AgentInv, NEW over \in BOOLEAN, Poll(over)
  PROVE  /\ AgentInv' /\ daemon.at = "sleep" /\ daemon'.at \in {"requests", "sleep"}
         /\ daemon'.todo = {} /\ daemon'.cur = None /\ daemon.cur = None
  <1>1. daemon.at = "sleep"
    BY DEF Poll, CheckKillRequest
  <1>2. PICK to \in {"requests", "sleep"} : daemon' = [daemon EXCEPT !.at = to]
    BY DEF Poll
  <1>3. /\ daemon' \in DaemonState /\ daemon'.at = to /\ daemon'.todo = {} /\ daemon'.cur = None
        /\ daemon.cur = None
    BY <1>1, <1>2, DaemonTypes DEF DaemonState, Places
  <1>4. DaemonOK' /\ RunsOK'
    BY <1>3, Same DEF Poll, DaemonOK
  <1>5. Cleared \subseteq Actions
    BY DEF Cleared
  <1>6. found' \in [Ai -> BOOLEAN]
    BY DEF Poll, CheckAgentHealth, AgentInv, MarksOK
  <1>7. stale' \in [Actions -> 0..(Checks - 1)]
    <2>1. \A a \in Actions : stale[a] \in 0..(Checks - 1) /\ Checks \in Nat
      BY Numbers DEF AgentInv, MarksOK
    <2>2. ASSUME NEW a \in Actions, Dead(a), a \notin Cleared
          PROVE  stale[a] + 1 \in 0..(Checks - 1)
      BY <2>1, <2>2 DEF Cleared
    <2>3. \A a \in Actions :
              (IF ~Busy(a) THEN stale[a]
               ELSE IF Dead(a) /\ a \notin Cleared THEN stale[a] + 1 ELSE 0) \in 0..(Checks - 1)
      BY <2>1, <2>2, Numbers
    <2>4. QED
      BY <2>3 DEF Poll, CheckAgentHealth
  <1>8. MarksOK'
    BY <1>5, <1>6, <1>7, ClearTypes DEF Poll, CheckAgentHealth, MarksOK
  <1>9. WorkersOK'
    BY KillTypes DEF Poll, AgentInv, WorkersOK
  <1>10. RequestsOK'
    BY DEF Poll, AgentInv, RequestsOK
  <1>11. ScheduleOK' /\ ClockOK'
    BY <1>5, KillTypes, Same, Goals DEF Poll
  <1>12. AgentInv'
    BY <1>4, <1>8, <1>9, <1>10, <1>11 DEF AgentInv
  <1>13. QED
    BY <1>1, <1>3, <1>12

LEMMA WakeKeeps ==
  ASSUME AgentInv, Wake
  PROVE  /\ AgentInv' /\ daemon.at = "sleep" /\ daemon'.at = "requests"
         /\ daemon'.todo = {} /\ daemon'.cur = None /\ daemon.cur = None
  <1>1. daemon.at = "sleep" /\ daemon' = [daemon EXCEPT !.at = "requests"]
    BY DEF Wake, CheckKillRequest
  <1>2. /\ daemon' \in DaemonState /\ daemon'.at = "requests" /\ daemon'.todo = {}
        /\ daemon'.cur = None /\ daemon.cur = None
    BY <1>1, DaemonTypes DEF DaemonState, Places
  <1>3. DaemonOK' /\ RunsOK'
    BY <1>2, Same DEF Wake, DaemonOK
  <1>4. WorkersOK'
    BY KillTypes DEF Wake, AgentInv, WorkersOK
  <1>5. RequestsOK'
    BY DEF Wake, AgentInv, RequestsOK
  <1>6. ScheduleOK' /\ ClockOK' /\ MarksOK'
    BY KillTypes, Same, Goals DEF Wake, marks
  <1>7. QED
    BY <1>1, <1>2, <1>3, <1>4, <1>5, <1>6 DEF AgentInv

LEMMA CrashKeeps ==
  ASSUME AgentInv, Crash
  PROVE  AgentInv' /\ daemon'.at = "down" /\ daemon'.todo = {} /\ daemon'.cur = None
  <1>1. daemon' = Down
    BY DEF Crash
  <1>2. DaemonOK' /\ RunsOK'
    BY <1>1, DownTypes, Same DEF Crash, DaemonOK
  <1>3. RequestsOK'
    BY DaemonTypes DEF Crash, AgentInv, RequestsOK
  <1>4. WorkersOK'
    BY DEF Crash, AgentInv, WorkersOK
  <1>5. excused' \subseteq Actions
    BY Goals, DaemonTypes, CopyTypes DEF Crash
  <1>6. ScheduleOK' /\ ClockOK' /\ MarksOK'
    BY <1>5, Same, Goals DEF Crash, marks
  <1>7. QED
    BY <1>1, <1>2, <1>3, <1>4, <1>6, DownTypes DEF AgentInv

LEMMA AgentTypes ==
  ASSUME AgentInv, NEW s \in Slots, agent[s] # None
  PROVE  /\ agent[s] \in AgentState /\ agent[s].a \in Actions /\ agent[s].a \in Ai
         /\ agent[s].ok \in BOOLEAN /\ agent[s].at \in {"works", "write"}
         /\ agent[s].at = "write" => agent[s].data \in Data
  BY Names DEF AgentInv, WorkersOK, AgentState

LEMMA AgentEndsKeeps ==
  ASSUME AgentInv, NEW s \in Slots, NEW ok \in BOOLEAN, AgentEnds(s, ok)
  PROVE  AgentInv' /\ daemon' = daemon
  <1> DEFINE a == agent[s].a
             new == [agent[s] EXCEPT !.at = "write", !.ok = ok, !.data = action[a]]
  <1>1. s \in Alive /\ agent[s] # None /\ a \in Ai /\ a \in Actions
    BY AgentTypes DEF AgentEnds, Alive
  <1>2. action[a] \in Data
    BY <1>1 DEF AgentInv, ScheduleOK
  <1>3. new \in AgentState /\ new.data = action[a]
    <2>1. PICK w \in AgentState : w = agent[s]
      BY <1>1, AgentTypes
    <2>2. PICK d \in Data : d = action[a]
      BY <1>2
    <2>3. /\ [w EXCEPT !.at = "write", !.ok = ok, !.data = d] \in AgentState
          /\ [w EXCEPT !.at = "write", !.ok = ok, !.data = d].data = d
      BY DEF AgentState
    <2>4. QED
      BY <2>1, <2>2, <2>3
  <1>4. agent' = [agent EXCEPT ![s] = new]
    BY DEF AgentEnds
  <1> HIDE DEF new
  <1>5. WorkersOK'
    <2>1. agent' \in [Slots -> AgentState \cup {None}] /\ \A t \in Slots : agent'[t] \in {agent[t], new}
      BY <1>3, <1>4 DEF AgentInv, WorkersOK
    <2>2. script' = script
      BY DEF AgentEnds
    <2>3. QED
      BY <1>2, <1>3, <2>1, <2>2 DEF AgentInv, WorkersOK
  <1>6. status' \in [Actions -> {"over", "young", "grown", "old"}] /\ loose' \subseteq Actions
    BY <1>1 DEF AgentEnds, AgentInv, MarksOK
  <1>7. found' \in [Ai -> BOOLEAN]
    BY <1>1 DEF AgentEnds, AgentInv, MarksOK
  <1>8. MarksOK'
    BY <1>6, <1>7 DEF AgentEnds, AgentInv, MarksOK
  <1>9. excused' \subseteq Actions
    BY <1>1, Goals DEF AgentEnds
  <1>10. ClockOK'
    <2>1. events' \in 0..MaxEvents
      BY Numbers DEF AgentEnds, AgentInv, ClockOK
    <2>2. QED
      BY <2>1 DEF AgentEnds, AgentInv, ClockOK
  <1>11. QED
    BY <1>5, <1>8, <1>9, <1>10, Same, Goals DEF AgentEnds, requests, AgentInv

(* The end of an agent: it is left with what it read of its action.          *)
LEMMA AgentEndsIs ==
  ASSUME AgentInv, NEW s \in Slots, NEW ok \in BOOLEAN, AgentEnds(s, ok)
  PROVE  /\ agent[s] # None /\ agent[s].at = "works" /\ agent[s].a \in Ai
         /\ \E new \in AgentState :
                /\ agent' = [agent EXCEPT ![s] = new]
                /\ new.a = agent[s].a /\ new.at = "write" /\ new.ok = ok
                /\ new.data = action[agent[s].a]
  <1>1. agent[s] # None /\ agent[s].at = "works"
    BY DEF AgentEnds, Alive
  <1>2. PICK w \in AgentState : w = agent[s]
    BY <1>1, AgentTypes
  <1>3. w.a \in Ai /\ w.a \in Actions
    BY <1>1, <1>2, AgentTypes
  <1>4. PICK d \in Data : d = action[w.a]
    BY <1>3 DEF AgentInv, ScheduleOK
  <1>5. PICK new \in AgentState : new = [w EXCEPT !.at = "write", !.ok = ok, !.data = d]
    BY DEF AgentState
  <1>6. new.a = w.a /\ new.at = "write" /\ new.ok = ok /\ new.data = d
    BY <1>5 DEF AgentState
  <1>7. agent' = [agent EXCEPT ![s] = [w EXCEPT !.at = "write", !.ok = ok, !.data = d]]
    BY <1>2, <1>4, Zenon DEF AgentEnds
  <1>8. agent' = [agent EXCEPT ![s] = new]
    BY <1>5, <1>7, Zenon
  <1>9. QED
    BY <1>1, <1>2, <1>3, <1>4, <1>6, <1>8, Zenon

LEMMA WriteActionKeeps ==
  ASSUME AgentInv, NEW s \in Slots, WriteAction(s)
  PROVE  AgentInv' /\ daemon' = daemon
  <1>1. agent[s] # None /\ agent[s].at = "write"
    BY DEF WriteAction
  <1>2. Settled(agent[s].data, agent[s].ok) \in Data /\ agent[s].a \in Actions
    BY <1>1, AgentTypes, SettledIs DEF AgentInv
  <1>3. ScheduleOK'
    BY <1>2 DEF WriteAction, Put, Over, AgentInv, ScheduleOK
  <1>4. WorkersOK'
    BY DEF WriteAction, AgentInv, WorkersOK
  <1>5. QED
    BY <1>3, <1>4, Same DEF WriteAction, marks, requests, AgentInv

LEMMA AgentDiesKeeps ==
  ASSUME AgentInv, NEW s \in Slots, AgentDies(s)
  PROVE  AgentInv' /\ daemon' = daemon
  <1>1. excused' \subseteq Actions
    BY AgentTypes, Goals DEF AgentDies
  <1>2. WorkersOK'
    BY DEF AgentDies, AgentInv, WorkersOK
  <1>3. QED
    BY <1>1, <1>2, Same, Goals DEF AgentDies, marks, requests, AgentInv

LEMMA ScriptEndsKeeps ==
  ASSUME AgentInv, NEW s \in Slots, ScriptEnds(s)
  PROVE  AgentInv' /\ daemon' = daemon
  <1>1. WorkersOK'
    BY DEF ScriptEnds, AgentInv, WorkersOK
  <1>2. MarksOK'
    BY Names DEF ScriptEnds, AgentInv, MarksOK
  <1>3. RequestsOK'
    BY DEF ScriptEnds, AgentInv, RequestsOK
  <1>4. QED
    BY <1>1, <1>2, <1>3, Same, Goals DEF ScriptEnds, schedule, AgentInv

LEMMA InitInv == Init => AgentInv
  <1> SUFFICES ASSUME Init PROVE AgentInv
    OBVIOUS
  <1>1. Fresh \in Data
    BY Numbers DEF Fresh, Data
  <1>2. now = DayLen /\ now \in 0..MaxTime /\ DayLen - 1 \in 0..MaxTime
    BY Numbers DEF Init
  <1>3. ClockOK
    BY <1>2, Numbers DEF Init, ClockOK
  <1>4. \A a \in Actions : Forced(a, Fresh) \in Data
    BY <1>1, <1>3, ForcedIs
  <1>5. ScheduleOK
    BY <1>1, <1>4 DEF Init, ScheduleOK
  <1>6. MarksOK
    BY Numbers DEF Init, MarksOK
  <1>7. RequestsOK
    <2>1. Max(Dialog) \in Dates
      BY LastDialog DEF Dates
    <2>2. backfill \in Dates \cup {None}
      BY <2>1 DEF Init
    <2>3. flags \subseteq {"wake", "restart", "kill", "rerun"}
      BY DEF Init
    <2>4. launched \in [Dialog -> Nat] /\ skipped \subseteq Dialog
      BY DEF Init
    <2>5. QED
      BY <2>2, <2>3, <2>4 DEF RequestsOK
  <1>8. DaemonOK /\ daemon.cur = None
    BY DownTypes DEF Init, DaemonOK
  <1>9. RunsOK
    BY <1>8, Numbers DEF Init, RunsOK
  <1>10. WorkersOK
    BY DEF Init, WorkersOK
  <1>11. QED
    BY <1>3, <1>5, <1>6, <1>7, <1>8, <1>9, <1>10 DEF AgentInv

LEMMA NextKeeps == AgentInv /\ [Next]_vars => AgentInv'
  <1> SUFFICES ASSUME AgentInv, [Next]_vars PROVE AgentInv'
    OBVIOUS
  <1>1. ASSUME NEW a \in Actions,
               Tick \/ Grow(a) \/ RunAction(a) \/ Abort(a) \/ HealStaleAgent(a) \/ Queue \/ AskBackfill
        PROVE  AgentInv'
    BY <1>1, OthersKeep
  <1>2. ASSUME NEW request \in {"restart", "rerun"}, Ask(request) PROVE AgentInv'
    BY <1>2, Names, OthersKeep
  <1>3. CASE Start
    BY <1>3, StartKeeps
  <1>4. CASE Pass
    BY <1>4, RerunKeeps, TakeDateKeeps, LaunchBackfillKeeps, ListDueKeeps, BeginKeeps,
       RunawayKeeps, RunStepsKeep, UpdateLastRunKeeps, EndPassKeeps, RestartKeeps, WakeKeeps
       DEF Pass
  <1>5. ASSUME NEW over \in BOOLEAN, Poll(over) \/ Fails(over) PROVE AgentInv'
    BY <1>5, PollKeeps, FailsKeeps
  <1>6. CASE StepFails \/ Crash
    BY <1>6, RunStepsKeep, CrashKeeps
  <1>7. ASSUME NEW s \in Slots,
               \/ \E ok \in BOOLEAN : AgentEnds(s, ok)
               \/ WriteAction(s) \/ AgentDies(s) \/ ScriptEnds(s)
        PROVE  AgentInv'
    BY <1>7, AgentEndsKeeps, WriteActionKeeps, AgentDiesKeeps, ScriptEndsKeeps
  <1>8. CASE UNCHANGED vars
    BY <1>8, Same, Goals DEF vars, schedule, marks, requests, doers, AgentInv
  <1>9. QED
    BY <1>1, <1>2, <1>3, <1>4, <1>5, <1>6, <1>7, <1>8, Names DEF Next

LEMMA Invariance == Spec => []AgentInv
  BY InitInv, NextKeeps, PTL DEF Spec

-----------------------------------------------------------------------------
(* One doer.  An action that no status was cleared over has one doer at      *)
(* most, and none while its status is over; what is listed as due has no     *)
(* status, and is listed once.                                               *)

Scripting(a) == a = Assess /\ Scripts # {}
Doing(a) == Executing(a) \/ Running(a) # {} \/ Scripting(a)
OneEach(a) ==
    /\ \A s, t \in Running(a) : s = t
    /\ \A s, t \in Scripts : Scripting(a) => s = t
    /\ Executing(a) => Running(a) = {} /\ ~Scripting(a)
    /\ Doing(a) => Busy(a)
DoersOK == \A a \in Actions \ loose : OneEach(a)

TurnOK ==
    /\ \A c \in daemon.todo : ~Busy(c.a) /\ (daemon.cur # None => daemon.cur.a # c.a)
    /\ \A c, d \in daemon.todo : c.a = d.a => c = d
    /\ daemon.at = "launch" => ~Busy(Assess)
    /\ \A a \in Actions \ (loose \cup Ai) : daemon.at = "save" /\ daemon.cur.a = a => ~Doing(a)
    /\ daemon.at = "pending" => daemon.cur.a \in Ai

(* A step that leaves an action what it does, or ends some of it.            *)
Calm(a) ==
    /\ Running(a)' \subseteq Running(a)
    /\ Scripts' \subseteq Scripts
    /\ Executing(a)' => Executing(a)
    /\ Doing(a)' => (Busy(a) => Busy(a)')

LEMMA AssessIsNoAgent == AgentInv => Running(Assess) = {}
  BY Names DEF AgentInv, WorkersOK, AgentState, Running

LEMMA CalmKeeps ==
  ASSUME AgentInv, NEW a \in Actions, OneEach(a), Calm(a)
  PROVE  OneEach(a)' /\ (~Doing(a) => ~Doing(a)')
  <1>1. \A s, t \in Running(a)' : s = t
    BY DEF OneEach, Calm
  <1>2. \A s, t \in Scripts' : Scripting(a)' => s = t
    BY DEF OneEach, Calm, Scripting
  <1>3. Executing(a)' => Running(a)' = {} /\ ~Scripting(a)'
    BY DEF OneEach, Calm, Scripting
  <1>4. Doing(a)' => Doing(a)
    BY DEF Calm, Doing, Scripting
  <1>5. Doing(a)' => Busy(a)'
    BY <1>4 DEF OneEach, Calm
  <1>6. QED
    BY <1>1, <1>2, <1>3, <1>4, <1>5 DEF OneEach

LEMMA AllCalm ==
  ASSUME AgentInv, DoersOK, loose \subseteq loose', \A a \in Actions \ loose' : Calm(a)
  PROVE  DoersOK'
  BY CalmKeeps DEF DoersOK

LEMMA SameCalm ==
  /\ agent' = agent => \A a \in Actions : Running(a)' = Running(a)
  /\ script' = script => Scripts' = Scripts
  /\ daemon' = daemon \/ daemon'.at # "exec" => \A a \in Actions : Executing(a)' => Executing(a)
  /\ status' = status => \A a \in Actions : Busy(a)' = Busy(a)
  <1>1. agent' = agent => \A a \in Actions : Running(a)' = Running(a)
    BY DEF Running
  <1>2. script' = script => Scripts' = Scripts
    BY DEF Scripts
  <1>3. daemon' = daemon \/ daemon'.at # "exec" => \A a \in Actions : Executing(a)' => Executing(a)
    BY DEF Executing
  <1>4. status' = status => \A a \in Actions : Busy(a)' = Busy(a)
    BY DEF Busy
  <1>5. QED
    BY <1>1, <1>2, <1>3, <1>4

LEMMA TurnKept ==
  ASSUME AgentInv, DoersOK, TurnOK, loose \subseteq loose', \A a \in Actions \ loose' : Calm(a),
         \A a \in Actions : Busy(a)' => Busy(a),
         daemon'.todo \subseteq daemon.todo, daemon'.cur \in {daemon.cur, None},
         daemon'.at = "launch" => daemon.at = "launch",
         daemon'.at \in {"save", "pending"} => daemon' = daemon
  PROVE  TurnOK'
  <1>1. \A c \in daemon'.todo : c.a \in Actions /\ ~Busy(c.a)' /\ (daemon'.cur # None => daemon'.cur.a # c.a)
    BY DaemonTypes, CopyTypes DEF TurnOK
  <1>2. \A c, d \in daemon'.todo : c.a = d.a => c = d
    BY DEF TurnOK
  <1>3. daemon'.at = "launch" => ~Busy(Assess)'
    BY Names DEF TurnOK
  <1>4. ASSUME NEW a \in Actions \ (loose' \cup Ai), daemon'.at = "save", daemon'.cur.a = a
        PROVE  ~Doing(a)'
    <2>1. daemon' = daemon /\ a \notin loose
      BY <1>4
    <2>2. ~Doing(a) /\ OneEach(a) /\ Calm(a)
      BY <1>4, <2>1 DEF TurnOK, DoersOK
    <2>3. QED
      BY <2>1, <2>2, CalmKeeps
  <1>5. daemon'.at = "pending" => daemon'.cur.a \in Ai
    BY DEF TurnOK
  <1>6. QED
    BY <1>1, <1>2, <1>3, <1>4, <1>5 DEF TurnOK

(* The daemon stays where it is.                                             *)
LEMMA Beside ==
  ASSUME AgentInv, DoersOK, TurnOK, daemon' = daemon, loose \subseteq loose',
         \A a \in Actions \ loose' : Calm(a), \A a \in Actions : Busy(a)' => Busy(a)
  PROVE  DoersOK' /\ TurnOK'
  BY AllCalm, TurnKept

LEMMA NothingDone ==
  ASSUME AgentInv, agent' = agent, script' = script, status' = status,
         daemon' = daemon \/ daemon'.at # "exec"
  PROVE  \A a \in Actions : Calm(a) /\ (Busy(a)' <=> Busy(a))
  BY SameCalm DEF Calm

LEMMA ClearCalm ==
  ASSUME AgentInv, NEW as \in SUBSET Actions, Clear(as), Scripts' \subseteq Scripts,
         \A a \in Actions : Running(a)' \subseteq Running(a),
         \A a \in Actions : Executing(a)' => Executing(a)
  PROVE  /\ loose \subseteq loose' /\ \A a \in Actions \ loose' : Calm(a)
         /\ \A a \in Actions : Busy(a)' => Busy(a)
  <1>1. \A a \in Actions : Busy(a)' <=> (Busy(a) /\ a \notin as)
    BY ClearTypes DEF Busy
  <1>2. ASSUME NEW a \in Actions \ loose' PROVE Calm(a)
    <2>1. Doing(a)' => Doing(a)
      BY DEF Doing, Scripting
    <2>2. Doing(a)' => a \notin as
      BY <2>1, ClearTypes DEF Doing, Scripting
    <2>3. QED
      BY <1>1, <2>2 DEF Calm
  <1>3. QED
    BY <1>1, <1>2, ClearTypes

LEMMA OthersDoers ==
  ASSUME AgentInv, DoersOK, TurnOK, NEW a \in Actions, NEW request \in {"restart", "rerun"},
         \/ Tick \/ Grow(a) \/ RunAction(a) \/ Abort(a) \/ HealStaleAgent(a) \/ Queue
         \/ Ask(request) \/ AskBackfill
  PROVE  DoersOK' /\ TurnOK'
  <1>1. daemon' = daemon /\ agent' = agent /\ script' = script
    BY DEF Tick, Grow, RunAction, Abort, HealStaleAgent, Queue, Ask, AskBackfill, doers
  <1>2. CASE Tick \/ RunAction(a) \/ Queue \/ Ask(request) \/ AskBackfill
    <2>1. status' = status /\ loose' = loose
      BY <1>2 DEF Tick, RunAction, Queue, Ask, AskBackfill, marks
    <2>2. QED
      BY <1>1, <2>1, NothingDone, Beside
  <1>3. CASE Grow(a)
    <2>1. loose' = loose /\ \A b \in Actions : Busy(b)' <=> Busy(b)
      BY <1>3 DEF Grow, Busy, AgentInv, MarksOK
    <2>2. \A b \in Actions : Calm(b)
      BY <1>1, <2>1, SameCalm DEF Calm
    <2>3. QED
      BY <1>1, <2>1, <2>2, Beside
  <1>4. CASE Abort(a) \/ HealStaleAgent(a)
    <2>1. Clear({a}) /\ {a} \in SUBSET Actions
      BY <1>4 DEF Abort, HealStaleAgent
    <2>2. QED
      BY <1>1, <2>1, SameCalm, ClearCalm, Beside
  <1>5. QED
    BY <1>2, <1>3, <1>4

LEMMA EndsDoers ==
  ASSUME AgentInv, DoersOK, TurnOK, NEW s \in Slots,
         \/ \E ok \in BOOLEAN : AgentEnds(s, ok)
         \/ WriteAction(s) \/ AgentDies(s) \/ ScriptEnds(s)
  PROVE  DoersOK' /\ TurnOK'
  <1>1. daemon' = daemon
    BY DEF AgentEnds, WriteAction, AgentDies, ScriptEnds
  <1>2. \A a \in Actions : Executing(a)' = Executing(a)
    BY <1>1 DEF Executing
  <1>3. CASE \E ok \in BOOLEAN : AgentEnds(s, ok)
    <2>1. PICK ok \in BOOLEAN : AgentEnds(s, ok)
      BY <1>3
    <2>2. PICK a \in Actions : a = agent[s].a /\ s \in Running(a) /\ a \in Ai
      BY <2>1, AgentTypes DEF AgentEnds, Alive, Running
    <2>3. script' = script /\ Scripts' = Scripts
      BY <2>1, SameCalm DEF AgentEnds
    <2>4. PICK new \in AgentState :
              agent' = [agent EXCEPT ![s] = new] /\ new.a = a /\ new.at = "write"
      BY <2>1, <2>2, AgentEndsIs
    <2>5. \A t \in Slots : agent'[t] = IF t = s THEN new ELSE agent[t]
      BY <2>4 DEF AgentInv, WorkersOK
    <2>6. \A b \in Actions : Running(b)' \subseteq Running(b) /\ s \notin Running(b)'
      BY <2>4, <2>5 DEF Running
    <2>7. \A b \in Actions : Busy(b)' <=> (Busy(b) /\ b # a)
      BY <2>1, <2>2 DEF AgentEnds, Busy, AgentInv, MarksOK
    <2>8. loose \subseteq loose'
      BY <2>1 DEF AgentEnds
    <2>9. ASSUME NEW b \in Actions \ loose' PROVE Calm(b)
      <3>1. CASE b # a
        BY <1>2, <2>3, <2>6, <2>7, <3>1 DEF Calm
      <3>2. CASE b = a
        <4>1. a \notin loose' /\ a \notin loose
          BY <2>8, <2>9, <3>2
        <4>5. Running(a) = {s}
          BY <2>1, <2>2, <4>1 DEF AgentEnds
        <4>6. OneEach(a)
          BY <4>1 DEF DoersOK
        <4>2. Running(a)' = {} /\ ~Executing(a)
          BY <2>2, <2>6, <4>5, <4>6 DEF OneEach
        <4>3. ~Scripting(a)
          BY <2>2, Names DEF Scripting
        <4>4. ~Doing(a)'
          BY <1>2, <2>2, <4>2, <4>3, <2>3 DEF Doing, Scripting
        <4>7. QED
          BY <1>2, <2>3, <2>6, <3>2, <4>4 DEF Calm
      <3>3. QED
        BY <3>1, <3>2
    <2>10. QED
      BY <1>1, <2>7, <2>8, <2>9, Beside
  <1>4. CASE WriteAction(s) \/ AgentDies(s)
    <2>1. /\ script' = script /\ status' = status /\ loose' = loose
          /\ agent' = [agent EXCEPT ![s] = None]
      BY <1>4 DEF WriteAction, AgentDies, marks
    <2>2. \A a \in Actions : Running(a)' \subseteq Running(a)
      BY <2>1 DEF Running, AgentInv, WorkersOK
    <2>3. \A a \in Actions : Calm(a) /\ (Busy(a)' => Busy(a))
      BY <1>2, <2>1, <2>2, SameCalm DEF Calm
    <2>4. QED
      BY <1>1, <2>1, <2>3, Beside
  <1>5. CASE ScriptEnds(s)
    <2>1. /\ agent' = agent /\ s \in Scripts /\ loose \subseteq loose'
          /\ script' = [script EXCEPT ![s] = None]
      BY <1>5 DEF ScriptEnds, Scripts
    <2>2. Scripts' = Scripts \ {s}
      BY <2>1 DEF Scripts, AgentInv, WorkersOK
    <2>3. \A a \in Actions : Running(a)' = Running(a)
      BY <2>1, SameCalm
    <2>4. \A a \in Actions : Busy(a)' <=> (Busy(a) /\ (a = Assess => script[s] # "watched"))
      BY <1>5, Names DEF ScriptEnds, Busy, AgentInv, MarksOK
    <2>5. ASSUME NEW a \in Actions \ loose' PROVE Calm(a)
      <3>1. CASE a # Assess \/ script[s] # "watched"
        BY <1>2, <2>2, <2>3, <2>4, <3>1 DEF Calm
      <3>2. CASE a = Assess /\ script[s] = "watched"
        <4>1. Scripts = {s} /\ ~Executing(a) /\ Running(a) = {}
          BY <1>5, <3>2, AssessIsNoAgent DEF ScriptEnds
        <4>2. ~Doing(a)'
          BY <1>2, <2>2, <2>3, <4>1 DEF Doing, Scripting
        <4>3. QED
          BY <1>2, <2>2, <2>3, <4>2 DEF Calm
      <3>3. QED
        BY <3>1, <3>2
    <2>6. QED
      BY <1>1, <2>1, <2>4, <2>5, Beside
  <1>6. QED
    BY <1>3, <1>4, <1>5

LEMMA NoTurn ==
  daemon'.todo = {} /\ daemon'.at \notin {"launch", "save", "pending"} => TurnOK'
  BY DEF TurnOK

(* The daemon goes to its next place and starts nothing.                     *)
LEMMA QuietDoers ==
  ASSUME AgentInv, DoersOK, TurnOK, NEW over \in BOOLEAN,
         Start \/ EndPass \/ Restart \/ Wake \/ Poll(over) \/ Crash
  PROVE  DoersOK' /\ TurnOK'
  <1>1. daemon'.todo = {} /\ daemon'.at \notin {"exec", "launch", "save", "pending"}
    <2>1. CASE Start
      BY <2>1, GoesOn, DaemonTypes DEF Start, Places
    <2>2. CASE EndPass \/ Restart \/ Wake \/ Poll(over) \/ Crash
      BY <2>2, EndPassKeeps, RestartKeeps, WakeKeeps, PollKeeps, CrashKeeps
    <2>3. QED
      BY <2>1, <2>2
  <1>2. TurnOK'
    BY <1>1, NoTurn
  <1>3. \A a \in Actions : Executing(a)' => Executing(a)
    BY <1>1 DEF Executing
  <1>4. CASE Start \/ EndPass \/ Restart
    <2>1. agent' = agent /\ script' = script /\ status' = status /\ loose' = loose
      BY <1>4 DEF Start, EndPass, Restart, marks, doers
    <2>2. QED
      BY <1>1, <1>2, <2>1, NothingDone, AllCalm
  <1>5. CASE Wake
    <2>1. script' = script /\ status' = status /\ loose' = loose
      BY <1>5 DEF Wake, marks
    <2>2. \A a \in Actions : Running(a)' \subseteq Running(a)
      BY <1>5, KillTypes DEF Wake, Running
    <2>3. \A a \in Actions : Calm(a)
      BY <1>3, <2>1, <2>2, SameCalm DEF Calm
    <2>4. QED
      BY <1>2, <2>1, <2>3, AllCalm
  <1>6. CASE Poll(over)
    <2>1. script' = script /\ Clear(Cleared) /\ Cleared \in SUBSET Actions
      BY <1>6 DEF Poll, CheckAgentHealth, Cleared
    <2>2. \A a \in Actions : Running(a)' \subseteq Running(a)
      BY <1>6, KillTypes DEF Poll, Running
    <2>3. Scripts' \subseteq Scripts
      BY <2>1, SameCalm
    <2>4. loose \subseteq loose' /\ \A a \in Actions \ loose' : Calm(a)
      BY <1>3, <2>1, <2>2, <2>3, ClearCalm
    <2>5. QED
      BY <1>2, <2>4, AllCalm
  <1>7. CASE Crash
    <2>1. agent' = agent /\ status' = status /\ loose' = loose
      BY <1>7 DEF Crash, marks
    <2>2. Scripts' \subseteq Scripts
      BY <1>7 DEF Crash, Scripts
    <2>3. \A a \in Actions : Calm(a)
      BY <1>3, <2>1, <2>2, SameCalm DEF Calm
    <2>4. QED
      BY <1>2, <2>1, <2>3, AllCalm
  <1>8. QED
    BY <1>4, <1>5, <1>6, <1>7

(* A date is taken while the assessment has no status; an action is listed   *)
(* while it has none.                                                        *)
LEMMA ListDoers ==
  ASSUME AgentInv, DoersOK, TurnOK, Advance \/ ListDue
  PROVE  DoersOK' /\ TurnOK'
  <1>1. agent' = agent /\ script' = script /\ status' = status /\ loose' = loose
    BY DEF Advance, TakeDate, ListDue, marks, doers
  <1>2. daemon'.at \in {"launch", "run"}
    BY TakeDateKeeps, ListDueKeeps
  <1>3. DoersOK'
    BY <1>1, <1>2, NothingDone, AllCalm
  <1>4. \A a \in Actions : Busy(a)' <=> Busy(a)
    BY <1>1, SameCalm
  <1>5. CASE Advance
    <2>1. daemon'.at = "launch" /\ daemon'.todo = {}
      BY <1>5, TakeDateKeeps, DaemonTypes
    <2>2. ~Busy(Assess)'
      BY <1>4, <1>5, Names DEF Advance, TakeDate, Idle
    <2>3. QED
      BY <1>3, <2>1, <2>2 DEF TurnOK
  <1>6. CASE ListDue
    <2>1. /\ daemon'.at = "run" /\ daemon'.cur = None
          /\ daemon'.todo = {[a |-> a, data |-> action[a]] : a \in {b \in Actions : Due(b)}}
      BY <1>6, ListDueKeeps
    <2>2. \A c \in daemon'.todo : ~Busy(c.a)'
      BY <1>4, <2>1 DEF Due
    <2>3. \A c, d \in daemon'.todo : c.a = d.a => c = d
      BY <2>1
    <2>4. QED
      BY <1>3, <2>1, <2>2, <2>3 DEF TurnOK
  <1>7. QED
    BY <1>5, <1>6

LEMMA RunawayDoers ==
  ASSUME AgentInv, DoersOK, TurnOK, NEW copy \in daemon.todo, Runaway(copy)
  PROVE  DoersOK' /\ TurnOK'
  <1>1. agent' = agent /\ script' = script /\ status' = status /\ loose' = loose
    BY DEF Runaway, marks, doers
  <1>2. /\ daemon'.at = "run" /\ daemon'.cur = None /\ daemon'.todo \subseteq daemon.todo
    BY RunawayKeeps
  <1>3. \A a \in Actions : Calm(a) /\ (Busy(a)' <=> Busy(a))
    BY <1>1, <1>2, NothingDone
  <1>4. QED
    BY <1>1, <1>2, <1>3, AllCalm, TurnKept

(* The end of a run: of an action that is not an agent's, it was the only    *)
(* doer.                                                                     *)
LEMMA LeaveDoers ==
  ASSUME AgentInv, DoersOK, TurnOK, NEW logged \in BOOLEAN, Fails(logged) \/ UpdateLastRun
  PROVE  DoersOK' /\ TurnOK'
  <1>1. agent' = agent /\ script' = script /\ loose' = loose /\ status' = Leave(daemon.cur.a)
    BY DEF Fails, UpdateLastRun, doers
  <1>2. /\ daemon.at \in {"exec", "save", "pending"} /\ daemon'.at = "run"
        /\ daemon'.cur = None /\ daemon'.todo = daemon.todo
    BY FailsKeeps, UpdateLastRunKeeps
  <1>3. PICK a \in Actions : a = daemon.cur.a
    BY <1>2, CurTypes
  <1>4. \A b \in Actions : Busy(b)' <=> (Busy(b) /\ ~(b = a /\ a \notin Ai))
    BY <1>1, <1>3, LeaveTypes DEF Busy
  <1>5. \A b \in Actions : ~Executing(b)' /\ Running(b)' = Running(b)
    BY <1>1, <1>2, SameCalm DEF Executing
  <1>6. Scripts' = Scripts
    BY <1>1, SameCalm
  <1>7. ASSUME NEW b \in Actions \ loose' PROVE Calm(b)
    <2>1. CASE b # a \/ a \in Ai
      BY <1>4, <1>5, <1>6, <2>1 DEF Calm
    <2>2. CASE b = a /\ a \notin Ai
      <3>1. b \notin loose /\ OneEach(b)
        BY <1>1 DEF DoersOK
      <3>2. Running(b) = {} /\ ~Scripting(b)
        <4>1. CASE daemon.at = "exec"
          BY <1>3, <2>2, <3>1, <4>1 DEF OneEach, Executing
        <4>2. CASE daemon.at = "save"
          BY <1>3, <2>2, <3>1, <4>2 DEF TurnOK, Doing
        <4>3. CASE daemon.at = "pending"
          BY <1>3, <2>2, <4>3 DEF TurnOK
        <4>4. QED
          BY <1>2, <4>1, <4>2, <4>3
      <3>3. ~Doing(b)'
        BY <1>5, <1>6, <3>2 DEF Doing, Scripting
      <3>4. QED
        BY <1>5, <1>6, <3>3 DEF Calm
    <2>3. QED
      BY <2>1, <2>2
  <1>8. QED
    BY <1>1, <1>2, <1>4, <1>7, AllCalm, TurnKept

(* The execution of an action that is not an agent's is over.                *)
LEMMA StepDoers ==
  ASSUME AgentInv, DoersOK, TurnOK, StepFails \/ Mechanical
  PROVE  DoersOK' /\ TurnOK'
  <1>1. agent' = agent /\ script' = script /\ status' = status /\ loose' = loose
    BY DEF StepFails, Mechanical, marks, doers
  <1>2. /\ daemon.at = "exec" /\ daemon'.at = "save" /\ daemon.cur.a \in Actions
        /\ daemon'.todo = daemon.todo /\ daemon'.cur = daemon.cur
    BY RunStepsKeep, GoesOn DEF StepFails, Mechanical, Places
  <1>3. \A a \in Actions : Calm(a) /\ (Busy(a)' <=> Busy(a))
    BY <1>1, <1>2, NothingDone
  <1>4. DoersOK'
    BY <1>1, <1>3, AllCalm
  <1>5. \A c \in daemon'.todo : c.a \in Actions /\ ~Busy(c.a)' /\ daemon'.cur.a # c.a
    BY <1>2, <1>3, DaemonTypes, CopyTypes DEF TurnOK
  <1>6. ASSUME NEW a \in Actions \ (loose' \cup Ai), daemon'.cur.a = a PROVE ~Doing(a)'
    <2>1. OneEach(a) /\ Executing(a)
      BY <1>1, <1>2, <1>6 DEF DoersOK, Executing
    <2>2. Running(a)' = {} /\ ~Scripting(a)'
      BY <1>1, <2>1, SameCalm DEF OneEach, Scripting
    <2>3. QED
      BY <1>2, <2>2 DEF Doing, Executing
  <1>7. \A c, d \in daemon'.todo : c.a = d.a => c = d
    BY <1>2 DEF TurnOK
  <1>8. QED
    BY <1>2, <1>4, <1>5, <1>6, <1>7 DEF TurnOK

(* A free slot is taken by the agent of the current action.                  *)
LEMMA DispatchIs ==
  ASSUME AgentInv, DispatchAi
  PROVE  \E t \in Slots : \A s \in Slots :
             IF s = t THEN /\ agent[s] = None /\ agent'[s] # None
                           /\ agent'[s].a = daemon.cur.a /\ agent'[s].at = "works"
             ELSE agent'[s] = agent[s]
  <1> DEFINE free == {s \in Slots : agent[s] = None}
             new == [a |-> daemon.cur.a, at |-> "works", ok |-> TRUE, data |-> None]
  <1>1. free # {} /\ free \subseteq Slots /\ agent' = [agent EXCEPT ![Min(free)] = new]
    BY DEF DispatchAi
  <1>2. new \in AgentState /\ new.a = daemon.cur.a /\ new.at = "works"
    BY DEF AgentState, DispatchAi
  <1>3. new # None
    BY <1>2, Names
  <1> HIDE DEF new
  <1>4. PICK t \in free : t = Min(free)
    BY <1>1, Lowest
  <1>5. t \in Slots /\ agent[t] = None
    BY <1>4
  <1>6. agent' = [agent EXCEPT ![t] = new]
    BY <1>1, <1>4
  <1> HIDE DEF free
  <1>7. \A s \in Slots : agent'[s] = IF s = t THEN new ELSE agent[s]
    BY <1>6 DEF AgentInv, WorkersOK
  <1>8. QED
    BY <1>2, <1>3, <1>5, <1>7

(* The execution becomes an agent.                                           *)
LEMMA DispatchDoers ==
  ASSUME AgentInv, DoersOK, TurnOK, DispatchAi
  PROVE  DoersOK' /\ TurnOK'
  <1>1. /\ daemon.at = "exec" /\ daemon'.at = "pending" /\ daemon.cur # None
        /\ daemon'.todo = daemon.todo /\ daemon'.cur = daemon.cur
    BY RunStepsKeep, GoesOn DEF DispatchAi, Places
  <1>2. PICK a \in Ai : a = daemon.cur.a
    BY DEF DispatchAi
  <1>3. script' = script /\ loose' = loose /\ Launched(a) /\ a \in Actions /\ a # Assess
    BY <1>2, Names DEF DispatchAi
  <1>4. PICK t \in Slots : \A s \in Slots :
            IF s = t THEN agent[s] = None /\ agent'[s] # None /\ agent'[s].a = a
            ELSE agent'[s] = agent[s]
    BY <1>2, DispatchIs
  <1>5. \A b \in Actions : Busy(b)' <=> (b = a \/ Busy(b))
    BY <1>3, LaunchedTypes DEF Busy
  <1>6. \A b \in Actions : ~Executing(b)' /\ Scripts' = Scripts
    BY <1>1, <1>3, SameCalm DEF Executing
  <1>7. ASSUME NEW b \in Actions \ loose PROVE OneEach(b)'
    <2>1. CASE b = a
      <3>1. OneEach(a) /\ Executing(a)
        BY <1>1, <1>2, <1>7, <2>1 DEF DoersOK, Executing
      <3>2. Running(a)' \subseteq {t}
        BY <1>4, <3>1 DEF OneEach, Running
      <3>3. \A s, u \in Running(a)' : s = u
        BY <3>2
      <3>4. ~Scripting(a)' /\ Busy(a)' /\ ~Executing(a)'
        BY <1>3, <1>5, <1>6 DEF Scripting
      <3>5. QED
        BY <2>1, <3>3, <3>4 DEF OneEach
    <2>2. CASE b # a
      <3>1. Running(b)' \subseteq Running(b)
        BY <1>4, <2>2 DEF Running
      <3>2. OneEach(b) /\ Calm(b)
        BY <1>5, <1>6, <1>7, <3>1 DEF Calm, DoersOK
      <3>3. QED
        BY <3>2, CalmKeeps
    <2>3. QED
      BY <2>1, <2>2
  <1>8. \A c \in daemon'.todo : ~Busy(c.a)' /\ daemon'.cur.a # c.a
    BY <1>1, <1>2, <1>5, DaemonTypes, CopyTypes DEF TurnOK
  <1>9. \A c, d \in daemon'.todo : c.a = d.a => c = d
    BY <1>1 DEF TurnOK
  <1>10. daemon'.at = "pending" /\ daemon'.cur.a \in Ai
    BY <1>1, <1>2
  <1>11. TurnOK'
    BY <1>8, <1>9, <1>10 DEF TurnOK
  <1>12. QED
    BY <1>3, <1>7, <1>11 DEF DoersOK

(* A script is launched: of a rerun, over whatever the status says, or of    *)
(* the backfill, while there is none.                                        *)
LEMMA ScriptDoers ==
  ASSUME AgentInv, DoersOK, TurnOK, Rerun \/ LaunchBackfill
  PROVE  DoersOK' /\ TurnOK'
  <1>1. daemon'.at \in {"backfill", "due"} /\ daemon'.todo = {}
    <2>1. CASE Rerun
      BY <2>1, GoesOn, DaemonTypes DEF Rerun, Places
    <2>2. CASE LaunchBackfill
      BY <2>2, LaunchBackfillKeeps, DaemonTypes DEF LaunchBackfill
    <2>3. QED
      BY <2>1, <2>2
  <1>2. agent' = agent /\ Launched(Assess) /\ loose \subseteq loose'
    BY DEF Rerun, LaunchBackfill
  <1>3. \A b \in Actions : Running(b)' = Running(b) /\ ~Executing(b)'
    BY <1>1, <1>2, SameCalm DEF Executing
  <1>4. \A b \in Actions : Busy(b)' <=> (b = Assess \/ Busy(b))
    BY <1>2, Names, LaunchedTypes DEF Busy
  <1>5. ASSUME Assess \notin loose' PROVE Scripts = {}
    <2>1. CASE Rerun
      BY <1>5, <2>1 DEF Rerun
    <2>2. CASE LaunchBackfill
      <3>1. ~Busy(Assess) /\ OneEach(Assess)
        BY <1>2, <1>5, <2>2, Names DEF LaunchBackfill, TurnOK, DoersOK
      <3>2. QED
        BY <3>1 DEF OneEach, Doing, Scripting
    <2>3. QED
      BY <2>1, <2>2
  <1>6. PICK t \in Slots : Scripts' \subseteq Scripts \cup {t}
    <2>1. PICK how \in {"watched", "loose"} :
              Scripts # Slots /\ script' = [script EXCEPT ![Min(Slots \ Scripts)] = how]
      BY DEF Rerun, LaunchBackfill
    <2>2. PICK t \in Slots \ Scripts : \A s \in Slots : script'[s] = IF s = t THEN how ELSE script[s]
      BY <2>1, ScriptTaken
    <2>3. QED
      BY <2>2 DEF Scripts
  <1>7. ASSUME NEW b \in Actions \ loose' PROVE OneEach(b)'
    <2>1. CASE b = Assess
      <3>1. \A s, u \in Scripts' : s = u
        BY <1>5, <1>6, <1>7, <2>1
      <3>2. Running(b)' = {} /\ Busy(b)' /\ ~Executing(b)'
        BY <1>3, <1>4, <1>7, <2>1, AssessIsNoAgent
      <3>3. QED
        BY <3>1, <3>2 DEF OneEach
    <2>2. CASE b # Assess
      <3>1. OneEach(b) /\ ~Scripting(b) /\ ~Scripting(b)'
        BY <1>2, <1>7, <2>2 DEF DoersOK, Scripting
      <3>2. QED
        BY <1>3, <1>4, <1>7, <2>2, <3>1 DEF OneEach, Doing
    <2>3. QED
      BY <2>1, <2>2
  <1>8. QED
    BY <1>1, <1>7, NoTurn DEF DoersOK

(* A run begins of an action that has no status, hence no doer.              *)
LEMMA BeginDoers ==
  ASSUME AgentInv, DoersOK, TurnOK, NEW copy \in daemon.todo, Begin(copy)
  PROVE  DoersOK' /\ TurnOK'
  <1>1. /\ copy.a \in Actions /\ daemon.at = "run" /\ daemon'.at = "exec" /\ daemon'.cur = copy
        /\ daemon'.todo = daemon.todo \ {copy}
    BY BeginKeeps
  <1>2. /\ agent' = agent /\ script' = script /\ loose' = loose /\ Launched(copy.a)
    BY DEF Begin, doers
  <1>3. \A b \in Actions : Busy(b)' <=> (b = copy.a \/ Busy(b))
    BY <1>1, <1>2, LaunchedTypes DEF Busy
  <1>4. Scripts' = Scripts /\ \A b \in Actions : Running(b)' = Running(b)
    BY <1>2, SameCalm
  <1>5. \A b \in Actions : Executing(b)' <=> b = copy.a
    BY <1>1 DEF Executing
  <1>6. ASSUME NEW b \in Actions \ loose PROVE OneEach(b)'
    <2>1. OneEach(b) /\ ~Executing(b)
      BY <1>1, <1>6 DEF DoersOK, Executing
    <2>2. CASE b = copy.a
      <3>1. Running(b) = {} /\ ~Scripting(b)
        BY <2>1, <2>2 DEF TurnOK, OneEach, Doing
      <3>2. QED
        BY <1>3, <1>4, <1>6, <2>2, <3>1 DEF OneEach, Scripting
    <2>3. CASE b # copy.a
      <3>1. Calm(b)
        BY <1>3, <1>4, <1>5, <1>6, <2>3 DEF Calm
      <3>2. QED
        BY <1>6, <2>1, <3>1, CalmKeeps
    <2>4. QED
      BY <2>2, <2>3
  <1>7. \A c \in daemon'.todo : ~Busy(c.a)' /\ daemon'.cur.a # c.a
    BY <1>1, <1>3, DaemonTypes, CopyTypes DEF TurnOK
  <1>8. \A c, d \in daemon'.todo : c.a = d.a => c = d
    BY <1>1 DEF TurnOK
  <1>9. TurnOK'
    BY <1>1, <1>7, <1>8 DEF TurnOK
  <1>10. QED
    BY <1>2, <1>6, <1>9 DEF DoersOK

DoersInv == AgentInv /\ DoersOK /\ TurnOK

LEMMA InitDoers == Init => DoersOK /\ TurnOK
  <1> SUFFICES ASSUME Init PROVE DoersOK /\ TurnOK
    OBVIOUS
  <1>1. daemon.at = "down" /\ daemon.todo = {}
    BY DownTypes DEF Init
  <1>2. \A a \in Actions : Running(a) = {} /\ ~Executing(a)
    BY <1>1 DEF Init, Running, Executing
  <1>3. Scripts = {}
    BY DEF Init, Scripts
  <1>4. QED
    BY <1>1, <1>2, <1>3 DEF DoersOK, OneEach, Doing, Scripting, TurnOK

LEMMA NextDoers == DoersInv /\ [Next]_vars => DoersInv'
  <1> SUFFICES ASSUME AgentInv, DoersOK, TurnOK, [Next]_vars PROVE DoersOK' /\ TurnOK'
    BY NextKeeps DEF DoersInv
  <1>1. ASSUME NEW a \in Actions,
               Tick \/ Grow(a) \/ RunAction(a) \/ Abort(a) \/ HealStaleAgent(a) \/ Queue \/ AskBackfill
        PROVE  DoersOK' /\ TurnOK'
    BY <1>1, OthersDoers
  <1>2. ASSUME NEW request \in {"restart", "rerun"}, Ask(request) PROVE DoersOK' /\ TurnOK'
    BY <1>2, Names, OthersDoers
  <1>3. CASE Start \/ Crash
    BY <1>3, QuietDoers
  <1>4. CASE Pass
    BY <1>4, ScriptDoers, ListDoers, BeginDoers, RunawayDoers, StepDoers, DispatchDoers,
       LeaveDoers, QuietDoers DEF Pass
  <1>5. ASSUME NEW over \in BOOLEAN, Poll(over) \/ Fails(over) PROVE DoersOK' /\ TurnOK'
    BY <1>5, QuietDoers, LeaveDoers
  <1>6. CASE StepFails
    BY <1>6, StepDoers
  <1>7. ASSUME NEW s \in Slots,
               \/ \E ok \in BOOLEAN : AgentEnds(s, ok)
               \/ WriteAction(s) \/ AgentDies(s) \/ ScriptEnds(s)
        PROVE  DoersOK' /\ TurnOK'
    BY <1>7, EndsDoers
  <1>8. CASE UNCHANGED vars
    BY <1>8, NothingDone, Beside DEF vars, doers, marks
  <1>9. QED
    BY <1>1, <1>2, <1>3, <1>4, <1>5, <1>6, <1>7, <1>8, Names DEF Next

LEMMA OneOrNone ==
  ASSUME NEW S, \A s, t \in S : s = t
  PROVE  Cardinality(S) \in {0, 1} /\ (S = {} => Cardinality(S) = 0)
  <1>1. CASE S = {}
    BY <1>1, FS_EmptySet
  <1>2. CASE S # {}
    <2>1. PICK s \in S : S = {s}
      BY <1>2
    <2>2. QED
      BY <1>2, <2>1, FS_Singleton
  <1>3. QED
    BY <1>1, <1>2

LEMMA DoersCounted == DoersInv => OneDoer
  <1> SUFFICES ASSUME DoersInv, NEW a \in Actions \ loose
               PROVE  Cardinality(Running(a)) + (IF a = Assess THEN Cardinality(Scripts) ELSE 0)
                          + (IF Executing(a) THEN 1 ELSE 0) <= 1
    BY DEF OneDoer
  <1>1. OneEach(a)
    BY DEF DoersInv, DoersOK
  <1>2. Cardinality(Running(a)) \in {0, 1} /\ (Running(a) = {} => Cardinality(Running(a)) = 0)
    BY <1>1, OneOrNone DEF OneEach
  <1>3. CASE a = Assess
    <2>1. Running(a) = {}
      BY <1>3, AssessIsNoAgent DEF DoersInv
    <2>2. \A s, t \in Scripts : s = t
      BY <1>1, <1>3 DEF OneEach, Scripting
    <2>3. Cardinality(Scripts) \in {0, 1} /\ (Scripts = {} => Cardinality(Scripts) = 0)
      BY <2>2, OneOrNone
    <2>4. Executing(a) => Scripts = {}
      BY <1>1, <1>3 DEF OneEach, Scripting
    <2>5. QED
      BY <1>2, <1>3, <2>1, <2>3, <2>4
  <1>4. CASE a # Assess
    <2>1. Executing(a) => Running(a) = {}
      BY <1>1 DEF OneEach
    <2>2. QED
      BY <1>2, <1>4, <2>1
  <1>5. QED
    BY <1>3, <1>4

(* An action has one agent or script at work, whatever is asked for, aborted *)
(* and killed meanwhile, unless a status was cleared beside a living one     *)
(* (the status of agent_<action>_status guards execute_action and the        *)
(* backfill, and only that).                                                 *)
THEOREM ActionOneDoer == Spec => []OneDoer
  <1>1. Init => DoersInv
    BY InitInv, InitDoers DEF DoersInv
  <1>2. QED
    BY <1>1, NextDoers, DoersCounted, PTL DEF Spec

-----------------------------------------------------------------------------
(* The backfill.  A date the flag has not come to was not launched, so that *)
(* the date taken from it is launched for the first time; one it has passed *)
(* was launched, is about to be, or was lost by a crash.                    *)

DatesOnce == \A d \in Dialog : launched[d] <= 1 /\ (backfill # None /\ d <= backfill => launched[d] = 0)
DateTaken ==
    daemon.at = "launch" =>
        backfill # None /\ backfill < daemon.date /\ launched[daemon.date] = 0
DatesPassed ==
    \A d \in Dialog :
        backfill # None /\ d > backfill =>
            launched[d] = 1 \/ d \in skipped \/ (daemon.at = "launch" /\ daemon.date = d)
BackfillOK == DatesOnce /\ DateTaken /\ DatesPassed

LEMMA BackfillIs == BackfillOK => BackfillCovers
  BY DEF BackfillOK, DatesOnce, DatesPassed, BackfillCovers

LEMMA BackfillTypes ==
  AgentInv => /\ backfill = None \/ backfill \in Nat
              /\ launched \in [Dialog -> Nat]
  BY LastDialog, DatesAre DEF AgentInv, RequestsOK, Dates

LEMMA SameBackfill ==
  ASSUME AgentInv, BackfillOK, UNCHANGED <<backfill, launched, skipped>>,
         daemon' = daemon \/ (daemon.at # "launch" /\ daemon'.at # "launch")
  PROVE  BackfillOK'
  <1>1. DatesOnce'
    BY DEF BackfillOK, DatesOnce
  <1>2. DateTaken'
    BY DEF BackfillOK, DateTaken
  <1>3. DatesPassed'
    BY DEF BackfillOK, DatesPassed
  <1>4. QED
    BY <1>1, <1>2, <1>3 DEF BackfillOK

LEMMA AskBackfillOK ==
  ASSUME AgentInv, BackfillOK, AskBackfill
  PROVE  BackfillOK'
  <1>1. /\ backfill = None /\ backfill' = Max(Dialog) /\ daemon' = daemon /\ launched' = launched
        /\ \A d \in Dialog : launched[d] = 0
    BY DEF AskBackfill
  <1>2. DatesOnce'
    BY <1>1 DEF DatesOnce
  <1>3. DateTaken'
    BY <1>1 DEF BackfillOK, DateTaken
  <1>4. DatesPassed'
    BY <1>1, LastDialog, DatesAre DEF DatesPassed
  <1>5. QED
    BY <1>2, <1>3, <1>4 DEF BackfillOK

LEMMA AdvanceBackfillOK ==
  ASSUME AgentInv, BackfillOK, Advance
  PROVE  BackfillOK'
  <1>1. PICK m \in Dialog : m = Max(Dialogs) /\ m \in Nat /\ backfill # None /\ m <= backfill
                            /\ \A d \in Dialog : d <= backfill => d <= m
    BY LastOfDialogs, DatesAre DEF Advance, TakeDate, AgentInv
  <1>2. /\ backfill' = m - 1 /\ launched' = launched /\ skipped' = skipped
        /\ daemon.at # "launch" /\ daemon'.at = "launch" /\ daemon'.date = m
    BY <1>1, TakeDateKeeps DEF Advance, TakeDate
  <1>3. backfill \in Nat /\ m - 1 # None
    BY <1>1, BackfillTypes, DatesAre, Numbers
  <1>4. DatesOnce'
    <2>1. ASSUME NEW d \in Dialog, d <= m - 1 PROVE launched[d] = 0
      <3>1. d <= backfill
        BY <1>1, <1>3, <2>1, DatesAre
      <3>2. QED
        BY <1>1, <3>1 DEF BackfillOK, DatesOnce
    <2>2. QED
      BY <1>2, <2>1 DEF BackfillOK, DatesOnce
  <1>5. DateTaken'
    <2>1. launched[m] = 0
      BY <1>1 DEF BackfillOK, DatesOnce
    <2>2. QED
      BY <1>1, <1>2, <1>3, <2>1 DEF DateTaken
  <1>6. DatesPassed'
    <2>1. ASSUME NEW d \in Dialog, d > m - 1
          PROVE  launched[d] = 1 \/ d \in skipped \/ d = m
      <3>1. CASE d > backfill
        BY <1>1, <1>2, <3>1 DEF BackfillOK, DatesPassed
      <3>2. CASE ~(d > backfill)
        <4>1. d <= m /\ d \in Nat
          BY <1>1, <1>3, <3>2, DatesAre
        <4>2. QED
          BY <1>1, <2>1, <4>1
      <3>3. QED
        BY <3>1, <3>2
    <2>2. QED
      BY <1>2, <2>1 DEF DatesPassed
  <1>7. QED
    BY <1>4, <1>5, <1>6 DEF BackfillOK

LEMMA LaunchBackfillOK ==
  ASSUME AgentInv, BackfillOK, LaunchBackfill
  PROVE  BackfillOK'
  <1>1. /\ daemon.at = "launch" /\ daemon'.at = "due" /\ backfill' = backfill /\ skipped' = skipped
        /\ launched' = [launched EXCEPT ![daemon.date] = @ + 1]
    BY LaunchBackfillKeeps DEF LaunchBackfill
  <1>2. PICK m \in Dialog : m = daemon.date /\ m \in Nat
    BY <1>1, DaemonTypes, DatesAre
  <1>3. backfill # None /\ backfill < m /\ launched[m] = 0 /\ backfill \in Nat
    BY <1>1, <1>2, BackfillTypes DEF BackfillOK, DateTaken
  <1>4. \A d \in Dialog : launched'[d] = IF d = m THEN 1 ELSE launched[d]
    BY <1>1, <1>2, <1>3, BackfillTypes
  <1>5. DatesOnce'
    <2>1. \A d \in Dialog : launched'[d] <= 1
      BY <1>4 DEF BackfillOK, DatesOnce
    <2>2. \A d \in Dialog : d <= backfill => launched'[d] = 0
      BY <1>2, <1>3, <1>4, DatesAre DEF BackfillOK, DatesOnce
    <2>3. QED
      BY <1>1, <2>1, <2>2 DEF DatesOnce
  <1>6. DateTaken'
    BY <1>1 DEF DateTaken
  <1>7. DatesPassed'
    <2>1. \A d \in Dialog : d > backfill => launched'[d] = 1 \/ d \in skipped
      BY <1>1, <1>2, <1>3, <1>4 DEF BackfillOK, DatesPassed
    <2>2. QED
      BY <1>1, <2>1 DEF DatesPassed
  <1>8. QED
    BY <1>5, <1>6, <1>7 DEF BackfillOK

LEMMA ListDueBackfillOK ==
  ASSUME AgentInv, BackfillOK, ListDue
  PROVE  BackfillOK'
  <1>1. /\ daemon.at # "launch" /\ daemon'.at = "run" /\ backfill' \in {None, backfill}
        /\ launched' = launched /\ skipped' = skipped
    BY ListDueKeeps DEF ListDue
  <1>2. DatesOnce' /\ DateTaken'
    BY <1>1 DEF BackfillOK, DatesOnce, DateTaken
  <1>3. DatesPassed'
    BY <1>1 DEF BackfillOK, DatesPassed
  <1>4. QED
    BY <1>2, <1>3 DEF BackfillOK

LEMMA CrashBackfillOK ==
  ASSUME AgentInv, BackfillOK, Crash
  PROVE  BackfillOK'
  <1>1. /\ daemon'.at = "down" /\ backfill' = backfill /\ launched' = launched
        /\ skipped' = IF daemon.at = "launch" THEN skipped \cup {daemon.date} ELSE skipped
    BY CrashKeeps DEF Crash
  <1>2. DatesOnce' /\ DateTaken'
    BY <1>1 DEF BackfillOK, DatesOnce, DateTaken
  <1>3. DatesPassed'
    BY <1>1 DEF BackfillOK, DatesPassed
  <1>4. QED
    BY <1>2, <1>3 DEF BackfillOK

BackfillInv == AgentInv /\ BackfillOK

LEMMA InitBackfill == Init => BackfillOK
  <1> SUFFICES ASSUME Init PROVE BackfillOK
    OBVIOUS
  <1>1. daemon.at = "down" /\ backfill \in {None, Max(Dialog)} /\ \A d \in Dialog : launched[d] = 0
    BY DownTypes DEF Init
  <1>2. \A d \in Dialog : ~(d > Max(Dialog))
    BY LastDialog, DatesAre
  <1>3. QED
    BY <1>1, <1>2 DEF BackfillOK, DatesOnce, DateTaken, DatesPassed

LEMMA NextBackfill == BackfillInv /\ [Next]_vars => BackfillInv'
  <1> SUFFICES ASSUME AgentInv, BackfillOK, [Next]_vars PROVE BackfillOK'
    BY NextKeeps DEF BackfillInv
  <1>1. ASSUME NEW a \in Actions,
               Tick \/ Grow(a) \/ RunAction(a) \/ Abort(a) \/ HealStaleAgent(a) \/ Queue
        PROVE  BackfillOK'
    BY <1>1, SameBackfill
       DEF Tick, Grow, RunAction, Abort, HealStaleAgent, Queue, requests
  <1>2. ASSUME NEW request \in {"restart", "rerun"}, Ask(request) PROVE BackfillOK'
    BY <1>2, SameBackfill DEF Ask
  <1>3. CASE Start \/ Rerun
    <2>1. daemon.at # "launch" /\ daemon'.at # "launch"
      BY <1>3, GoesOn DEF Start, Rerun, Places
    <2>2. QED
      BY <1>3, <2>1, SameBackfill DEF Start, Rerun, requests
  <1>4. ASSUME NEW copy \in daemon.todo, Begin(copy) \/ Runaway(copy) PROVE BackfillOK'
    <2>1. daemon.at # "launch" /\ daemon'.at # "launch"
      BY <1>4, BeginKeeps, RunawayKeeps DEF Runaway
    <2>2. QED
      BY <1>4, <2>1, SameBackfill DEF Begin, Runaway, requests
  <1>5. CASE StepFails \/ Mechanical \/ DispatchAi \/ UpdateLastRun
    <2>1. daemon.at # "launch" /\ daemon'.at # "launch"
      BY <1>5, RunStepsKeep, UpdateLastRunKeeps
    <2>2. QED
      BY <1>5, <2>1, SameBackfill DEF StepFails, Mechanical, DispatchAi, UpdateLastRun, requests
  <1>6. CASE EndPass \/ Restart \/ Wake
    <2>1. daemon.at # "launch" /\ daemon'.at # "launch"
      BY <1>6, EndPassKeeps, RestartKeeps, WakeKeeps DEF EndPass, Goes, Restart
    <2>2. QED
      BY <1>6, <2>1, SameBackfill DEF EndPass, Restart, Wake, requests
  <1>7. ASSUME NEW over \in BOOLEAN, Poll(over) \/ Fails(over) PROVE BackfillOK'
    <2>1. daemon.at # "launch" /\ daemon'.at # "launch"
      BY <1>7, PollKeeps, FailsKeeps
    <2>2. QED
      BY <1>7, <2>1, SameBackfill DEF Poll, Fails, requests
  <1>8. ASSUME NEW s \in Slots,
               \/ \E ok \in BOOLEAN : AgentEnds(s, ok)
               \/ WriteAction(s) \/ AgentDies(s) \/ ScriptEnds(s)
        PROVE  BackfillOK'
    BY <1>8, SameBackfill DEF AgentEnds, WriteAction, AgentDies, ScriptEnds, requests
  <1>9. CASE UNCHANGED vars
    BY <1>9, SameBackfill DEF vars, requests
  <1>10. QED
    BY <1>1, <1>2, <1>3, <1>4, <1>5, <1>6, <1>7, <1>8, <1>9, Names, AskBackfillOK,
       AdvanceBackfillOK, LaunchBackfillOK, ListDueBackfillOK, CrashBackfillOK DEF Next, Pass

(* The variables have their types in every state.                            *)
THEOREM ActionTypeCorrect == Spec => []TypeOK
  BY Invariance, InvTypes, PTL

(* A backfill launches the assessment of every date of the dialog, once, and *)
(* passes over none but one that a crash took between the save of the flag   *)
(* and the launch (assessment_backfill_all of action_agent.py).              *)
THEOREM ActionBackfillCovers == Spec => []BackfillCovers
  <1>1. Init => BackfillInv
    BY InitInv, InitBackfill DEF BackfillInv
  <1>2. BackfillInv => BackfillCovers
    BY BackfillIs DEF BackfillInv
  <1>3. QED
    BY <1>1, <1>2, NextBackfill, PTL DEF Spec

-----------------------------------------------------------------------------
(* The schedule.  Every copy of an action's data that somebody holds has its *)
(* configured time, and a retry only if an agent runs it (TimelyOK); an      *)
(* action has a retry while it runs, while the agent that will clear it has  *)
(* yet to save, or after a failure (RetriesOK); and an action neither asked  *)
(* for nor under way nor failed was stamped after its last run began         *)
(* (StampsOK).                                                               *)

Timely(a, data) ==
    /\ a \in Timed => IF data.config = None THEN data.sched = Moment ELSE data.config = Moment
    /\ data.retry # None => a \in Ai
Held == (daemon.todo \cup {daemon.cur, form}) \ {None}
Saving(s) == agent[s] # None /\ agent[s].at = "write"
TimelyOK ==
    /\ \A a \in Actions : Timely(a, action[a])
    /\ \A c \in Held : Timely(c.a, c.data)
    /\ \A s \in Slots : Saving(s) => Timely(agent[s].a, agent[s].data)

Clears(s, a) == Saving(s) /\ agent[s].a = a /\ agent[s].ok /\ agent[s].data.retry # None
RetriesOK ==
    \A a \in Actions \ excused :
        action[a].retry # None => Busy(a) \/ \E s \in Slots : Clears(s, a)

StampsOK ==
    \A a \in Actions \ (wanted \cup excused) :
        daemon.cur = None \/ daemon.cur.a # a =>
            action[a].last >= ran[a] /\ (a \in Timed => action[a].config = None)

SchedulesOK == TimelyOK /\ RetriesOK /\ StampsOK

LEMMA HeldTypes == AgentInv => Held \subseteq Copies
  BY DaemonTypes DEF Held, AgentInv, ScheduleOK

LEMMA SameTimely ==
  ASSUME AgentInv, TimelyOK, action' = action,
         \A c \in Held' : c \in Held \/ (c.a \in Actions /\ c.data = action[c.a]),
         \A s \in Slots : Saving(s)' => Saving(s) /\ agent'[s] = agent[s]
  PROVE  TimelyOK'
  <1>1. \A a \in Actions : Timely(a, action[a])'
    BY DEF TimelyOK, Timely
  <1>2. \A c \in Held' : Timely(c.a, c.data)
    BY DEF TimelyOK
  <1>3. \A s \in Slots : Saving(s)' => Timely(agent'[s].a, agent'[s].data)
    BY DEF TimelyOK
  <1>4. QED
    BY <1>1, <1>2, <1>3 DEF TimelyOK, Timely

LEMMA SameRetries ==
  ASSUME AgentInv, TimelyOK, RetriesOK, action' = action, excused \subseteq excused',
         \A s \in Slots : Saving(s) /\ agent[s].a \notin excused' => agent'[s] = agent[s],
         \A a \in Ai \ excused' : Busy(a) => Busy(a)'
  PROVE  RetriesOK'
  <1> SUFFICES ASSUME NEW a \in Actions \ excused', action[a].retry # None
               PROVE  Busy(a)' \/ \E s \in Slots : Clears(s, a)'
    BY DEF RetriesOK
  <1>1. a \in Ai
    BY DEF TimelyOK, Timely
  <1>2. Busy(a) \/ \E s \in Slots : Clears(s, a)
    BY DEF RetriesOK
  <1>3. ASSUME NEW s \in Slots, Clears(s, a) PROVE Clears(s, a)'
    BY <1>3 DEF Clears, Saving
  <1>4. QED
    BY <1>1, <1>2, <1>3

LEMMA SameStamps ==
  ASSUME AgentInv, StampsOK, action' = action, ran' = ran, wanted \subseteq wanted',
         excused \subseteq excused',
         \/ daemon'.cur = daemon.cur
         \/ daemon'.cur = None /\ (daemon.cur # None => daemon.cur.a \in excused')
  PROVE  StampsOK'
  <1> SUFFICES ASSUME NEW a \in Actions \ (wanted' \cup excused'),
                      daemon'.cur = None \/ daemon'.cur.a # a
               PROVE  action[a].last >= ran[a] /\ (a \in Timed => action[a].config = None)
    BY DEF StampsOK
  <1>1. daemon.cur = None \/ daemon.cur.a # a
    OBVIOUS
  <1>2. QED
    BY <1>1 DEF StampsOK

(* The requests and the pages, but for a run_action.                         *)
LEMMA OthersSchedules ==
  ASSUME AgentInv, SchedulesOK, NEW a \in Actions, NEW request \in {"restart", "rerun"},
         \/ Tick \/ Grow(a) \/ RunAction(a) \/ Abort(a) \/ HealStaleAgent(a)
         \/ Ask(request) \/ AskBackfill
  PROVE  SchedulesOK'
  <1>1. /\ daemon' = daemon /\ agent' = agent /\ action' = action /\ ran' = ran
        /\ wanted' = wanted /\ excused \subseteq excused'
    BY DEF Tick, Grow, RunAction, Abort, HealStaleAgent, Ask, AskBackfill, doers, schedule
  <1>2. \A s \in Slots : Saving(s)' <=> Saving(s)
    BY <1>1 DEF Saving
  <1>3. form' = form \/ (form'.a \in Actions /\ form'.data = action[form'.a])
    BY DEF Tick, Grow, RunAction, Abort, HealStaleAgent, Ask, AskBackfill
  <1>4. TimelyOK'
    BY <1>1, <1>2, <1>3, SameTimely DEF SchedulesOK, Held
  <1>5. \A b \in Ai \ excused' : Busy(b) => Busy(b)'
    <2>1. CASE Tick \/ RunAction(a) \/ Ask(request) \/ AskBackfill
      BY <2>1 DEF Tick, RunAction, Ask, AskBackfill, marks, Busy
    <2>2. CASE Grow(a)
      BY <2>2, Names DEF Grow, Busy, AgentInv, MarksOK
    <2>3. CASE Abort(a) \/ HealStaleAgent(a)
      BY <2>3, Names, ClearTypes DEF Abort, HealStaleAgent, Busy
    <2>4. QED
      BY <2>1, <2>2, <2>3
  <1>6. RetriesOK'
    BY <1>1, <1>5, SameRetries DEF SchedulesOK
  <1>7. StampsOK'
    BY <1>1, SameStamps DEF SchedulesOK
  <1>8. QED
    BY <1>4, <1>6, <1>7 DEF SchedulesOK

(* The steps of the daemon that save nothing and begin no run.               *)
LEMMA DaemonSchedules ==
  ASSUME AgentInv, TurnOK, SchedulesOK, NEW over \in BOOLEAN,
         \/ Start \/ Rerun \/ Advance \/ LaunchBackfill \/ ListDue \/ StepFails \/ Mechanical
         \/ EndPass \/ Restart \/ Wake \/ Poll(over) \/ Fails(over) \/ Crash
  PROVE  SchedulesOK'
  <1>1. /\ action' = action /\ ran' = ran /\ wanted' = wanted /\ excused \subseteq excused'
        /\ form' = form
    BY DEF Start, Rerun, Advance, TakeDate, LaunchBackfill, ListDue, StepFails, Mechanical,
           EndPass, Restart, Wake, Poll, Fails, Crash, schedule
  <1>2. \A s \in Slots : (Saving(s)' <=> Saving(s)) /\ (Saving(s) => agent'[s] = agent[s])
    <2>1. CASE Wake \/ Poll(over)
      BY <2>1, KillTypes DEF Wake, Poll, Alive, Saving
    <2>2. CASE ~(Wake \/ Poll(over))
      <3>1. agent' = agent
        BY <2>2 DEF Start, Rerun, Advance, TakeDate, LaunchBackfill, ListDue, StepFails,
                    Mechanical, EndPass, Restart, Fails, Crash, doers
      <3>2. QED
        BY <3>1 DEF Saving
    <2>3. QED
      BY <2>1, <2>2
  <1>3. /\ \/ daemon'.cur = daemon.cur
           \/ daemon'.cur = None /\ (daemon.cur # None => daemon.cur.a \in excused')
        /\ \A c \in daemon'.todo : c \in daemon.todo \/ (c.a \in Actions /\ c.data = action[c.a])
    <2>1. CASE Start \/ Rerun
      BY <2>1, GoesOn DEF Start, Rerun, Places
    <2>2. CASE Advance \/ LaunchBackfill
      BY <2>2, TakeDateKeeps, LaunchBackfillKeeps
    <2>3. CASE ListDue
      BY <2>3, ListDueKeeps
    <2>4. CASE StepFails \/ Mechanical
      BY <2>4, RunStepsKeep
    <2>5. CASE EndPass \/ Restart
      BY <2>5, EndPassKeeps, RestartKeeps, DaemonTypes DEF EndPass, Goes, Restart
    <2>6. CASE Wake \/ Poll(over)
      BY <2>6, WakeKeeps, PollKeeps
    <2>7. CASE Fails(over)
      BY <2>7, FailsKeeps DEF Fails
    <2>8. CASE Crash
      BY <2>8, CrashKeeps DEF Crash
    <2>9. QED
      BY <2>1, <2>2, <2>3, <2>4, <2>5, <2>6, <2>7, <2>8
  <1>4. TimelyOK'
    BY <1>1, <1>2, <1>3, SameTimely DEF SchedulesOK, Held
  <1>5. \A a \in Ai \ excused' : Busy(a) => Busy(a)'
    <2>1. CASE Rerun \/ LaunchBackfill
      BY <2>1, Names, LaunchedTypes DEF Rerun, LaunchBackfill, Busy
    <2>2. CASE Poll(over)
      <3>1. Clear(Cleared) /\ Cleared \in SUBSET Actions /\ Cleared \subseteq excused'
        BY <2>2 DEF Poll, CheckAgentHealth, Cleared
      <3>2. QED
        BY <3>1, Names, ClearTypes DEF Busy
    <2>3. CASE Fails(over)
      BY <2>3, FailsKeeps, CurTypes, LeaveTypes, Names DEF Fails, Busy
    <2>4. CASE ~(Rerun \/ LaunchBackfill \/ Poll(over) \/ Fails(over))
      <3>1. status' = status
        BY <2>4 DEF Start, Advance, TakeDate, ListDue, StepFails, Mechanical, EndPass, Restart,
                    Wake, Crash, marks
      <3>2. QED
        BY <3>1 DEF Busy
    <2>5. QED
      BY <2>1, <2>2, <2>3, <2>4
  <1>6. RetriesOK'
    BY <1>1, <1>2, <1>5, SameRetries DEF SchedulesOK
  <1>7. StampsOK'
    BY <1>1, <1>3, SameStamps DEF SchedulesOK
  <1>8. QED
    BY <1>4, <1>6, <1>7 DEF SchedulesOK

(* The agents and scripts, but for what an agent reads and saves.            *)
LEMMA WorkersSchedules ==
  ASSUME AgentInv, SchedulesOK, NEW s \in Slots, DispatchAi \/ AgentDies(s) \/ ScriptEnds(s)
  PROVE  SchedulesOK'
  <1>1. /\ action' = action /\ ran' = ran /\ wanted' = wanted /\ excused \subseteq excused'
        /\ form' = form
    BY DEF DispatchAi, AgentDies, ScriptEnds, schedule
  <1>2. /\ \A t \in Slots : Saving(t)' => Saving(t) /\ agent'[t] = agent[t]
        /\ \A t \in Slots : Saving(t) /\ agent[t].a \notin excused' => agent'[t] = agent[t]
    <2>1. CASE DispatchAi
      BY <2>1, DispatchIs DEF Saving
    <2>2. CASE AgentDies(s)
      BY <2>2 DEF AgentDies, Saving, AgentInv, WorkersOK
    <2>3. CASE ScriptEnds(s)
      BY <2>3 DEF ScriptEnds, Saving
    <2>4. QED
      BY <2>1, <2>2, <2>3
  <1>3. daemon'.cur = daemon.cur /\ daemon'.todo = daemon.todo
    BY RunStepsKeep, AgentDiesKeeps, ScriptEndsKeeps
  <1>4. TimelyOK'
    BY <1>1, <1>2, <1>3, SameTimely DEF SchedulesOK, Held
  <1>5. \A a \in Ai \ excused' : Busy(a) => Busy(a)'
    <2>1. CASE DispatchAi
      BY <2>1, Names, LaunchedTypes DEF DispatchAi, Busy
    <2>2. CASE AgentDies(s)
      BY <2>2 DEF AgentDies, marks, Busy
    <2>3. CASE ScriptEnds(s)
      BY <2>3, Names DEF ScriptEnds, Busy, AgentInv, MarksOK
    <2>4. QED
      BY <2>1, <2>2, <2>3
  <1>6. RetriesOK'
    BY <1>1, <1>2, <1>5, SameRetries DEF SchedulesOK
  <1>7. StampsOK'
    BY <1>1, <1>3, SameStamps DEF SchedulesOK
  <1>8. QED
    BY <1>4, <1>6, <1>7 DEF SchedulesOK

(* An action's data is saved, as one of the copies that are held.            *)
LEMMA PutTimely ==
  ASSUME AgentInv, TimelyOK, NEW a \in Actions, NEW data \in Data, Timely(a, data),
         action' = [action EXCEPT ![a] = data],
         Held' \subseteq Held,
         \A s \in Slots : Saving(s)' => Saving(s) /\ agent'[s] = agent[s]
  PROVE  TimelyOK' /\ \A b \in Actions : action'[b] = IF b = a THEN data ELSE action[b]
  <1>1. \A b \in Actions : action'[b] = IF b = a THEN data ELSE action[b]
    BY DEF AgentInv, ScheduleOK
  <1>2. \A b \in Actions : Timely(b, action'[b])
    BY <1>1 DEF TimelyOK
  <1>3. \A c \in Held' : Timely(c.a, c.data)
    BY DEF TimelyOK
  <1>4. \A s \in Slots : Saving(s)' => Timely(agent'[s].a, agent'[s].data)
    BY DEF TimelyOK
  <1>5. QED
    BY <1>1, <1>2, <1>3, <1>4 DEF TimelyOK, Timely

LEMMA RetriesKept ==
  ASSUME TimelyOK', RetriesOK,
         \A a \in Actions \ excused' : action'[a].retry # None =>
             a \notin excused /\ action[a].retry # None,
         \A a \in Ai \ excused' : action'[a].retry # None /\ Busy(a) =>
             Busy(a)' \/ \E s \in Slots : Clears(s, a)',
         \A a \in Ai \ excused' : \A s \in Slots :
             action'[a].retry # None /\ Clears(s, a) => Clears(s, a)'
  PROVE  RetriesOK'
  <1> SUFFICES ASSUME NEW a \in Actions \ excused', action'[a].retry # None
               PROVE  Busy(a)' \/ \E s \in Slots : Clears(s, a)'
    BY DEF RetriesOK
  <1>1. a \in Ai
    BY DEF TimelyOK, Timely
  <1>2. Busy(a) \/ \E s \in Slots : Clears(s, a)
    BY DEF RetriesOK
  <1>3. QED
    BY <1>1, <1>2

LEMMA StampedTimely ==
  ASSUME AgentInv, NEW c \in Copies, NEW clear \in BOOLEAN, Timely(c.a, c.data)
  PROVE  Timely(c.a, Stamped(c, clear)) /\ Stamped(c, clear) \in Data
  <1>1. /\ Stamped(c, clear) \in Data /\ Stamped(c, clear).config = None
        /\ Stamped(c, clear).sched = IF c.data.config # None THEN c.data.config ELSE c.data.sched
        /\ Stamped(c, clear).retry = IF clear THEN None ELSE c.data.retry
    BY StampedIs DEF AgentInv
  <1>2. QED
    BY <1>1 DEF Timely

(* A run is asked for.                                                       *)
LEMMA QueueSchedules ==
  ASSUME AgentInv, SchedulesOK, Queue
  PROVE  SchedulesOK'
  <1>1. /\ form \in Copies /\ form # None /\ form' = None /\ daemon' = daemon /\ agent' = agent
        /\ ran' = ran /\ status' = status
    BY DEF Queue, doers, marks, AgentInv, ScheduleOK
  <1>2. PICK a \in Actions : a = form.a
    BY <1>1, CopyTypes
  <1>3. PICK old \in Data : old = form.data
    BY <1>1, CopyTypes
  <1>4. PICK data \in Data : data = Forced(a, old)
    BY ForcedIs DEF AgentInv
  <1>5. Timely(a, old)
    BY <1>1, <1>2, <1>3 DEF SchedulesOK, TimelyOK, Held
  <1>6. Timely(a, data) /\ data.retry = old.retry
    <2>1. /\ data.retry = old.retry
          /\ a \in Timed => data.config = IF old.config = None THEN old.sched ELSE old.config
      BY <1>4, ForcedIs DEF AgentInv
    <2>2. Moment # None
      BY Numbers
    <2>3. QED
      BY <1>5, <2>1, <2>2 DEF Timely
  <1>7. /\ action' = [action EXCEPT ![a] = data]
        /\ excused' = excused \cup (IF action[a] # old THEN {a} ELSE {})
        /\ wanted' = wanted \cup {a}
    BY <1>2, <1>3, <1>4 DEF Queue, Put, Over
  <1>8. TimelyOK' /\ \A b \in Actions : action'[b] = IF b = a THEN data ELSE action[b]
    <2>1. Held' \subseteq Held
      BY <1>1 DEF Held
    <2>2. \A s \in Slots : Saving(s)' => Saving(s) /\ agent'[s] = agent[s]
      BY <1>1 DEF Saving
    <2>3. QED
      BY <1>6, <1>7, <2>1, <2>2, PutTimely DEF SchedulesOK
  <1>9. RetriesOK'
    <2>1. \A b \in Actions \ excused' : b \notin excused /\ action'[b].retry = action[b].retry
      BY <1>6, <1>7, <1>8
    <2>2. \A b \in Actions : Busy(b)' = Busy(b) /\ \A s \in Slots : Clears(s, b)' = Clears(s, b)
      BY <1>1 DEF Busy, Clears, Saving
    <2>3. QED
      BY <1>8, <2>1, <2>2, Names, RetriesKept DEF SchedulesOK
  <1>10. StampsOK'
    BY <1>1, <1>7, <1>8 DEF SchedulesOK, StampsOK
  <1>11. QED
    BY <1>8, <1>9, <1>10 DEF SchedulesOK

LEMMA RunawaySchedules ==
  ASSUME AgentInv, SchedulesOK, NEW copy \in daemon.todo, Runaway(copy)
  PROVE  SchedulesOK'
  <1>1. /\ copy \in Copies /\ copy.a \in Actions /\ copy # None
        /\ daemon.cur = None /\ daemon'.cur = None /\ daemon'.todo = daemon.todo \ {copy}
    BY RunawayKeeps, Names
  <1>2. /\ form' = form /\ agent' = agent /\ ran' = ran /\ status' = status
        /\ excused \subseteq excused'
    BY DEF Runaway, doers, marks
  <1>3. PICK a \in Actions : a = copy.a
    BY <1>1
  <1>4. Timely(a, copy.data)
    BY <1>1, <1>3 DEF SchedulesOK, TimelyOK, Held
  <1>5. PICK data \in Data : data = Stamped(copy, TRUE)
    BY <1>1, StampedIs DEF AgentInv
  <1>6. Timely(a, data) /\ data.retry = None /\ data.last = now /\ data.config = None
    BY <1>1, <1>3, <1>4, <1>5, StampedTimely, StampedIs DEF AgentInv
  <1>7. action' = [action EXCEPT ![a] = data] /\ wanted' = wanted \ {a}
    BY <1>3, <1>5 DEF Runaway, Put
  <1>8. TimelyOK' /\ \A b \in Actions : action'[b] = IF b = a THEN data ELSE action[b]
    <2>1. Held' \subseteq Held
      BY <1>1, <1>2 DEF Held
    <2>2. \A s \in Slots : Saving(s)' => Saving(s) /\ agent'[s] = agent[s]
      BY <1>2 DEF Saving
    <2>3. QED
      BY <1>6, <1>7, <2>1, <2>2, PutTimely DEF SchedulesOK
  <1>9. RetriesOK'
    <2>1. \A b \in Actions : Busy(b)' = Busy(b) /\ \A s \in Slots : Clears(s, b)' = Clears(s, b)
      BY <1>2 DEF Busy, Clears, Saving
    <2>2. QED
      BY <1>2, <1>6, <1>8, <2>1, Names, RetriesKept DEF SchedulesOK
  <1>10. StampsOK'
    <2>1. now >= ran[a]
      BY Numbers DEF AgentInv, ClockOK
    <2>2. QED
      BY <1>1, <1>2, <1>6, <1>7, <1>8, <2>1 DEF SchedulesOK, StampsOK
  <1>11. QED
    BY <1>8, <1>9, <1>10 DEF SchedulesOK

LEMMA UpdateSchedules ==
  ASSUME AgentInv, TurnOK, SchedulesOK, UpdateLastRun
  PROVE  SchedulesOK'
  <1>1. /\ daemon.at \in {"save", "pending"} /\ daemon.cur \in Copies /\ daemon.cur # None
        /\ daemon'.cur = None /\ daemon'.todo = daemon.todo
    BY UpdateLastRunKeeps, CurTypes
  <1>2. /\ form' = form /\ agent' = agent /\ ran' = ran /\ excused \subseteq excused'
        /\ status' = Leave(daemon.cur.a)
    BY DEF UpdateLastRun, doers
  <1>3. PICK copy \in Copies : copy = daemon.cur
    BY <1>1
  <1>4. PICK a \in Actions : a = copy.a
    BY CopyTypes
  <1>5. Timely(a, copy.data)
    BY <1>1, <1>3, <1>4 DEF SchedulesOK, TimelyOK, Held
  <1>6. PICK clear \in BOOLEAN : clear = (daemon.at = "save")
    OBVIOUS
  <1>7. PICK data \in Data : data = Stamped(copy, clear)
    BY StampedIs DEF AgentInv
  <1>8. /\ Timely(a, data) /\ data.last = now /\ data.config = None
        /\ data.retry = IF clear THEN None ELSE copy.data.retry
    BY <1>4, <1>5, <1>7, StampedTimely, StampedIs DEF AgentInv
  <1>9. /\ action' = [action EXCEPT ![a] = data] /\ wanted' = wanted \ {a}
        /\ excused' = excused \cup (IF action[a] # copy.data THEN {a} ELSE {})
    BY <1>3, <1>4, <1>6, <1>7 DEF UpdateLastRun, Put, Over
  <1>10. TimelyOK' /\ \A b \in Actions : action'[b] = IF b = a THEN data ELSE action[b]
    <2>1. Held' \subseteq Held
      BY <1>1, <1>2 DEF Held
    <2>2. \A s \in Slots : Saving(s)' => Saving(s) /\ agent'[s] = agent[s]
      BY <1>2 DEF Saving
    <2>3. QED
      BY <1>8, <1>9, <2>1, <2>2, PutTimely DEF SchedulesOK
  <1>11. RetriesOK'
    <2>1. \A b \in Actions \ excused' : action'[b].retry # None => action[b].retry # None
      BY <1>8, <1>9, <1>10
    <2>2. \A b \in Ai : Busy(b) => Busy(b)'
      BY <1>2, <1>3, <1>4, Names, LeaveTypes DEF Busy
    <2>3. \A b \in Actions, s \in Slots : Clears(s, b)' = Clears(s, b)
      BY <1>2 DEF Clears, Saving
    <2>4. QED
      BY <1>2, <1>10, <2>1, <2>2, <2>3, Names, RetriesKept DEF SchedulesOK
  <1>12. StampsOK'
    <2>1. now >= ran[a]
      BY Numbers DEF AgentInv, ClockOK
    <2>2. QED
      BY <1>1, <1>2, <1>3, <1>4, <1>8, <1>9, <1>10, <2>1 DEF SchedulesOK, StampsOK
  <1>13. QED
    BY <1>10, <1>11, <1>12 DEF SchedulesOK

LEMMA BeginSchedules ==
  ASSUME AgentInv, SchedulesOK, NEW copy \in daemon.todo, Begin(copy)
  PROVE  SchedulesOK'
  <1>1. /\ copy.a \in Actions /\ copy \in Copies /\ copy # None /\ daemon.cur = None
        /\ daemon'.cur = copy /\ daemon'.todo = daemon.todo \ {copy}
    BY BeginKeeps, Names
  <1>2. /\ form' = form /\ agent' = agent /\ action' = action /\ Launched(copy.a)
        /\ wanted' = wanted \ {copy.a} /\ excused' = excused \ {copy.a}
        /\ ran' = [ran EXCEPT ![copy.a] = now]
    BY DEF Begin, doers
  <1>3. TimelyOK'
    BY <1>1, <1>2, SameTimely DEF SchedulesOK, Held, Saving
  <1>4. RetriesOK'
    <2>1. \A b \in Actions : Busy(b)' <=> (b = copy.a \/ Busy(b))
      BY <1>1, <1>2, LaunchedTypes DEF Busy
    <2>2. \A b \in Actions, s \in Slots : Clears(s, b)' = Clears(s, b)
      BY <1>2 DEF Clears, Saving
    <2>3. QED
      BY <1>2, <2>1, <2>2 DEF SchedulesOK, RetriesOK
  <1>5. StampsOK'
    <2>1. \A b \in Actions : b # copy.a => ran'[b] = ran[b]
      BY <1>2 DEF AgentInv, ClockOK
    <2>2. QED
      BY <1>1, <1>2, <2>1 DEF SchedulesOK, StampsOK
  <1>6. QED
    BY <1>3, <1>4, <1>5 DEF SchedulesOK

(* The agent that ends has read the retry it will clear.                     *)
LEMMA AgentEndsSchedules ==
  ASSUME AgentInv, SchedulesOK, NEW s \in Slots, NEW ok \in BOOLEAN, AgentEnds(s, ok)
  PROVE  SchedulesOK'
  <1>1. /\ daemon' = daemon /\ form' = form /\ action' = action /\ ran' = ran /\ wanted' = wanted
        /\ excused \subseteq excused'
    BY DEF AgentEnds
  <1>2. PICK a \in Actions : a = agent[s].a /\ a \in Ai /\ agent[s].at = "works"
    BY AgentEndsIs, Names
  <1>3. PICK new \in AgentState :
            /\ agent' = [agent EXCEPT ![s] = new]
            /\ new.a = a /\ new.at = "write" /\ new.ok = ok /\ new.data = action[a]
    BY <1>2, AgentEndsIs
  <1>4. \A t \in Slots : agent'[t] = IF t = s THEN new ELSE agent[t]
    BY <1>3 DEF AgentInv, WorkersOK
  <1>5. TimelyOK'
    <2>1. \A b \in Actions : Timely(b, action'[b])
      BY <1>1 DEF SchedulesOK, TimelyOK
    <2>2. \A c \in Held' : Timely(c.a, c.data)
      BY <1>1 DEF SchedulesOK, TimelyOK, Held
    <2>3. \A t \in Slots : Saving(t)' => Timely(agent'[t].a, agent'[t].data)
      BY <1>3, <1>4 DEF SchedulesOK, TimelyOK, Saving
    <2>4. QED
      BY <2>1, <2>2, <2>3 DEF TimelyOK, Timely
  <1>6. RetriesOK'
    <2>1. \A b \in Ai : Busy(b) => Busy(b)' \/ b = a
      BY <1>2, Names DEF AgentEnds, Busy, AgentInv, MarksOK
    <2>2. a \notin excused' => ok
      BY <1>2 DEF AgentEnds
    <2>3. a \notin excused' /\ action[a].retry # None => Clears(s, a)'
      BY <1>3, <1>4, <2>2, Names DEF Clears, Saving
    <2>4. \A b \in Actions, t \in Slots : Clears(t, b) => Clears(t, b)'
      BY <1>2, <1>4 DEF Clears, Saving
    <2>5. QED
      BY <1>1, <1>5, <2>1, <2>3, <2>4, Names, RetriesKept DEF SchedulesOK
  <1>7. StampsOK'
    BY <1>1, SameStamps DEF SchedulesOK
  <1>8. QED
    BY <1>5, <1>6, <1>7 DEF SchedulesOK

LEMMA SettledTimely ==
  ASSUME AgentInv, NEW a \in Ai, NEW data \in Data, NEW ok \in BOOLEAN, Timely(a, data)
  PROVE  Timely(a, Settled(data, ok)) /\ Settled(data, ok) \in Data
  BY SettledIs DEF AgentInv, Timely

LEMMA WriteSchedules ==
  ASSUME AgentInv, SchedulesOK, NEW s \in Slots, WriteAction(s)
  PROVE  SchedulesOK'
  <1>1. Saving(s) /\ agent' = [agent EXCEPT ![s] = None] /\ daemon' = daemon
    BY DEF WriteAction, Saving
  <1>2. /\ form' = form /\ ran' = ran /\ status' = status
    BY DEF WriteAction, marks
  <1>3. PICK a \in Ai : a = agent[s].a /\ a \in Actions
    BY <1>1, AgentTypes DEF Saving
  <1>4. PICK old \in Data : old = agent[s].data
    BY <1>1, AgentTypes DEF Saving
  <1>5. PICK ok \in BOOLEAN : ok = agent[s].ok
    BY <1>1, AgentTypes DEF Saving
  <1>6. Timely(a, old)
    BY <1>1, <1>3, <1>4 DEF SchedulesOK, TimelyOK
  <1>7. PICK data \in Data : data = Settled(old, ok)
    BY SettledIs DEF AgentInv
  <1>8. /\ Timely(a, data) /\ data.last = old.last /\ data.config = old.config
        /\ ok => data.retry = None
    BY <1>6, <1>7, SettledTimely, SettledIs DEF AgentInv
  <1>9. /\ \A t \in Slots : agent'[t] = IF t = s THEN None ELSE agent[t]
        /\ \A t \in Slots : Saving(t)' => Saving(t) /\ agent'[t] = agent[t]
    BY <1>1 DEF Saving, AgentInv, WorkersOK
  <1>10. \A b \in Actions, t \in Slots : Clears(t, b) => Clears(t, b)' \/ (t = s /\ b = a)
    BY <1>3, <1>9 DEF Clears, Saving
  <1>11. \A b \in Actions : Busy(b)' = Busy(b)
    BY <1>2 DEF Busy
  <1>12. CASE ok /\ data = old
    <2>1. action' = action /\ excused' = excused /\ wanted' = wanted
      BY <1>3, <1>4, <1>5, <1>7, <1>12 DEF WriteAction
    <2>2. TimelyOK'
      BY <1>1, <1>2, <1>9, <2>1, SameTimely DEF SchedulesOK, Held
    <2>3. ~Clears(s, a)
      BY <1>4, <1>8, <1>12 DEF Clears
    <2>4. \A b \in Actions, t \in Slots : Clears(t, b) => Clears(t, b)'
      BY <1>10, <2>3
    <2>5. RetriesOK'
      BY <1>11, <2>1, <2>2, <2>4, Names, RetriesKept DEF SchedulesOK
    <2>6. StampsOK'
      BY <1>1, <1>2, <2>1, SameStamps DEF SchedulesOK
    <2>7. QED
      BY <2>2, <2>5, <2>6 DEF SchedulesOK
  <1>13. CASE ~(ok /\ data = old)
    <2>1. /\ action' = [action EXCEPT ![a] = data] /\ excused \subseteq excused'
          /\ excused' \subseteq excused \cup {a}
          /\ action[a] # old \/ ~ok => a \in excused'
          /\ wanted \subseteq wanted' \cup excused'
      <3> DEFINE copy == [a |-> a, data |-> old]
      <3>1. /\ Put(copy, data)
            /\ excused' = excused \cup Over(copy) \cup {b \in {copy.a} : ~ok}
            /\ wanted' = wanted \ Over(copy)
        BY <1>3, <1>4, <1>5, <1>7, <1>13 DEF WriteAction
      <3>2. Over(copy) = IF action[a] # old THEN {a} ELSE {}
        BY DEF Over
      <3>3. QED
        BY <3>1, <3>2 DEF Put
    <2>2. TimelyOK' /\ \A b \in Actions : action'[b] = IF b = a THEN data ELSE action[b]
      <3>1. Held' \subseteq Held
        BY <1>1, <1>2 DEF Held
      <3>2. QED
        BY <1>3, <1>8, <1>9, <2>1, <3>1, PutTimely DEF SchedulesOK
    <2>3. RetriesOK'
      <3>1. a \notin excused' => action'[a].retry = None
        BY <1>3, <1>8, <2>1, <2>2
      <3>2. \A b \in Actions \ excused' : action'[b].retry # None =>
                b # a /\ b \notin excused /\ action[b].retry # None
        BY <2>1, <2>2, <3>1
      <3>3. QED
        BY <1>10, <1>11, <2>2, <3>2, Names, RetriesKept DEF SchedulesOK
    <2>4. StampsOK'
      <3> SUFFICES ASSUME NEW b \in Actions \ (wanted' \cup excused'),
                          daemon.cur = None \/ daemon.cur.a # b
                   PROVE  action'[b].last >= ran[b] /\ (b \in Timed => action'[b].config = None)
        BY <1>1, <1>2 DEF StampsOK
      <3>1. action[b].last >= ran[b] /\ (b \in Timed => action[b].config = None)
        BY <2>1 DEF SchedulesOK, StampsOK
      <3>2. b = a => action[b] = old
        BY <2>1
      <3>3. action'[b].last = action[b].last /\ action'[b].config = action[b].config
        BY <1>8, <2>2, <3>2
      <3>4. QED
        BY <3>1, <3>3
    <2>5. QED
      BY <2>2, <2>3, <2>4 DEF SchedulesOK
  <1>14. QED
    BY <1>12, <1>13

ScheduleInv == DoersInv /\ SchedulesOK

LEMMA InitSchedules == Init => SchedulesOK
  <1> SUFFICES ASSUME Init PROVE SchedulesOK
    OBVIOUS
  <1>1. /\ \A a \in Actions : action[a] = IF a \in wanted THEN Forced(a, Fresh) ELSE Fresh
        /\ \A a \in Actions : ran[a] = DayLen - 1
    BY DEF Init
  <1>2. /\ Fresh \in Data /\ Fresh.retry = None /\ Fresh.sched = Moment /\ Fresh.config = None
        /\ Fresh.last = DayLen - 1
    BY Numbers DEF Fresh, Data
  <1>3. ClockOK
    BY InitInv DEF AgentInv
  <1>4. \A a \in Actions : Timely(a, action[a]) /\ action[a].retry = None
    <2>1. \A a \in Actions :
              /\ Forced(a, Fresh).retry = None
              /\ a \in Timed => Forced(a, Fresh).config = Moment
      BY <1>2, <1>3, ForcedIs
    <2>2. QED
      BY <1>1, <1>2, <2>1, Numbers DEF Timely
  <1>5. Held = {}
    BY DownTypes DEF Held, Init
  <1>6. \A s \in Slots : ~Saving(s)
    BY DEF Init, Saving
  <1>7. TimelyOK /\ RetriesOK
    BY <1>4, <1>5, <1>6 DEF TimelyOK, RetriesOK
  <1>8. StampsOK
    BY <1>1, <1>2, Numbers DEF StampsOK
  <1>9. QED
    BY <1>7, <1>8 DEF SchedulesOK

LEMMA NextSchedules == ScheduleInv /\ [Next]_vars => ScheduleInv'
  <1> SUFFICES ASSUME AgentInv, TurnOK, SchedulesOK, [Next]_vars PROVE SchedulesOK'
    BY NextDoers DEF ScheduleInv, DoersInv
  <1>1. ASSUME NEW a \in Actions,
               Tick \/ Grow(a) \/ RunAction(a) \/ Abort(a) \/ HealStaleAgent(a) \/ AskBackfill
        PROVE  SchedulesOK'
    BY <1>1, OthersSchedules
  <1>2. ASSUME NEW request \in {"restart", "rerun"}, Ask(request) PROVE SchedulesOK'
    BY <1>2, Names, OthersSchedules
  <1>3. CASE Start \/ StepFails \/ Crash
    BY <1>3, DaemonSchedules
  <1>4. CASE Pass
    <2>1. CASE DispatchAi
      BY <2>1, DispatchIs, WorkersSchedules
    <2>2. CASE Rerun \/ Advance \/ LaunchBackfill \/ ListDue
      BY <2>2, DaemonSchedules
    <2>3. CASE Mechanical \/ EndPass \/ Restart \/ Wake
      BY <2>3, DaemonSchedules
    <2>4. CASE (\E copy \in daemon.todo : Begin(copy) \/ Runaway(copy)) \/ UpdateLastRun
      BY <2>4, BeginSchedules, RunawaySchedules, UpdateSchedules
    <2>5. QED
      BY <1>4, <2>1, <2>2, <2>3, <2>4 DEF Pass
  <1>5. ASSUME NEW over \in BOOLEAN, Poll(over) \/ Fails(over) PROVE SchedulesOK'
    BY <1>5, DaemonSchedules
  <1>6. CASE Queue
    BY <1>6, QueueSchedules
  <1>7. ASSUME NEW s \in Slots,
               \/ \E ok \in BOOLEAN : AgentEnds(s, ok)
               \/ WriteAction(s) \/ AgentDies(s) \/ ScriptEnds(s)
        PROVE  SchedulesOK'
    BY <1>7, AgentEndsSchedules, WriteSchedules, WorkersSchedules
  <1>8. CASE UNCHANGED vars
    <2>1. /\ action' = action /\ ran' = ran /\ wanted' = wanted /\ excused' = excused
          /\ form' = form /\ daemon' = daemon /\ agent' = agent /\ status' = status
      BY <1>8 DEF vars, schedule, marks, doers
    <2>2. TimelyOK'
      BY <2>1, SameTimely DEF SchedulesOK, Held, Saving
    <2>3. RetriesOK'
      BY <2>1, SameRetries DEF SchedulesOK, Busy
    <2>4. StampsOK'
      BY <2>1, SameStamps DEF SchedulesOK
    <2>5. QED
      BY <2>2, <2>3, <2>4 DEF SchedulesOK
  <1>9. QED
    BY <1>1, <1>2, <1>3, <1>4, <1>5, <1>6, <1>7, <1>8, Names DEF Next

(* A pass lists only what has come.                                          *)

LEMMA DayOf ==
  ASSUME NEW n \in Nat, NEW k \in Nat \ {0}, NEW m \in 0..(k - 1)
  PROVE  /\ n - (n % k) + m \in Nat /\ (n - (n % k) + m) % k = m
         /\ n - (n % k) + m + k > n
  <1>1. n = k * (n \div k) + (n % k) /\ n \div k \in Nat /\ n % k \in 0..(k - 1)
    OBVIOUS
  <1>2. PICK q \in Nat : n = k * q + (n % k)
    BY <1>1
  <1>3. PICK r \in 0..(k - 1) : r = n % k
    BY <1>1
  <1>4. n - (n % k) + m = k * q + m /\ k * q \in Nat
    BY <1>2, <1>3
  <1>5. (k * q + m) % k = m
    OBVIOUS
  <1>6. QED
    BY <1>2, <1>3, <1>4, <1>5

LEMMA DueHasCome ==
  ASSUME AgentInv, SchedulesOK, daemon.cur = None, NEW a \in Actions \ (wanted \cup excused), Due(a)
  PROVE  Come(a) \/ Settling(a)
  <1>1. SUFFICES ASSUME ~Settling(a) PROVE Come(a)
    OBVIOUS
  <1>2. PICK data \in Data : data = action[a]
    BY DEF AgentInv, ScheduleOK
  <1>3. data.retry = None
    BY <1>1, <1>2 DEF Due, SchedulesOK, RetriesOK, Clears, Saving, Settling
  <1>4. data.last >= ran[a] /\ (a \in Timed => data.config = None)
    BY <1>2 DEF SchedulesOK, StampsOK
  <1>5. data.last \in Nat /\ ran[a] \in Nat /\ now \in Nat
    BY DataParts, Numbers DEF AgentInv, ClockOK
  <1>6. NextDue(a, data) <= now
    BY <1>2 DEF Due
  <1>7. CASE a \notin Timed
    <2>1. NextDue(a, data) = data.last + Interval
      BY <1>3, <1>7 DEF NextDue
    <2>2. ran[a] + Interval <= now
      BY <1>4, <1>5, <1>6, <2>1, Numbers
    <2>3. QED
      BY <1>7, <2>2 DEF Come
  <1>8. CASE a \in Timed
    <2>1. data.sched = Moment
      BY <1>2, <1>4, <1>8 DEF SchedulesOK, TimelyOK, Timely
    <2>2. PICK today \in Nat : /\ today = now - (now % DayLen) + Moment
                               /\ today % DayLen = Moment /\ today + DayLen > now
      BY <1>5, Numbers, DayOf
    <2>3. NextDue(a, data) = IF today > data.last THEN today ELSE today + DayLen
      BY <1>3, <1>8, <2>1, <2>2 DEF NextDue
    <2>4. today > data.last /\ today <= now
      BY <1>6, <2>2, <2>3, Numbers, <1>5
    <2>5. today \in (ran[a] + 1)..now
      BY <1>4, <1>5, <2>4
    <2>6. QED
      BY <1>8, <2>2, <2>5 DEF Come
  <1>9. QED
    BY <1>7, <1>8

Listed ==
    \A copy \in daemon'.todo \ daemon.todo :
        Come(copy.a) \/ copy.a \in wanted \cup excused \/ Settling(copy.a)

LEMMA OnlyListDueLists ==
  ASSUME AgentInv, [Next]_vars, ~ListDue
  PROVE  daemon'.todo \subseteq daemon.todo
  <1>1. ASSUME NEW a \in Actions, Tick \/ Grow(a) \/ RunAction(a) \/ Abort(a) \/ HealStaleAgent(a)
        PROVE  daemon' = daemon
    BY <1>1 DEF Tick, Grow, RunAction, Abort, HealStaleAgent
  <1>2. ASSUME NEW request \in {"restart", "rerun"}, Queue \/ AskBackfill \/ Ask(request)
        PROVE  daemon' = daemon
    BY <1>2 DEF Queue, AskBackfill, Ask
  <1>3. CASE Start \/ Rerun
    BY <1>3, GoesOn DEF Start, Rerun, Places
  <1>4. CASE Pass
    <2>1. CASE Rerun \/ Advance \/ LaunchBackfill
      BY <1>3, <2>1, TakeDateKeeps, LaunchBackfillKeeps
    <2>2. CASE Mechanical \/ DispatchAi \/ UpdateLastRun
      BY <2>2, RunStepsKeep, UpdateLastRunKeeps
    <2>3. CASE \E copy \in daemon.todo : Begin(copy) \/ Runaway(copy)
      BY <2>3, BeginKeeps, RunawayKeeps
    <2>4. CASE EndPass \/ Restart \/ Wake
      BY <2>4, EndPassKeeps, RestartKeeps, WakeKeeps
    <2>5. QED
      BY <1>4, <2>1, <2>2, <2>3, <2>4 DEF Pass
  <1>5. ASSUME NEW over \in BOOLEAN, Poll(over) \/ Fails(over)
        PROVE  daemon'.todo \subseteq daemon.todo
    BY <1>5, PollKeeps, FailsKeeps
  <1>6. CASE StepFails \/ Crash
    BY <1>6, RunStepsKeep, CrashKeeps
  <1>7. ASSUME NEW s \in Slots,
               \/ \E ok \in BOOLEAN : AgentEnds(s, ok)
               \/ WriteAction(s) \/ AgentDies(s) \/ ScriptEnds(s)
        PROVE  daemon' = daemon
    BY <1>7, AgentEndsKeeps, WriteActionKeeps, AgentDiesKeeps, ScriptEndsKeeps
  <1>8. CASE UNCHANGED vars
    BY <1>8 DEF vars
  <1>9. QED
    BY <1>1, <1>2, <1>3, <1>4, <1>5, <1>6, <1>7, <1>8, Names DEF Next

LEMMA StepLists == ScheduleInv /\ [Next]_vars => Listed
  <1> SUFFICES ASSUME AgentInv, SchedulesOK, [Next]_vars, NEW copy \in daemon'.todo \ daemon.todo
               PROVE  Come(copy.a) \/ copy.a \in wanted \cup excused \/ Settling(copy.a)
    BY DEF ScheduleInv, DoersInv, Listed
  <1>1. ListDue
    BY OnlyListDueLists
  <1>2. copy.a \in Actions /\ Due(copy.a) /\ daemon.cur = None
    BY <1>1, ListDueKeeps
  <1>3. QED
    BY <1>2, DueHasCome

(* An action runs when it is configured to: whoever saves which copy of its  *)
(* data in which order, the configured time is kept (scheduled_time_config), *)
(* and get_due_actions lists it only for a moment that has come since its    *)
(* last run, unless it was asked for, that run failed or was given up, data  *)
(* was saved over a change, or the agent of a retry has yet to save.         *)
THEOREM ActionScheduleKept == Spec => ScheduleKept
  <1>1. Init => ScheduleInv
    BY InitInv, InitDoers, InitSchedules DEF ScheduleInv, DoersInv
  <1>2. ScheduleInv => TimeKept
    BY Names DEF ScheduleInv, SchedulesOK, TimelyOK, Timely, TimeKept
  <1>3. Spec => []TimeKept
    BY <1>1, <1>2, NextSchedules, PTL DEF Spec
  <1>4. Spec => [][Listed]_vars
    BY <1>1, NextSchedules, StepLists, PTL DEF Spec
  <1>5. QED
    BY <1>3, <1>4, PTL DEF ScheduleKept, Listed
=============================================================================
