--------------------------- MODULE WranglerProofs ---------------------------
(* Proofs about Wrangler: its type invariant, that a row has at most one    *)
(* live agent and is done only when its agent has ended, and that the clock *)
(* fires only what a scheduled moment or a failed run has earned, for any   *)
(* actions, schedule, chain, number of rows and number of faults.           *)
EXTENDS Wrangler, FiniteSetTheorems, WellFoundedInduction, TLAPS

Pids == Launches \ {0}
Live(w, n) == doer[w][n].at \notin {"none", "gone"}

(* The rows are inserted one after another. *)
RowsInOrder ==
    \E k \in 0..NumWorkers : \A w \in Workers : row[w].status # "none" <=> w <= k

(* What the pids of a row's agents are: only rows of AI runs have any, in   *)
(* the order of their launches, and a handler between launch and record     *)
(* holds the last one.                                                      *)
LaunchInv(w) ==
    /\ row[w].status = "none" => handler[w].at = "none" /\ row[w].launches = 0
    /\ row[w].type = "abort" =>
           /\ row[w].launches = 0
           /\ handler[w].at # "launched"
           /\ row[w].target \in Workers
           /\ row[row[w].target].status # "none"
    /\ row[w].type = "run" => handler[w].at # "kill"
    /\ \A n \in Pids : n > row[w].launches => doer[w][n].at = "none"
    /\ handler[w].at = "launched" => handler[w].pid = row[w].launches

(* The agent of a row is the one launched last, and the row knows it: it is *)
(* running with the agent's pid recorded, or its handler is about to record *)
(* it, or an abort or the agent has ended the row.                          *)
AgentInv(w) ==
    /\ handler[w].at = "run" => row[w].status \in {"running", "failed"}
    /\ \A n \in Pids : Live(w, n) =>
        /\ n = row[w].launches
        /\ row[w].status # "pending"
        /\ handler[w].at # "run"
        /\ row[w].status = "running" /\ handler[w].at = "none" => row[w].pid = n
        /\ doer[w][n].at = "stray" => row[w].status = "failed"
        /\ doer[w][n].at = "agent" => row[w].status # "done"

RowInv(w) == LaunchInv(w) /\ (w \notin orphaned => AgentInv(w))

WranglerInv == TypeOK /\ RowsInOrder /\ \A w \in Workers : RowInv(w)

-----------------------------------------------------------------------------
(* Lemmas on rows and numbers.                                              *)

LEMMA Numbers ==
  /\ NumWorkers \in Nat \ {0} /\ MaxTime \in Nat \ {0} /\ MaxFaults \in Nat
  /\ MaxRetries \in Nat
  /\ Workers \subseteq Nat \ {0} /\ Launches \subseteq Nat /\ 0 \in Launches
  BY WranglerAssumption DEF WranglerAssumption, Workers, Launches

(* The newest of some rows is one of them. *)
LEMMA MaxOfRows ==
  ASSUME NEW S, S \subseteq Workers, S # {}
  PROVE  Max(S) \in S
  <1> DEFINE T == {n \in Nat : NumWorkers - n \in S}
             R == OpToRel(<, Nat)
  <1>1. NumWorkers \in Nat /\ S \subseteq 1..NumWorkers
    BY Numbers DEF Workers
  <1>2. T \subseteq Nat /\ T # {}
    <2>1. PICK x \in S : TRUE
      OBVIOUS
    <2>2. NumWorkers - x \in Nat /\ NumWorkers - (NumWorkers - x) = x
      BY <1>1
    <2>3. NumWorkers - x \in T
      BY <2>2
    <2>4. QED
      BY <2>3
  <1>3. PICK m \in T : \A n \in T : ~ (<<n, m>> \in R)
    <2> HIDE DEF T
    <2>1. QED
      BY <1>2, NatLessThanWellFounded, WFMin, Zenon
  <1>4. \A n \in T : ~ (n < m)
    BY <1>2, <1>3 DEF OpToRel
  <1>5. ASSUME NEW y \in S PROVE NumWorkers - m >= y
    <2>1. NumWorkers - y \in Nat /\ NumWorkers - (NumWorkers - y) = y
      BY <1>1
    <2>2. ~ (NumWorkers - y < m)
      BY <1>4, <2>1
    <2>3. QED
      BY <1>1, <2>1, <2>2
  <1>6. QED
    BY <1>5 DEF Max

(* So the next row to be inserted is the first free one. *)
LEMMA RowsCounted ==
  ASSUME TypeOK, RowsInOrder
  PROVE  /\ Rows \in 0..NumWorkers
         /\ \A w \in Workers : row[w].status # "none" <=> w <= Rows
  <1>1. PICK k \in 0..NumWorkers : \A w \in Workers : row[w].status # "none" <=> w <= k
    BY DEF RowsInOrder
  <1>2. {w \in Workers : row[w].status # "none"} = 1..k
    BY <1>1, Numbers DEF Workers
  <1>3. Cardinality(1..k) = k
    BY <1>1, FS_Interval, Numbers
  <1>4. Rows = k
    BY <1>2, <1>3 DEF Rows
  <1>5. QED
    BY <1>1, <1>4

-----------------------------------------------------------------------------
(* Type correctness.                                                        *)

LEMMA StartTypes ==
  /\ NoData \in Data /\ NoRow \in Row /\ NoHandler \in HandlerState /\ NoDoer \in DoerState
  /\ \A a \in Actions : PendingRun(a) \in Row
  /\ Ended("gone") \in DoerState /\ Ended("stray") \in DoerState
  <1>1. NoData \in Data
    BY Numbers DEF NoData, Data
  <1>2. NoRow \in Row /\ NoHandler \in HandlerState
    BY Numbers DEF NoRow, Row, RowStates, NoHandler, HandlerState
  <1>3. NoDoer \in DoerState /\ Ended("gone") \in DoerState /\ Ended("stray") \in DoerState
    BY <1>1 DEF NoDoer, DoerState, Ended
  <1>4. \A a \in Actions : PendingRun(a) \in Row
    BY <1>2 DEF PendingRun, Row, RowStates
  <1>5. QED
    BY <1>1, <1>2, <1>3, <1>4

LEMMA InitTypeOK == Init => TypeOK
  <1> SUFFICES ASSUME Init PROVE TypeOK
    OBVIOUS
  <1>1. now \in 1..MaxTime /\ faults \in 0..MaxFaults /\ firedAt \in [Actions -> 0..MaxTime]
    BY Numbers DEF Init
  <1>2. /\ action \in [Actions -> Data]
        /\ row \in [Workers -> Row]
        /\ handler \in [Workers -> HandlerState]
        /\ doer \in [Workers -> [Launches \ {0} -> DoerState]]
    BY StartTypes DEF Init
  <1>3. \A w \in Workers : row[w].status = "none"
    BY DEF Init, NoRow
  <1>4. QED
    BY <1>1, <1>2, <1>3 DEF Init, TypeOK

LEMMA InsertTypes ==
  ASSUME TypeOK, RowsInOrder, NEW new \in Row, new.action \in Actions, Insert(new)
  PROVE  /\ row' \in [Workers -> Row]
         /\ \A w \in Workers : row'[w].status # "none" => row'[w].action \in Actions
         /\ Rows + 1 \in Workers /\ row' = [row EXCEPT ![Rows + 1] = new]
  <1>1. /\ Rows \in Nat /\ Rows + 1 \in Workers
        /\ row' = [row EXCEPT ![Rows + 1] = new]
    BY RowsCounted, Numbers DEF Insert, Workers
  <1>2. QED
    BY <1>1 DEF TypeOK

LEMMA RetryTypes ==
  ASSUME TypeOK, NEW data \in Data
  PROVE  ScheduledRetry(data) \in Data /\ ClearedRetry(data) \in Data
  <1>1. now \in Nat /\ 0 \in 0..MaxRetries
    BY Numbers DEF TypeOK
  <1>2. data.retryCount \in 0..MaxRetries
    BY DEF Data
  <1>3. ASSUME NEW after \in Nat, NEW count \in 0..MaxRetries
        PROVE  [data EXCEPT !.retryAfter = after, !.retryCount = count] \in Data
    BY <1>3 DEF Data
  <1>4. ClearedRetry(data) \in Data
    BY <1>1, <1>3 DEF ClearedRetry
  <1>5. ScheduledRetry(data) \in Data
    <2>1. CASE data.retryCount >= MaxRetries
      BY <1>1, <1>3, <2>1 DEF ScheduledRetry
    <2>2. CASE ~(data.retryCount >= MaxRetries)
      <3>1. now + Backoff[data.retryCount] \in Nat
        BY <1>1, <1>2, WranglerAssumption DEF WranglerAssumption
      <3>2. data.retryCount + 1 \in 0..MaxRetries
        BY <1>2, <2>2, Numbers
      <3>3. QED
        BY <1>3, <2>2, <3>1, <3>2 DEF ScheduledRetry
    <2>3. QED
      BY <2>1, <2>2
  <1>6. QED
    BY <1>4, <1>5

(* Changes of one row, handler or doer.                                     *)
LEMMA StatusTypes ==
  ASSUME TypeOK, NEW w \in Workers, NEW status \in RowStates,
         row[w].status # "none", row' = [row EXCEPT ![w].status = status]
  PROVE  /\ row' \in [Workers -> Row]
         /\ \A v \in Workers : row'[v].status # "none" => row'[v].action \in Actions
  BY DEF TypeOK, Row

LEMMA DoerTypes ==
  ASSUME TypeOK, NEW w \in Workers, NEW n \in Launches \ {0}, NEW new \in DoerState,
         doer' = [doer EXCEPT ![w][n] = new]
  PROVE  doer' \in [Workers -> [Launches \ {0} -> DoerState]]
  BY DEF TypeOK

LEMMA DoerGoesTo ==
  ASSUME TypeOK, NEW w \in Workers, NEW n \in Launches \ {0},
         NEW at \in {"agent", "close", "read", "write", "chain", "stray", "gone"},
         doer' = [doer EXCEPT ![w][n].at = at]
  PROVE  doer' \in [Workers -> [Launches \ {0} -> DoerState]]
  <1>1. doer[w][n] \in DoerState
    BY DEF TypeOK
  <1>2. [doer[w][n] EXCEPT !.at = at] \in DoerState
    BY <1>1 DEF DoerState
  <1>3. doer' = [doer EXCEPT ![w][n] = [doer[w][n] EXCEPT !.at = at]]
    BY DEF TypeOK
  <1>4. QED
    BY <1>2, <1>3, DoerTypes

-----------------------------------------------------------------------------
(* What a step leaves of the invariant.  Most steps change one row: the     *)
(* others keep theirs, whatever their agents do next.                       *)

RowsStay == \A v \in Workers : row[v].status = "none" <=> row'[v].status = "none"

AgentMoves(w) ==
    \A n \in Pids :
        \/ doer'[w][n].at = doer[w][n].at
        \/ Live(w, n) /\ doer'[w][n].at \in {"close", "read", "write", "chain", "gone"}

LEMMA RowKept ==
  ASSUME NEW w \in Workers, RowInv(w), AgentMoves(w),
         \A v \in Workers : row[v].status # "none" => row'[v].status # "none",
         row'[w] = row[w], handler'[w] = handler[w], w \in orphaned => w \in orphaned'
  PROVE  RowInv(w)'
  <1>1. LaunchInv(w)'
    <2>1. LaunchInv(w)
      BY DEF RowInv
    <2>2. \A n \in Pids : doer[w][n].at = "none" => doer'[w][n].at = "none"
      BY DEF AgentMoves, Live
    <2>3. QED
      BY <2>1, <2>2 DEF LaunchInv, Pids
  <1>2. ASSUME w \notin orphaned' PROVE AgentInv(w)'
    <2>1. AgentInv(w)
      BY <1>2 DEF RowInv
    <2>2. ASSUME NEW n \in Pids, Live(w, n)'
          PROVE  /\ Live(w, n)
                 /\ doer'[w][n].at \in {"stray", "agent"} => doer'[w][n].at = doer[w][n].at
      BY <2>2 DEF AgentMoves, Live
    <2>3. QED
      BY <2>1, <2>2 DEF AgentInv, Pids
  <1>3. QED
    BY <1>1, <1>2 DEF RowInv

LEMMA OrderKept ==
  ASSUME RowsInOrder, RowsStay
  PROVE  RowsInOrder'
  BY DEF RowsInOrder, RowsStay

(* A row with a launch is there; one without has no agent.                  *)
LEMMA LaunchedRow ==
  ASSUME TypeOK, NEW w \in Workers, RowInv(w)
  PROVE  /\ row[w].status = "none" \/ row[w].type = "abort" =>
                \A n \in Pids : doer[w][n].at = "none"
         /\ \A n \in Pids : doer[w][n].at # "none" => n <= row[w].launches
  <1>1. row[w].launches \in Nat /\ Pids \subseteq Nat \ {0}
    BY Numbers DEF TypeOK, Row, Pids
  <1>2. QED
    BY <1>1 DEF RowInv, LaunchInv

(* A new row has no agents.                                                 *)
LEMMA NewRow ==
  ASSUME TypeOK, NEW w \in Workers, RowInv(w), row[w].status = "none",
         \A n \in Pids : doer'[w][n].at = doer[w][n].at,
         handler' = handler, row'[w].status = "pending", row'[w].launches = 0,
         row'[w].type = "abort" =>
             row'[w].target \in Workers /\ row'[row'[w].target].status # "none"
  PROVE  RowInv(w)'
  <1>1. handler'[w].at = "none" /\ \A n \in Pids : doer'[w][n].at = "none"
    BY LaunchedRow DEF RowInv, LaunchInv
  <1>2. QED
    BY <1>1 DEF RowInv, LaunchInv, AgentInv, Live

(* A step of one row's handler or doer.                                     *)
LEMMA OneRowChanges ==
  ASSUME WranglerInv, NEW w \in Workers, TypeOK', RowsStay, RowInv(w)',
         orphaned' = orphaned,
         \A v \in Workers \ {w} :
             row'[v] = row[v] /\ handler'[v] = handler[v] /\ AgentMoves(v)
  PROVE  WranglerInv'
  <1>1. RowsInOrder'
    BY OrderKept DEF WranglerInv
  <1>2. ASSUME NEW v \in Workers \ {w} PROVE RowInv(v)'
    BY RowKept DEF WranglerInv, RowsStay
  <1>3. QED
    BY <1>1, <1>2 DEF WranglerInv

-----------------------------------------------------------------------------
(* The wrangler's handlers.                                                 *)

LEMMA TakeKeeps ==
  ASSUME WranglerInv, NEW w \in Workers, Take(w)
  PROVE  WranglerInv'
  <1>1. /\ row'[w] = [row[w] EXCEPT !.status = "running"] /\ handler'[w].at = "run"
        /\ row[w] \in Row /\ row[w].status = "pending"
        /\ RowInv(w) /\ doer' = doer /\ orphaned' = orphaned
    BY DEF Take, WranglerInv, TypeOK, history
  <1>2. TypeOK'
    <2>1. /\ row' \in [Workers -> Row]
          /\ \A v \in Workers : row'[v].status # "none" => row'[v].action \in Actions
      BY StatusTypes DEF Take, WranglerInv, RowStates
    <2>2. handler' \in [Workers -> HandlerState]
      BY DEF Take, WranglerInv, TypeOK, HandlerState
    <2>3. QED
      BY <2>1, <2>2 DEF Take, WranglerInv, TypeOK, history
  <1>3. RowsStay
    BY DEF Take, WranglerInv, TypeOK, RowsStay
  <1>4. RowInv(w)'
    <2>1. LaunchInv(w)'
      BY <1>1, <1>3 DEF RowInv, LaunchInv, Row, RowsStay
    <2>2. w \notin orphaned => AgentInv(w)'
      BY <1>1 DEF RowInv, AgentInv, Live, Row
    <2>3. QED
      BY <1>1, <2>1, <2>2 DEF RowInv
  <1>5. QED
    BY <1>1, <1>2, <1>3, <1>4, OneRowChanges DEF Take, WranglerInv, TypeOK, AgentMoves

(* A handler that ends its row has no agent to leave behind.                *)
LEMMA EndingKeeps ==
  ASSUME WranglerInv, NEW w \in Workers, NEW status \in {"done", "failed"},
         handler[w].at = "run", row' = Close(w, status), Return(w),
         UNCHANGED <<now, action, claimed, doer, shown, faults, history>>
  PROVE  WranglerInv'
  <1>1. row' = [row EXCEPT ![w].status = status]
    BY DEF Close
  <1>2. /\ row'[w] = [row[w] EXCEPT !.status = status] /\ handler'[w] = NoHandler
        /\ row[w] \in Row /\ row[w].status # "none"
        /\ RowInv(w) /\ doer' = doer /\ orphaned' = orphaned
    BY <1>1 DEF Return, WranglerInv, TypeOK, history, RowInv, LaunchInv
  <1>3. TypeOK'
    <2>1. /\ row' \in [Workers -> Row]
          /\ \A v \in Workers : row'[v].status # "none" => row'[v].action \in Actions
      BY <1>1, <1>2, StatusTypes DEF WranglerInv, RowStates
    <2>2. handler' \in [Workers -> HandlerState]
      BY StartTypes DEF Return, WranglerInv, TypeOK
    <2>3. QED
      BY <2>1, <2>2 DEF WranglerInv, TypeOK, history
  <1>4. RowsStay
    BY <1>1, <1>2 DEF WranglerInv, TypeOK, RowsStay
  <1>5. RowInv(w)'
    <2>1. LaunchInv(w)'
      BY <1>2, <1>4 DEF RowInv, LaunchInv, Row, NoHandler, RowsStay
    <2>2. w \notin orphaned => AgentInv(w)'
      BY <1>2 DEF RowInv, AgentInv, Live, Row, NoHandler
    <2>3. QED
      BY <1>2, <2>1, <2>2 DEF RowInv
  <1>6. QED
    BY <1>1, <1>2, <1>3, <1>4, <1>5, OneRowChanges
       DEF Return, WranglerInv, TypeOK, AgentMoves

LEMMA HandlerEndsKeeps ==
  ASSUME WranglerInv, NEW w \in Workers, HandlerEnds(w)
  PROVE  WranglerInv'
  BY EndingKeeps DEF HandlerEnds

LEMMA LaunchKeeps ==
  ASSUME WranglerInv, NEW w \in Workers, Launch(w)
  PROVE  WranglerInv'
  <1> DEFINE n == row[w].launches + 1
  <1>1. /\ row' = [row EXCEPT ![w].launches = n]
        /\ doer' = [doer EXCEPT ![w][n].at = "agent"]
        /\ handler' = [handler EXCEPT ![w] = [at |-> "launched", pid |-> n]]
        /\ n \in Pids
    <2>1. row[w].launches \in Nat
      BY Numbers DEF WranglerInv, TypeOK, Row
    <2>2. QED
      BY <2>1 DEF Launch, CanLaunch, Pids
  <1>2. /\ row'[w] = [row[w] EXCEPT !.launches = n]
        /\ handler'[w] = [at |-> "launched", pid |-> n]
        /\ row[w] \in Row /\ row[w].status # "none" /\ row[w].type = "run"
        /\ row[w].launches \in Nat
        /\ handler[w].at = "run" /\ RowInv(w) /\ orphaned' = orphaned
    BY <1>1, Numbers DEF Launch, WranglerInv, TypeOK, history, RowInv, LaunchInv, Row
  <1>3. /\ doer'[w][n].at = "agent"
        /\ \A m \in Pids \ {n} : doer'[w][m] = doer[w][m]
        /\ \A v \in Workers \ {w} : doer'[v] = doer[v]
    BY <1>1 DEF WranglerInv, TypeOK, DoerState, Pids
  <1> HIDE DEF n
  <1>4. TypeOK'
    <2>1. row' \in [Workers -> Row]
      BY <1>1, <1>2 DEF WranglerInv, TypeOK, Row, Pids
    <2>2. \A v \in Workers : row'[v].status # "none" => row'[v].action \in Actions
      BY <1>1, <1>2 DEF WranglerInv, TypeOK, Row
    <2>3. handler' \in [Workers -> HandlerState]
      BY <1>1 DEF WranglerInv, TypeOK, HandlerState, Pids
    <2>4. doer' \in [Workers -> [Launches \ {0} -> DoerState]]
      BY <1>1, DoerGoesTo DEF WranglerInv, Pids
    <2>5. shown' \subseteq Actions
      BY <1>2 DEF Launch, WranglerInv, TypeOK
    <2>6. QED
      BY <2>1, <2>2, <2>3, <2>4, <2>5 DEF Launch, WranglerInv, TypeOK, history
  <1>5. RowsStay
    BY <1>1, <1>2 DEF WranglerInv, TypeOK, RowsStay, Row
  <1>6. RowInv(w)'
    <2>1. \A m \in Pids : m > n => doer'[w][m].at = "none"
      <3>1. Pids \subseteq Nat
        BY Numbers DEF Pids
      <3>2. QED
        BY <1>2, <1>3, <3>1 DEF RowInv, LaunchInv, n
    <2>2. LaunchInv(w)'
      BY <1>2, <1>5, <2>1 DEF RowInv, LaunchInv, Row, Pids
    <2>3. w \notin orphaned => AgentInv(w)'
      <3>1. w \notin orphaned => \A m \in Pids \ {n} : ~ Live(w, m)'
        BY <1>2, <1>3 DEF RowInv, AgentInv, Live
      <3>2. QED
        BY <1>2, <1>3, <3>1 DEF RowInv, AgentInv, Row, Pids
    <2>4. QED
      BY <1>2, <2>2, <2>3 DEF RowInv
  <1>7. QED
    BY <1>1, <1>2, <1>3, <1>4, <1>5, <1>6, OneRowChanges
       DEF WranglerInv, TypeOK, AgentMoves

LEMMA RecordDoerPidKeeps ==
  ASSUME WranglerInv, NEW w \in Workers, RecordDoerPid(w)
  PROVE  WranglerInv'
  <1>1. /\ row' = [row EXCEPT ![w].pid = handler[w].pid]
        /\ row'[w] = [row[w] EXCEPT !.pid = handler[w].pid] /\ handler'[w] = NoHandler
        /\ row[w] \in Row /\ handler[w] \in HandlerState /\ handler[w].at = "launched"
        /\ RowInv(w) /\ doer' = doer /\ orphaned' = orphaned
    BY DEF RecordDoerPid, Recorded, Return, WranglerInv, TypeOK, history
  <1>2. TypeOK'
    <2>1. row' \in [Workers -> Row]
      BY <1>1 DEF WranglerInv, TypeOK, Row, HandlerState
    <2>2. \A v \in Workers : row'[v].status # "none" => row'[v].action \in Actions
      BY <1>1 DEF WranglerInv, TypeOK, Row
    <2>3. handler' \in [Workers -> HandlerState]
      BY StartTypes DEF RecordDoerPid, Return, WranglerInv, TypeOK
    <2>4. QED
      BY <2>1, <2>2, <2>3 DEF RecordDoerPid, WranglerInv, TypeOK, history
  <1>3. RowsStay
    BY <1>1 DEF WranglerInv, TypeOK, RowsStay, Row
  <1>4. RowInv(w)'
    <2>1. LaunchInv(w)'
      BY <1>1, <1>3 DEF RowInv, LaunchInv, Row, NoHandler, RowsStay
    <2>2. w \notin orphaned => AgentInv(w)'
      BY <1>1 DEF RowInv, LaunchInv, AgentInv, Live, Row, NoHandler
    <2>3. QED
      BY <1>1, <2>1, <2>2 DEF RowInv
  <1>5. QED
    BY <1>1, <1>2, <1>3, <1>4, OneRowChanges
       DEF RecordDoerPid, Return, WranglerInv, TypeOK, AgentMoves

LEMMA ReclaimKeeps ==
  ASSUME WranglerInv, NEW w \in Workers, Reclaim(w)
  PROVE  WranglerInv'
  <1>1. /\ row' = [row EXCEPT ![w].status = "pending", ![w].pid = 0]
        /\ row'[w] = [row[w] EXCEPT !.status = "pending", !.pid = 0]
        /\ handler' = handler
        /\ row[w] \in Row /\ row[w].status = "running" /\ handler[w].at = "none"
        /\ row[w].pid # 0 => ~Alive(w, row[w].pid)
        /\ RowInv(w) /\ doer' = doer /\ orphaned' = orphaned
    BY DEF Reclaim, WranglerInv, TypeOK, history
  <1>2. TypeOK'
    <2>1. row' \in [Workers -> Row]
      BY <1>1, Numbers DEF WranglerInv, TypeOK, Row, RowStates
    <2>2. \A v \in Workers : row'[v].status # "none" => row'[v].action \in Actions
      BY <1>1 DEF WranglerInv, TypeOK, Row
    <2>3. QED
      BY <2>1, <2>2 DEF Reclaim, WranglerInv, TypeOK, history
  <1>3. RowsStay
    BY <1>1 DEF WranglerInv, TypeOK, RowsStay, Row
  <1>4. RowInv(w)'
    <2>1. LaunchInv(w)'
      <3>1. \A v \in Workers : row'[v].status # "none" <=> row[v].status # "none"
        BY <1>3 DEF RowsStay
      <3>2. /\ row'[w].type = row[w].type /\ row'[w].target = row[w].target
            /\ row'[w].launches = row[w].launches
        BY <1>1 DEF Row
      <3>3. row'[w].status # "none"
        BY <1>1, <3>1, Zenon
      <3>4. LaunchInv(w) /\ handler' = handler /\ doer' = doer
        BY <1>1 DEF RowInv
      <3>5. QED
        BY <3>1, <3>2, <3>3, <3>4 DEF LaunchInv
    <2>2. w \notin orphaned => \A n \in Pids : ~ Live(w, n)
      BY <1>1 DEF RowInv, AgentInv, Live, Alive, Pids
    <2>3. w \notin orphaned => AgentInv(w)'
      BY <1>1, <2>2 DEF AgentInv, Live
    <2>4. QED
      BY <1>1, <2>1, <2>3 DEF RowInv
  <1>5. QED
    BY <1>1, <1>2, <1>3, <1>4, OneRowChanges DEF WranglerInv, TypeOK, AgentMoves

LEMMA AbortReadsKeeps ==
  ASSUME WranglerInv, NEW w \in Workers, AbortReads(w)
  PROVE  WranglerInv'
  <1> DEFINE v == row[w].target
             to == [at |-> "kill", pid |-> row[v].pid]
  <1>1. CASE row[v].status # "running"
    BY <1>1, EndingKeeps DEF AbortReads
  <1>2. CASE row[v].status = "running"
    <2>1. /\ row[w] \in Row /\ RowInv(w) /\ row[w].status # "none"
          /\ row[w].type = "abort" /\ handler[w].at = "run" /\ v \in Workers
          /\ row' = row /\ doer' = doer /\ orphaned' = orphaned
          /\ handler' = [handler EXCEPT ![w] = to]
      BY <1>2 DEF AbortReads, WranglerInv, TypeOK, RowInv, LaunchInv, history
    <2>2. handler'[w] = to /\ \A u \in Workers \ {w} : handler'[u] = handler[u]
      BY <2>1 DEF WranglerInv, TypeOK
    <2>3. TypeOK'
      <3>1. row[v].pid \in Launches
        BY <2>1 DEF WranglerInv, TypeOK, Row
      <3>2. to \in HandlerState
        BY <3>1 DEF HandlerState
      <3>3. handler' \in [Workers -> HandlerState]
        BY <2>1, <3>2 DEF WranglerInv, TypeOK
      <3>4. QED
        BY <2>1, <3>3 DEF AbortReads, WranglerInv, TypeOK, history
    <2>4. RowInv(w)'
      <3>1. handler'[w].at = "kill"
        BY <2>2
      <3>2. LaunchInv(w)'
        BY <2>1, <3>1 DEF RowInv, LaunchInv
      <3>3. w \notin orphaned => AgentInv(w)'
        BY <2>1, <3>1 DEF RowInv, AgentInv, Live
      <3>4. QED
        BY <2>1, <3>2, <3>3 DEF RowInv
    <2>5. RowsStay /\ \A u \in Workers \ {w} : AgentMoves(u)
      BY <2>1 DEF RowsStay, AgentMoves
    <2>6. QED
      BY <2>1, <2>2, <2>3, <2>4, <2>5, OneRowChanges
  <1>3. QED
    BY <1>1, <1>2

(* The abort's own row and the row it ends.                                 *)
LEMMA AbortKillsKeeps ==
  ASSUME WranglerInv, NEW w \in Workers, AbortKills(w)
  PROVE  WranglerInv'
  <1> DEFINE v == row[w].target
             n == handler[w].pid
             kills == n # 0 /\ Alive(v, n)
  <1>1. /\ row[w] \in Row /\ RowInv(w) /\ row[w].type = "abort" /\ row[w].status # "none"
        /\ handler[w].at = "kill" /\ handler[w] \in HandlerState
        /\ orphaned' = orphaned
        /\ v \in Workers /\ row[v].status # "none"
    BY DEF AbortKills, WranglerInv, TypeOK, RowInv, LaunchInv, Row, history
  <1>2. /\ row' = [row EXCEPT ![v].status = "failed", ![w].status = "done"]
        /\ doer' = IF kills THEN Killed(v, n) ELSE doer
        /\ handler' = [handler EXCEPT ![w] = NoHandler]
    BY DEF AbortKills, Return
  <1>3. /\ \A u \in Workers : /\ row'[u].type = row[u].type
                              /\ row'[u].target = row[u].target
                              /\ row'[u].launches = row[u].launches
                              /\ row'[u].action = row[u].action
        /\ \A u \in Workers \ {v, w} : row'[u] = row[u]
        /\ v # w => row'[v].status = "failed"
        /\ row'[w].status = "done"
    BY <1>1, <1>2 DEF WranglerInv, TypeOK, Row
  <1>4. /\ handler'[w].at = "none"
        /\ \A u \in Workers \ {w} : handler'[u] = handler[u]
    BY <1>2 DEF WranglerInv, TypeOK, NoHandler
  <1>5. /\ \A u \in Workers \ {v} : doer'[u] = doer[u]
        /\ \A m \in Pids : doer'[v][m].at = doer[v][m].at \/
               /\ doer[v][m].at \notin {"none", "stray", "gone"}
               /\ doer'[v][m].at \in {"stray", "gone"}
    <2>1. CASE kills
      <3>1. n \in Pids
        BY <1>1, <2>1 DEF HandlerState, Pids
      <3>2. doer' = [doer EXCEPT ![v][n] =
                         Ended(IF doer[v][n].at = "agent" THEN "stray" ELSE "gone")]
        BY <1>2, <2>1 DEF Killed
      <3>3. QED
        BY <1>1, <2>1, <3>1, <3>2 DEF WranglerInv, TypeOK, Alive, Ended, NoDoer, Pids
    <2>2. CASE ~kills
      BY <1>2, <2>2
    <2>3. QED
      BY <2>1, <2>2
  <1>6. TypeOK'
    <2>1. row' \in [Workers -> Row]
      <3> DEFINE mid == [row EXCEPT ![v].status = "failed"]
      <3>1. mid \in [Workers -> Row]
        BY <1>1 DEF WranglerInv, TypeOK, Row, RowStates
      <3>2. row' = [mid EXCEPT ![w].status = "done"]
        BY <1>2
      <3> HIDE DEF mid
      <3>3. QED
        BY <3>1, <3>2 DEF Row, RowStates
    <2>2. \A u \in Workers : row'[u].status # "none" => row'[u].action \in Actions
      BY <1>1, <1>3 DEF WranglerInv, TypeOK
    <2>3. handler' \in [Workers -> HandlerState]
      BY <1>2, StartTypes DEF WranglerInv, TypeOK
    <2>4. doer' \in [Workers -> [Launches \ {0} -> DoerState]]
      <3>1. CASE kills
        <4>1. n \in Launches \ {0}
          BY <1>1, <3>1 DEF HandlerState
        <4>2. doer' = [doer EXCEPT ![v][n] =
                           Ended(IF doer[v][n].at = "agent" THEN "stray" ELSE "gone")]
          BY <1>2, <3>1 DEF Killed
        <4>3. Ended(IF doer[v][n].at = "agent" THEN "stray" ELSE "gone") \in DoerState
          BY StartTypes
        <4>4. QED
          BY <1>1, <4>1, <4>2, <4>3, DoerTypes DEF WranglerInv
      <3>2. CASE ~kills
        BY <1>2, <3>2 DEF WranglerInv, TypeOK
      <3>3. QED
        BY <3>1, <3>2
    <2>5. QED
      BY <2>1, <2>2, <2>3, <2>4 DEF AbortKills, WranglerInv, TypeOK, history
  <1> HIDE DEF v, n, kills
  <1>7. RowsStay
    BY <1>1, <1>3 DEF RowsStay
  <1>8. RowsInOrder'
    BY <1>7, OrderKept DEF WranglerInv
  <1>9. ASSUME NEW u \in Workers PROVE RowInv(u)'
    <2>1. RowInv(u)
      BY DEF WranglerInv
    <2>2. CASE u = w
      <3>1. \A m \in Pids : doer'[w][m].at = "none"
        BY <1>1, <1>5, LaunchedRow DEF WranglerInv
      <3>2. LaunchInv(w)'
        BY <1>1, <1>3, <1>4, <1>7, <3>1 DEF RowInv, LaunchInv, RowsStay
      <3>3. AgentInv(w)'
        BY <1>4, <3>1 DEF AgentInv, Live
      <3>4. QED
        BY <2>2, <3>2, <3>3 DEF RowInv
    <2>3. CASE u = v /\ u # w
      <3>1. /\ row'[u].status = "failed" /\ row[u].status # "none"
            /\ handler'[u] = handler[u]
        BY <1>1, <1>3, <1>4, <2>3
      <3>2. LaunchInv(u)'
        BY <1>3, <1>5, <1>7, <2>1, <2>3, <3>1 DEF RowInv, LaunchInv, RowsStay
      <3>3. u \notin orphaned => AgentInv(u)'
        BY <1>3, <1>5, <2>1, <2>3, <3>1 DEF RowInv, AgentInv, Live
      <3>4. QED
        BY <1>1, <3>2, <3>3 DEF RowInv
    <2>4. CASE u \notin {v, w}
      <3>1. AgentMoves(u) /\ row'[u] = row[u] /\ handler'[u] = handler[u]
        BY <1>3, <1>4, <1>5, <2>4 DEF AgentMoves
      <3>2. QED
        BY <1>1, <1>7, <2>1, <3>1, RowKept DEF RowsStay
    <2>5. QED
      BY <2>2, <2>3, <2>4
  <1>10. QED
    BY <1>6, <1>8, <1>9 DEF WranglerInv

-----------------------------------------------------------------------------
(* The wrangler process dies: an unrecorded pid is lost with its handler.   *)

LEMMA WranglerCrashKeeps ==
  ASSUME WranglerInv, WranglerCrash
  PROVE  WranglerInv'
  <1>1. /\ row' = row /\ doer' = doer
        /\ handler' = [w \in Workers |-> NoHandler]
        /\ orphaned' = orphaned \cup {w \in Workers : handler[w].at = "launched"}
    BY DEF WranglerCrash
  <1>2. \A w \in Workers : handler'[w].at = "none"
    BY <1>1 DEF NoHandler
  <1>3. TypeOK'
    <2>1. handler' \in [Workers -> HandlerState]
      BY <1>1, StartTypes
    <2>2. faults' \in 0..MaxFaults
      BY Numbers DEF WranglerCrash, Fault, WranglerInv, TypeOK
    <2>3. QED
      BY <1>1, <2>1, <2>2 DEF WranglerCrash, WranglerInv, TypeOK
  <1>4. RowsInOrder'
    BY <1>1, OrderKept DEF WranglerInv, RowsStay
  <1>5. ASSUME NEW w \in Workers PROVE RowInv(w)'
    <2>1. RowInv(w) /\ handler[w] \in HandlerState /\ row[w] \in Row
      BY DEF WranglerInv, TypeOK
    <2>2. LaunchInv(w)'
      BY <1>1, <1>2, <2>1 DEF RowInv, LaunchInv
    <2>3. ASSUME w \notin orphaned' PROVE AgentInv(w)'
      <3>1. AgentInv(w) /\ handler[w].at # "launched"
        BY <1>1, <2>1, <2>3 DEF RowInv
      <3>2. ASSUME NEW n \in Pids, Live(w, n) PROVE handler[w].at = "none"
        <4>1. handler[w].at # "run"
          BY <3>1, <3>2 DEF AgentInv
        <4>2. row[w].type # "abort"
          BY <2>1, <3>2, LaunchedRow DEF WranglerInv, Live
        <4>3. handler[w].at # "kill"
          BY <2>1, <4>2 DEF RowInv, LaunchInv, Row
        <4>4. QED
          BY <2>1, <3>1, <4>1, <4>3 DEF HandlerState
      <3>3. QED
        BY <1>1, <1>2, <3>1, <3>2 DEF AgentInv, Live
    <2>4. QED
      BY <2>2, <2>3 DEF RowInv
  <1>6. QED
    BY <1>3, <1>4, <1>5 DEF WranglerInv

-----------------------------------------------------------------------------
(* The doers.                                                               *)

LEMMA DoerKeeps ==
  ASSUME WranglerInv, TypeOK', row' = row, handler' = handler, orphaned' = orphaned,
         \A w \in Workers : AgentMoves(w)
  PROVE  WranglerInv'
  <1>1. RowsInOrder'
    BY OrderKept DEF WranglerInv, RowsStay
  <1>2. \A w \in Workers : RowInv(w)'
    BY RowKept DEF WranglerInv
  <1>3. QED
    BY <1>1, <1>2 DEF WranglerInv

LEMMA DoerMoved ==
  ASSUME TypeOK, NEW w \in Workers, NEW n \in Pids, NEW new \in DoerState, Live(w, n),
         new.at \in {"close", "read", "write", "chain", "gone"},
         doer' = [doer EXCEPT ![w][n] = new]
  PROVE  /\ doer' \in [Workers -> [Launches \ {0} -> DoerState]]
         /\ doer'[w][n] = new /\ \A v \in Workers : AgentMoves(v)
  BY DoerTypes DEF TypeOK, AgentMoves, Pids

LEMMA AgentExitsKeeps ==
  ASSUME WranglerInv, NEW w \in Workers, NEW n \in Pids, AgentExits(w, n)
  PROVE  WranglerInv'
  <1>1. PICK ok \in BOOLEAN :
            doer' = [doer EXCEPT ![w][n] = [@ EXCEPT !.at = "close", !.ok = ok]]
    BY DEF AgentExits
  <1> DEFINE new == [doer[w][n] EXCEPT !.at = "close", !.ok = ok]
  <1>2. doer[w][n] \in DoerState
    BY DEF WranglerInv, TypeOK, Pids
  <1>3. new \in DoerState /\ new.at = "close"
    BY <1>2 DEF DoerState
  <1>4. doer' = [doer EXCEPT ![w][n] = new]
    BY <1>1
  <1>5. Live(w, n)
    BY DEF AgentExits, Live
  <1> HIDE DEF new
  <1>6. /\ doer' \in [Workers -> [Launches \ {0} -> DoerState]]
        /\ \A v \in Workers : AgentMoves(v)
    BY <1>3, <1>4, <1>5, DoerMoved DEF WranglerInv
  <1>7. TypeOK'
    BY <1>6 DEF AgentExits, WranglerInv, TypeOK, history
  <1>8. QED
    BY <1>6, <1>7, DoerKeeps DEF AgentExits, history

(* The row of a doer is there and names its action.                         *)
LEMMA DoersAction ==
  ASSUME WranglerInv, NEW w \in Workers, NEW n \in Pids, Live(w, n)
  PROVE  row[w].status # "none" /\ row[w].action \in Actions
  BY LaunchedRow DEF WranglerInv, TypeOK, Live

LEMMA ReadActionKeeps ==
  ASSUME WranglerInv, NEW w \in Workers, NEW n \in Pids, ReadAction(w, n)
  PROVE  WranglerInv'
  <1> DEFINE new == [doer[w][n] EXCEPT !.at = "write", !.read = action[row[w].action]]
  <1>1. doer' = [doer EXCEPT ![w][n] = new]
    BY DEF ReadAction
  <1>2. Live(w, n)
    BY DEF ReadAction, Live
  <1>3. doer[w][n] \in DoerState /\ action[row[w].action] \in Data
    BY <1>2, DoersAction DEF WranglerInv, TypeOK, Pids
  <1>4. new \in DoerState /\ new.at = "write"
    BY <1>3 DEF DoerState
  <1> HIDE DEF new
  <1>5. /\ doer' \in [Workers -> [Launches \ {0} -> DoerState]]
        /\ \A v \in Workers : AgentMoves(v)
    BY <1>1, <1>2, <1>4, DoerMoved DEF WranglerInv
  <1>6. TypeOK'
    BY <1>5 DEF ReadAction, WranglerInv, TypeOK, history
  <1>7. QED
    BY <1>5, <1>6, DoerKeeps DEF ReadAction, history

(* A doer that is gone.                                                     *)
LEMMA GoneMoves ==
  ASSUME WranglerInv, NEW w \in Workers, NEW n \in Pids, Live(w, n), doer' = Gone(w, n)
  PROVE  /\ doer' \in [Workers -> [Launches \ {0} -> DoerState]]
         /\ \A v \in Workers : AgentMoves(v)
  <1>1. doer' = [doer EXCEPT ![w][n] = Ended("gone")]
    BY DEF Gone
  <1>2. Ended("gone") \in DoerState /\ Ended("gone").at = "gone"
    BY StartTypes DEF Ended, NoDoer
  <1>3. QED
    BY <1>1, <1>2, DoerMoved DEF WranglerInv

LEMMA StrayEndsKeeps ==
  ASSUME WranglerInv, NEW w \in Workers, NEW n \in Pids, StrayEnds(w, n)
  PROVE  WranglerInv'
  <1>1. /\ doer' \in [Workers -> [Launches \ {0} -> DoerState]]
        /\ \A v \in Workers : AgentMoves(v)
    BY GoneMoves DEF StrayEnds, Live
  <1>2. TypeOK'
    BY <1>1 DEF StrayEnds, WranglerInv, TypeOK, history
  <1>3. QED
    BY <1>1, <1>2, DoerKeeps DEF StrayEnds, history

LEMMA DoerDiesKeeps ==
  ASSUME WranglerInv, NEW w \in Workers, NEW n \in Pids, DoerDies(w, n)
  PROVE  WranglerInv'
  <1>1. /\ doer' \in [Workers -> [Launches \ {0} -> DoerState]]
        /\ \A v \in Workers : AgentMoves(v)
    BY GoneMoves DEF DoerDies, Alive, Live
  <1>2. faults' \in 0..MaxFaults
    BY Numbers DEF DoerDies, Fault, WranglerInv, TypeOK
  <1>3. TypeOK'
    BY <1>1, <1>2 DEF DoerDies, WranglerInv, TypeOK, history
  <1>4. QED
    BY <1>1, <1>3, DoerKeeps DEF DoerDies, history

LEMMA WriteActionKeeps ==
  ASSUME WranglerInv, NEW w \in Workers, NEW n \in Pids, WriteAction(w, n)
  PROVE  WranglerInv'
  <1>1. Live(w, n) /\ row[w].action \in Actions
    <2>1. Live(w, n)
      BY DEF WriteAction, Live
    <2>2. QED
      BY <2>1, DoersAction
  <1>2. doer[w][n] \in DoerState /\ doer[w][n].read \in Data
    BY DEF WranglerInv, TypeOK, Pids, DoerState
  <1>3. /\ doer' \in [Workers -> [Launches \ {0} -> DoerState]]
        /\ \A v \in Workers : AgentMoves(v)
    <2>1. CASE doer[w][n].ok
      <3> DEFINE new == [doer[w][n] EXCEPT !.at = "chain", !.read = NoData]
      <3>1. doer' = [doer EXCEPT ![w][n] = new]
        BY <2>1 DEF WriteAction
      <3>2. new \in DoerState /\ new.at = "chain"
        BY <1>2, StartTypes DEF DoerState
      <3> HIDE DEF new
      <3>3. QED
        BY <1>1, <3>1, <3>2, DoerMoved DEF WranglerInv
    <2>2. CASE ~doer[w][n].ok
      BY <1>1, <2>2, GoneMoves DEF WriteAction
    <2>3. QED
      BY <2>1, <2>2
  <1>4. TypeOK'
    <2> DEFINE data == doer[w][n].read
               new == IF doer[w][n].ok THEN ClearedRetry(data) ELSE ScheduledRetry(data)
               saves == doer[w][n].ok => new # data
    <2>1. new \in Data
      BY <1>2, RetryTypes DEF WranglerInv
    <2>2. action' = IF saves THEN [action EXCEPT ![row[w].action] = new] ELSE action
      BY DEF WriteAction
    <2>3. /\ failed' \in {failed, failed \cup {row[w].action}}
          /\ undone' \in {undone, undone \cup {row[w].action}}
      BY DEF WriteAction
    <2> HIDE DEF new, saves
    <2>4. action' \in [Actions -> Data]
      BY <2>1, <2>2 DEF WranglerInv, TypeOK
    <2>5. failed' \subseteq Actions /\ undone' \subseteq Actions
      BY <1>1, <2>3 DEF WranglerInv, TypeOK
    <2>6. /\ now' = now /\ claimed' = claimed /\ row' = row /\ handler' = handler
          /\ shown' = shown /\ faults' = faults /\ firedAt' = firedAt
          /\ orphaned' = orphaned
      BY DEF WriteAction
    <2>7. QED
      BY <1>3, <2>4, <2>5, <2>6 DEF WranglerInv, TypeOK
  <1>5. QED
    BY <1>3, <1>4, DoerKeeps DEF WriteAction

(* The agent has ended, so its row may be done.                             *)
LEMMA CloseRowKeeps ==
  ASSUME WranglerInv, NEW w \in Workers, NEW n \in Pids, CloseRow(w, n)
  PROVE  WranglerInv'
  <1> DEFINE new == [doer[w][n] EXCEPT !.at = "read"]
  <1>1. /\ Live(w, n) /\ row[w].status # "none" /\ row[w].action \in Actions
        /\ RowInv(w) /\ row[w] \in Row /\ doer[w][n] \in DoerState
        /\ handler' = handler /\ orphaned' = orphaned
    <2>1. Live(w, n)
      BY DEF CloseRow, Live
    <2>2. QED
      BY <2>1, DoersAction DEF CloseRow, WranglerInv, TypeOK, Pids, history
  <1>2. new \in DoerState /\ new.at = "read" /\ doer' = [doer EXCEPT ![w][n] = new]
    BY <1>1 DEF CloseRow, Goto, DoerState
  <1> HIDE DEF new
  <1>3. /\ doer' \in [Workers -> [Launches \ {0} -> DoerState]]
        /\ doer'[w][n] = new /\ \A v \in Workers : AgentMoves(v)
    BY <1>1, <1>2, DoerMoved DEF WranglerInv
  <1>4. CASE row' = row
    <2>1. faults' \in 0..MaxFaults
      BY Numbers DEF CloseRow, Fault, WranglerInv, TypeOK
    <2>2. shown' \subseteq Actions
      BY DEF CloseRow, WranglerInv, TypeOK
    <2>3. TypeOK'
      BY <1>1, <1>3, <1>4, <2>1, <2>2 DEF CloseRow, WranglerInv, TypeOK, history
    <2>4. QED
      BY <1>1, <1>3, <1>4, <2>3, DoerKeeps
  <1>5. CASE row' = Closed(w, n) /\ faults' = faults
    <2>1. PICK status \in {"done", "failed"} : row' = [row EXCEPT ![w].status = status]
      BY <1>5 DEF Closed, Close
    <2>2. row'[w] = [row[w] EXCEPT !.status = status]
      BY <2>1 DEF WranglerInv, TypeOK
    <2>3. /\ row'[w].status = status /\ row'[w].type = row[w].type
          /\ row'[w].target = row[w].target /\ row'[w].launches = row[w].launches
      BY <1>1, <2>2 DEF Row
    <2>4. TypeOK'
      <3>1. /\ row' \in [Workers -> Row]
            /\ \A v \in Workers : row'[v].status # "none" => row'[v].action \in Actions
        BY <1>1, <2>1, StatusTypes DEF WranglerInv, RowStates
      <3>2. shown' \subseteq Actions
        BY DEF CloseRow, WranglerInv, TypeOK
      <3>3. QED
        BY <1>1, <1>3, <1>5, <3>1, <3>2 DEF CloseRow, WranglerInv, TypeOK, history
    <2>5. RowsStay
      BY <1>1, <2>1 DEF WranglerInv, TypeOK, RowsStay
    <2>6. RowInv(w)'
      <3>1. \A m \in Pids : Live(w, m)' => Live(w, m)
        BY <1>3 DEF AgentMoves, Live
      <3>2. LaunchInv(w)'
        <4>1. \A m \in Pids : doer[w][m].at = "none" => doer'[w][m].at = "none"
          BY <1>3 DEF AgentMoves, Live
        <4>2. LaunchInv(w)
          BY <1>1 DEF RowInv
        <4>3. row'[w].status # "none"
          BY <2>3
        <4>4. QED
          BY <1>1, <2>3, <2>5, <4>1, <4>2, <4>3 DEF LaunchInv, RowsStay, Pids
      <3>3. w \notin orphaned => AgentInv(w)'
        <4>1. w \notin orphaned => \A m \in Pids : Live(w, m)' => m = n
          BY <1>1, <3>1 DEF RowInv, AgentInv
        <4>2. w \notin orphaned => handler[w].at # "run" /\ n = row[w].launches
          BY <1>1 DEF RowInv, AgentInv
        <4>3. doer'[w][n].at = "read"
          BY <1>2, <1>3
        <4>4. QED
          BY <1>1, <2>3, <4>1, <4>2, <4>3 DEF AgentInv, Pids
      <3>4. QED
        BY <1>1, <3>2, <3>3 DEF RowInv
    <2>7. \A v \in Workers \ {w} : row'[v] = row[v] /\ handler'[v] = handler[v]
      BY <1>1, <2>1 DEF WranglerInv, TypeOK
    <2>8. QED
      BY <1>1, <1>3, <2>4, <2>5, <2>6, <2>7, OneRowChanges
  <1>6. QED
    BY <1>4, <1>5 DEF CloseRow

-----------------------------------------------------------------------------
(* New rows.                                                                *)

LEMMA RowsAdded ==
  ASSUME WranglerInv, TypeOK', NEW k \in Nat, Rows + k <= NumWorkers,
         handler' = handler, orphaned' = orphaned, \A w \in Workers : AgentMoves(w),
         \A w \in Workers : w \notin NewRows(k) => row'[w] = row[w],
         \A w \in NewRows(k) :
             /\ row'[w].status = "pending" /\ row'[w].launches = 0
             /\ row'[w].type = "abort" => row'[w].target \in Workers /\
                                          row[row'[w].target].status # "none"
  PROVE  WranglerInv'
  <1>1. /\ Rows \in Nat /\ Workers = 1..NumWorkers /\ NumWorkers \in Nat
        /\ \A w \in Workers : row[w].status # "none" <=> w <= Rows
    BY RowsCounted, Numbers DEF WranglerInv, Workers
  <1>2. \A w \in Workers : w \in NewRows(k) <=> Rows < w /\ w <= Rows + k
    BY <1>1 DEF NewRows
  <1>3. \A w \in Workers : row'[w].status # "none" <=> w <= Rows + k
    BY <1>1, <1>2
  <1>4. RowsInOrder'
    <2>1. Rows + k \in 0..NumWorkers
      BY <1>1
    <2>2. \E j \in 0..NumWorkers : \A w \in Workers : row'[w].status # "none" <=> w <= j
      BY <1>3, <2>1, Zenon
    <2>3. QED
      BY <2>2 DEF RowsInOrder
  <1>5. \A w \in Workers : row[w].status # "none" => row'[w].status # "none"
    BY <1>1, <1>3
  <1>6. ASSUME NEW w \in Workers PROVE RowInv(w)'
    <2>1. RowInv(w)
      BY DEF WranglerInv
    <2>2. CASE w \in NewRows(k)
      <3>1. row[w].status = "none"
        BY <1>1, <1>2, <2>2
      <3>2. \A n \in Pids : doer'[w][n].at = doer[w][n].at
        BY <2>1, <3>1, LaunchedRow DEF AgentMoves, Live, WranglerInv
      <3>3. /\ row'[w].status = "pending" /\ row'[w].launches = 0
            /\ row'[w].type = "abort" => row'[w].target \in Workers /\
                                         row'[row'[w].target].status # "none"
        BY <1>5, <2>2
      <3>4. QED
        BY <2>1, <3>1, <3>2, <3>3, NewRow DEF WranglerInv
    <2>3. CASE w \notin NewRows(k)
      BY <1>5, <2>1, <2>3, RowKept
    <2>4. QED
      BY <2>2, <2>3
  <1>7. QED
    BY <1>4, <1>6 DEF WranglerInv

LEMMA InsertKeeps ==
  ASSUME WranglerInv, NEW new \in Row, new.action \in Actions, Insert(new),
         new.status = "pending", new.launches = 0,
         new.type = "abort" => new.target \in Workers /\ row[new.target].status # "none",
         UNCHANGED <<now, action, handler, doer, faults, history>>,
         claimed' \subseteq Actions, shown' \subseteq Actions
  PROVE  WranglerInv'
  <1>1. /\ row' \in [Workers -> Row]
        /\ \A w \in Workers : row'[w].status # "none" => row'[w].action \in Actions
        /\ Rows + 1 \in Workers /\ row' = [row EXCEPT ![Rows + 1] = new]
    BY InsertTypes DEF WranglerInv
  <1>2. TypeOK'
    BY <1>1 DEF WranglerInv, TypeOK, history
  <1>3. Rows \in Nat /\ Rows + 1 <= NumWorkers /\ NumWorkers \in Nat
    <2>1. Rows \in Nat
      BY RowsCounted, Numbers DEF WranglerInv
    <2>2. QED
      BY <1>1, <2>1, Numbers DEF Workers
  <1>4. NewRows(1) = {Rows + 1}
    BY <1>3 DEF NewRows
  <1>5. /\ \A w \in Workers : w \notin NewRows(1) => row'[w] = row[w]
        /\ row'[Rows + 1] = new
    BY <1>1, <1>4 DEF WranglerInv, TypeOK
  <1>6. handler' = handler /\ orphaned' = orphaned /\ \A w \in Workers : AgentMoves(w)
    BY DEF AgentMoves, history
  <1>7. QED
    BY <1>2, <1>3, <1>4, <1>5, <1>6, RowsAdded

LEMMA PendingRunIsNew ==
  ASSUME NEW a \in Actions
  PROVE  /\ PendingRun(a) \in Row /\ PendingRun(a).action = a /\ PendingRun(a).type = "run"
         /\ PendingRun(a).status = "pending" /\ PendingRun(a).launches = 0
  BY StartTypes DEF PendingRun, NoRow

LEMMA ForemanPutKeeps ==
  ASSUME WranglerInv, NEW a \in Actions, ForemanPut(a)
  PROVE  WranglerInv'
  <1>1. claimed' \subseteq Actions /\ shown' \subseteq Actions
    BY DEF ForemanPut, WranglerInv, TypeOK
  <1>2. QED
    BY <1>1, PendingRunIsNew, InsertKeeps DEF ForemanPut

LEMMA EnqueueKeeps ==
  ASSUME WranglerInv, NEW a \in Actions, Enqueue(a)
  PROVE  WranglerInv'
  <1>1. claimed' \subseteq Actions /\ shown' \subseteq Actions
    BY DEF Enqueue, WranglerInv, TypeOK
  <1>2. QED
    BY <1>1, PendingRunIsNew, InsertKeeps DEF Enqueue

LEMMA RequestAbortKeeps ==
  ASSUME WranglerInv, NEW a \in Actions, RequestAbort(a)
  PROVE  WranglerInv'
  <1> DEFINE v == Max(RunningRows(a))
             new == [NoRow EXCEPT !.status = "pending", !.type = "abort",
                                  !.action = a, !.target = v]
  <1>1. claimed' \subseteq Actions /\ shown' \subseteq Actions
    BY DEF RequestAbort, WranglerInv, TypeOK
  <1>2. CASE RunningRows(a) = {}
    <2>1. /\ row' = row /\ handler' = handler /\ doer' = doer /\ orphaned' = orphaned
          /\ \A w \in Workers : AgentMoves(w)
      BY <1>2 DEF RequestAbort, AgentMoves, history
    <2>2. TypeOK'
      BY <1>1, <2>1 DEF RequestAbort, WranglerInv, TypeOK, history
    <2>3. QED
      BY <2>1, <2>2, DoerKeeps
  <1>3. CASE RunningRows(a) # {}
    <2>1. RunningRows(a) \subseteq Workers
      BY DEF RunningRows
    <2>2. v \in RunningRows(a)
      BY <1>3, <2>1, MaxOfRows
    <2>3. v \in Workers /\ v \in 0..NumWorkers /\ row[v].status # "none"
      BY <2>2, Numbers DEF RunningRows, Workers
    <2>4. Insert(new)
      BY <1>3 DEF RequestAbort
    <2> HIDE DEF v
    <2>5. /\ new \in Row /\ new.action = a /\ new.status = "pending"
          /\ new.launches = 0 /\ new.type = "abort" /\ new.target = v
      BY <2>3, StartTypes DEF NoRow, Row, RowStates
    <2> HIDE DEF new
    <2>6. UNCHANGED <<now, action, handler, doer, faults, history>>
      BY DEF RequestAbort
    <2>7. QED
      BY <1>1, <2>3, <2>4, <2>5, <2>6, InsertKeeps
  <1>4. QED
    BY <1>2, <1>3

(* The rows of the actions chained after one that is done.                  *)
LEMMA EnqueueChainedKeeps ==
  ASSUME WranglerInv, NEW w \in Workers, NEW n \in Pids, EnqueueChained(w, n)
  PROVE  WranglerInv'
  <1> DEFINE k == Cardinality(Chained(w))
  <1>1. /\ doer' \in [Workers -> [Launches \ {0} -> DoerState]]
        /\ \A v \in Workers : AgentMoves(v)
    BY GoneMoves DEF EnqueueChained, Live
  <1>2. handler' = handler /\ orphaned' = orphaned
    BY DEF EnqueueChained, history
  <1>3. CASE row' = row
    <2>1. TypeOK'
      BY <1>1, <1>3 DEF EnqueueChained, WranglerInv, TypeOK, history
    <2>2. QED
      BY <1>1, <1>2, <1>3, <2>1, DoerKeeps
  <1>4. CASE row' # row
    <2>1. k \in Nat /\ Rows \in Nat /\ NumWorkers \in Nat
      <3>1. IsFiniteSet(Chained(w))
        BY WranglerAssumption, FS_Subset DEF WranglerAssumption, Chained
      <3>2. QED
        BY <3>1, FS_CardinalityType, RowsCounted, Numbers DEF WranglerInv
    <2> HIDE DEF k
    <2>2. /\ ~(Rows + k > NumWorkers)
          /\ \E order \in Bijection(NewRows(k), Chained(w)) :
                 row' = [v \in Workers |-> IF v \in DOMAIN order
                                           THEN PendingRun(order[v]) ELSE row[v]]
      BY <1>4 DEF EnqueueChained, k
    <2>3. PICK order \in [NewRows(k) -> Actions] :
              row' = [v \in Workers |-> IF v \in NewRows(k)
                                        THEN PendingRun(order[v]) ELSE row[v]]
      <3>1. PICK order \in Bijection(NewRows(k), Chained(w)) :
                row' = [v \in Workers |-> IF v \in DOMAIN order
                                          THEN PendingRun(order[v]) ELSE row[v]]
        BY <2>2
      <3>2. order \in [NewRows(k) -> Chained(w)]
        BY DEF Bijection, Injection
      <3>3. order \in [NewRows(k) -> Actions] /\ DOMAIN order = NewRows(k)
        BY <3>2 DEF Chained
      <3>4. QED
        BY <3>1, <3>3
    <2>4. /\ \A v \in Workers : v \notin NewRows(k) => row'[v] = row[v]
          /\ \A v \in NewRows(k) : v \in Workers /\ row'[v] = PendingRun(order[v])
      <3>1. NewRows(k) \subseteq Workers
        BY <2>1, <2>2 DEF NewRows, Workers
      <3>2. QED
        BY <2>3, <3>1
    <2>5. TypeOK'
      <3>1. row' \in [Workers -> Row]
        BY <2>3, PendingRunIsNew DEF WranglerInv, TypeOK
      <3>2. \A v \in Workers : row'[v].status # "none" => row'[v].action \in Actions
        BY <2>4, PendingRunIsNew DEF WranglerInv, TypeOK
      <3>3. QED
        BY <1>1, <3>1, <3>2 DEF EnqueueChained, WranglerInv, TypeOK, history
    <2>6. \A v \in NewRows(k) :
             /\ row'[v].status = "pending" /\ row'[v].launches = 0
             /\ row'[v].type = "run"
      BY <2>4, PendingRunIsNew
    <2>7. Rows + k <= NumWorkers
      BY <2>1, <2>2
    <2>8. QED
      BY <1>1, <1>2, <2>1, <2>4, <2>5, <2>6, <2>7, RowsAdded
  <1>5. QED
    BY <1>3, <1>4

-----------------------------------------------------------------------------
(* The clock and the schedule, and the whole of Next.                       *)

LEMMA TickKeeps ==
  ASSUME WranglerInv, Tick
  PROVE  WranglerInv'
  <1>1. /\ row' = row /\ handler' = handler /\ doer' = doer /\ orphaned' = orphaned
        /\ \A w \in Workers : AgentMoves(w)
    BY DEF Tick, AgentMoves, history
  <1>2. now' \in 1..MaxTime
    BY Numbers DEF Tick, WranglerInv, TypeOK
  <1>3. TypeOK'
    BY <1>1, <1>2 DEF Tick, WranglerInv, TypeOK, history
  <1>4. QED
    BY <1>1, <1>3, DoerKeeps

LEMMA RosterClaimKeeps ==
  ASSUME WranglerInv, RosterClaim
  PROVE  WranglerInv'
  <1>1. PICK due \in SUBSET {a \in Actions : Due(a)} :
            /\ action' = [a \in Actions |-> IF a \in due THEN Claim(action[a])
                                            ELSE action[a]]
            /\ claimed' = due
            /\ firedAt' = [a \in Actions |-> IF a \in due THEN now ELSE firedAt[a]]
            /\ failed' = failed \ due
            /\ undone' = undone \ due
    BY DEF RosterClaim
  <1>2. /\ row' = row /\ handler' = handler /\ doer' = doer /\ orphaned' = orphaned
        /\ now' = now /\ shown' = shown /\ faults' = faults
        /\ \A w \in Workers : AgentMoves(w)
    BY DEF RosterClaim, AgentMoves
  <1>3. now \in 0..MaxTime
    BY Numbers DEF WranglerInv, TypeOK
  <1>4. \A a \in Actions : action[a] \in Data /\ Claim(action[a]) \in Data
    BY <1>3 DEF Claim, Data, WranglerInv, TypeOK
  <1>5. TypeOK'
    BY <1>1, <1>2, <1>3, <1>4 DEF WranglerInv, TypeOK
  <1>6. QED
    BY <1>2, <1>5, DoerKeeps

LEMMA InitInv == Init => WranglerInv
  <1> SUFFICES ASSUME Init PROVE WranglerInv
    OBVIOUS
  <1>1. TypeOK
    BY InitTypeOK
  <1>2. /\ \A w \in Workers : row[w] = NoRow /\ handler[w] = NoHandler
        /\ \A w \in Workers : \A n \in Pids : doer[w][n] = NoDoer
    BY DEF Init, Pids
  <1>3. RowsInOrder
    <2>1. \A w \in Workers : row[w].status = "none" /\ ~(w <= 0)
      BY <1>2, Numbers DEF NoRow
    <2>2. 0 \in 0..NumWorkers
      BY Numbers
    <2>3. QED
      BY <2>1, <2>2 DEF RowsInOrder
  <1>4. ASSUME NEW w \in Workers PROVE RowInv(w)
    <2>1. LaunchInv(w)
      BY <1>2 DEF LaunchInv, NoRow, NoHandler, NoDoer
    <2>2. AgentInv(w)
      BY <1>2 DEF AgentInv, Live, NoHandler, NoDoer
    <2>3. QED
      BY <2>1, <2>2 DEF RowInv
  <1>5. QED
    BY <1>1, <1>3, <1>4 DEF WranglerInv

LEMMA NextKeeps == WranglerInv /\ [Next]_vars => WranglerInv'
  <1> SUFFICES ASSUME WranglerInv, [Next]_vars PROVE WranglerInv'
    OBVIOUS
  <1>1. CASE Tick
    BY <1>1, TickKeeps
  <1>2. CASE RosterClaim
    BY <1>2, RosterClaimKeeps
  <1>3. CASE WranglerCrash
    BY <1>3, WranglerCrashKeeps
  <1>4. ASSUME NEW a \in Actions, ForemanPut(a) \/ Enqueue(a) \/ RequestAbort(a)
        PROVE  WranglerInv'
    BY <1>4, ForemanPutKeeps, EnqueueKeeps, RequestAbortKeeps
  <1>5. ASSUME NEW w \in Workers, Handler(w) PROVE WranglerInv'
    BY <1>5, TakeKeeps, HandlerEndsKeeps, LaunchKeeps, RecordDoerPidKeeps,
       AbortReadsKeeps, AbortKillsKeeps, ReclaimKeeps DEF Handler
  <1>6. ASSUME NEW w \in Workers, NEW n \in Pids, Doer(w, n) PROVE WranglerInv'
    BY <1>6, AgentExitsKeeps, CloseRowKeeps, ReadActionKeeps, WriteActionKeeps,
       EnqueueChainedKeeps, StrayEndsKeeps DEF Doer
  <1>7. ASSUME NEW w \in Workers, NEW n \in Pids, DoerDies(w, n) PROVE WranglerInv'
    BY <1>7, DoerDiesKeeps
  <1>8. CASE UNCHANGED vars
    <2>1. /\ row' = row /\ handler' = handler /\ doer' = doer /\ orphaned' = orphaned
          /\ \A w \in Workers : AgentMoves(w)
      BY <1>8 DEF vars, history, AgentMoves
    <2>2. TypeOK'
      BY <1>8 DEF vars, history, WranglerInv, TypeOK
    <2>3. QED
      BY <2>1, <2>2, DoerKeeps
  <1>9. QED
    BY <1>1, <1>2, <1>3, <1>4, <1>5, <1>6, <1>7, <1>8 DEF Next, Pids

LEMMA Invariance == Spec => []WranglerInv
  BY InitInv, NextKeeps, PTL DEF Spec

-----------------------------------------------------------------------------
(* TypeOK holds always: in particular retry_count stays within MAX_RETRIES  *)
(* and every row names an action.                                           *)
THEOREM WranglerTypeCorrect == Spec => []TypeOK
  <1>1. WranglerInv => TypeOK
    BY DEF WranglerInv
  <1>2. QED
    BY <1>1, Invariance, PTL

(* OneDoerPerRow holds always: whatever is aborted, killed, reclaimed and   *)
(* run again, a row has at most one live agent, and none once it is done,   *)
(* unless the wrangler died between starting an agent and recording its pid *)
(* (wrangler.py handle_ai_dispatch, record_doer_pid).                       *)
THEOREM WranglerOneDoer == Spec => []OneDoerPerRow
  <1>1. WranglerInv => OneDoerPerRow
    <2> SUFFICES ASSUME WranglerInv, NEW w \in Workers \ orphaned
                 PROVE  /\ Cardinality({n \in Launches \ {0} :
                                           doer[w][n].at \notin {"none", "gone"}}) <= 1
                        /\ row[w].status = "done" =>
                               \A n \in Launches \ {0} :
                                   doer[w][n].at \notin {"agent", "stray"}
      BY DEF OneDoerPerRow
    <2> DEFINE L == {n \in Launches \ {0} : doer[w][n].at \notin {"none", "gone"}}
    <2>1. AgentInv(w)
      BY DEF WranglerInv, RowInv
    <2>2. \A n \in L : n = row[w].launches
      BY <2>1 DEF AgentInv, Live, Pids
    <2>3. Cardinality(L) <= 1
      <3>1. L \subseteq {row[w].launches}
        BY <2>2
      <3> HIDE DEF L
      <3>2. CASE L = {}
        <4>1. Cardinality(L) = 0
          BY <3>2, FS_EmptySet, Zenon
        <4>2. QED
          BY <4>1
      <3>3. CASE L = {row[w].launches}
        <4>1. Cardinality(L) = 1
          BY <3>3, FS_Singleton, Zenon
        <4>2. QED
          BY <4>1
      <3>4. QED
        BY <3>1, <3>2, <3>3
    <2>4. row[w].status = "done" =>
              \A n \in Launches \ {0} : doer[w][n].at \notin {"agent", "stray"}
      BY <2>1 DEF AgentInv, Live, Pids
    <2>5. QED
      BY <2>3, <2>4
  <1>2. QED
    BY <1>1, Invariance, PTL

-----------------------------------------------------------------------------
(* The firings of the clock.                                                *)

(* What the schedule state of an action says of its history: nothing but a  *)
(* claim or the save of an older copy moves last_run, and a pending retry   *)
(* is of a run that failed since the claim.                                 *)
FiringInv(a) ==
    /\ a \notin undone => action[a].lastRun = firedAt[a]
    /\ action[a].retryAfter # 0 => a \in failed

LEMMA DayTime ==
  ASSUME NEW d \in Nat \ {0}, NEW t \in Nat
  PROVE  /\ t % d \in 0..(d - 1) /\ t - (t % d) \in Nat
         /\ \A m \in 0..(d - 1) : ((t - (t % d)) + m) % d = m
  <1>1. t \div d \in Nat /\ t % d \in Nat /\ t % d < d
    BY SMT
  <1>2. t = d * (t \div d) + (t % d)
    BY SMT
  <1>3. d * (t \div d) \in Nat
    BY <1>1
  <1>4. ASSUME NEW m \in 0..(d - 1) PROVE ((t - (t % d)) + m) % d = m
    <2> DEFINE q == t \div d
               s == d * q + m
    <2>1. (t - (t % d)) + m = s
      BY <1>1, <1>2, <1>3
    <2>2. q \in Int /\ s \in Int
      BY <1>1, <1>3
    <2> HIDE DEF q
    <2>3. s % d = m
      BY <2>2, SMT
    <2>4. QED
      BY <2>1, <2>3
  <1>5. QED
    BY <1>1, <1>2, <1>3, <1>4

LEMMA EarliestOf ==
  ASSUME NEW times, times \subseteq Nat, times # {}
  PROVE  Earliest(times) \in times /\ \A t \in times : Earliest(times) <= t
  <1> DEFINE R == OpToRel(<, Nat)
  <1>1. PICK m \in times : \A t \in times : ~ (<<t, m>> \in R)
    BY NatLessThanWellFounded, WFMin, Zenon
  <1>2. \A t \in times : ~ (t < m)
    BY <1>1 DEF OpToRel
  <1>3. \A t \in times : m <= t
    BY <1>2
  <1>4. QED
    BY <1>3 DEF Earliest

(* A due action that no retry is pending for has a moment, or an interval,  *)
(* between its last run and now.                                            *)
LEMMA DueMoment ==
  ASSUME TypeOK, NEW a \in Actions, Due(a), action[a].retryAfter = 0,
         action[a].lastRun = firedAt[a]
  PROVE  MomentPassed(a)
  <1>1. /\ now \in Nat /\ now <= MaxTime /\ firedAt[a] \in Nat
        /\ DayLen \in Nat \ {0} /\ Moments[a] \subseteq 0..(DayLen - 1)
        /\ Interval \in Nat /\ NextDue(a) <= now
    BY Numbers, WranglerAssumption DEF WranglerAssumption, TypeOK, Due
  <1> DEFINE ahead == {t \in Today(a) : t > action[a].lastRun}
  <1>2. CASE Moments[a] = {}
    <2>1. NextDue(a) = firedAt[a] + Interval
      BY <1>2 DEF NextDue
    <2>2. QED
      BY <1>1, <1>2, <2>1 DEF MomentPassed
  <1>3. CASE Moments[a] # {}
    <2>1. /\ now % DayLen \in 0..(DayLen - 1) /\ now - (now % DayLen) \in Nat
          /\ \A m \in 0..(DayLen - 1) : ((now - (now % DayLen)) + m) % DayLen = m
      BY <1>1, DayTime
    <2>2. ASSUME NEW t \in Today(a)
          PROVE  t \in Nat /\ t % DayLen \in Moments[a] /\ now < t + DayLen
      <3>1. PICK m \in Moments[a] : t = (now - (now % DayLen)) + m
        BY DEF Today
      <3>2. m \in 0..(DayLen - 1) /\ t % DayLen = m
        BY <1>1, <2>1, <3>1
      <3> DEFINE r == now % DayLen
      <3>3. t = (now - r) + m /\ r \in 0..(DayLen - 1) /\ m \in 0..(DayLen - 1)
        BY <2>1, <3>1, <3>2
      <3> HIDE DEF r
      <3>4. t \in Nat /\ now < t + DayLen
        <4>1. now - r \in Nat
          BY <2>1 DEF r
        <4>2. QED
          BY <1>1, <3>3, <4>1
      <3>5. QED
        BY <3>1, <3>2, <3>4
    <2>3. Today(a) \subseteq Nat /\ Today(a) # {}
      BY <1>3, <2>2 DEF Today
    <2>4. CASE ahead # {}
      <3>1. Earliest(ahead) \in ahead
        BY <2>3, <2>4, EarliestOf
      <3>2. NextDue(a) = Earliest(ahead)
        BY <1>3, <2>4 DEF NextDue
      <3> DEFINE t == Earliest(ahead)
      <3>3. t \in Today(a) /\ firedAt[a] < t /\ t <= now /\ t \in Nat
        BY <1>1, <2>3, <3>1, <3>2
      <3>4. t \in AllMoments(a)
        BY <1>1, <2>2, <3>3, Numbers DEF AllMoments
      <3>5. QED
        BY <1>3, <3>3, <3>4 DEF MomentPassed
    <2>5. CASE ahead = {}
      <3>1. NextDue(a) = Earliest(Today(a)) + DayLen
        BY <1>3, <2>5 DEF NextDue
      <3>2. now < NextDue(a)
        BY <2>2, <2>3, <3>1, EarliestOf
      <3>3. QED
        BY <1>1, <2>2, <2>3, <3>1, <3>2, EarliestOf
    <2>6. QED
      BY <2>4, <2>5
  <1>4. QED
    BY <1>2, <1>3

LEMMA FiringInvInit == ASSUME NEW a \in Actions PROVE Init => FiringInv(a)
  BY DEF Init, FiringInv, NoData

LEMMA RosterClaimFires ==
  ASSUME TypeOK, RosterClaim, NEW a \in Actions, FiringInv(a)
  PROVE  FiringInv(a)'
  <1>1. PICK due \in SUBSET Actions :
           /\ action' = [b \in Actions |-> IF b \in due THEN Claim(action[b])
                                           ELSE action[b]]
           /\ firedAt' = [b \in Actions |-> IF b \in due THEN now ELSE firedAt[b]]
           /\ failed' = failed \ due /\ undone' = undone \ due
    BY DEF RosterClaim
  <1>2. CASE a \in due
    <2>1. action'[a].lastRun = now /\ action'[a].retryAfter = 0 /\ firedAt'[a] = now
      BY <1>1, <1>2 DEF Claim, TypeOK, Data
    <2>2. QED
      BY <2>1 DEF FiringInv
  <1>3. CASE a \notin due
    BY <1>1, <1>3 DEF FiringInv
  <1>4. QED
    BY <1>2, <1>3

LEMMA WriteActionFires ==
  ASSUME WranglerInv, NEW w \in Workers, NEW n \in Pids, WriteAction(w, n),
         NEW a \in Actions, FiringInv(a)
  PROVE  FiringInv(a)'
  <1>1. TypeOK
    BY DEF WranglerInv
  <1> DEFINE b == row[w].action
             data == doer[w][n].read
             new == IF doer[w][n].ok THEN ClearedRetry(data) ELSE ScheduledRetry(data)
             saves == doer[w][n].ok => new # data
  <1>2. /\ action' = IF saves THEN [action EXCEPT ![b] = new] ELSE action
        /\ failed' = IF doer[w][n].ok THEN failed ELSE failed \cup {b}
        /\ undone' = IF saves /\ new.lastRun # action[b].lastRun
                     THEN undone \cup {b} ELSE undone
        /\ UNCHANGED firedAt
    BY DEF WriteAction
  <1>3. new.retryAfter # 0 => ~doer[w][n].ok
    <2>1. data \in Data
      BY <1>1 DEF TypeOK, DoerState, Pids
    <2>2. ClearedRetry(data).retryAfter = 0
      BY <2>1 DEF ClearedRetry, Data
    <2>3. QED
      BY <2>2
  <1> HIDE DEF new, saves
  <1>4. CASE a = b /\ saves
    <2>1. action'[a] = new
      BY <1>1, <1>2, <1>4 DEF TypeOK
    <2>2. QED
      BY <1>2, <1>3, <1>4, <2>1 DEF FiringInv
  <1>5. CASE ~(a = b /\ saves)
    <2>1. action'[a] = action[a]
      BY <1>1, <1>2, <1>5 DEF TypeOK
    <2>2. QED
      BY <1>2, <2>1 DEF FiringInv
  <1>6. QED
    BY <1>4, <1>5

LEMMA FiringInvKept ==
  ASSUME WranglerInv, [Next]_vars, NEW a \in Actions, FiringInv(a)
  PROVE  FiringInv(a)'
  <1>1. CASE RosterClaim
    BY <1>1, RosterClaimFires DEF WranglerInv
  <1>2. CASE \E w \in Workers, n \in Pids : WriteAction(w, n)
    BY <1>2, WriteActionFires
  <1>3. CASE UNCHANGED <<action, firedAt, failed, undone>>
    BY <1>3 DEF FiringInv
  <1>4. CASE Tick \/ WranglerCrash
    BY <1>3, <1>4 DEF Tick, WranglerCrash, history
  <1>5. ASSUME NEW b \in Actions, ForemanPut(b) \/ Enqueue(b) \/ RequestAbort(b)
        PROVE  FiringInv(a)'
    BY <1>3, <1>5 DEF ForemanPut, Enqueue, RequestAbort, history
  <1>6. ASSUME NEW w \in Workers, Handler(w) PROVE FiringInv(a)'
    BY <1>3, <1>6 DEF Handler, Take, HandlerEnds, Launch, RecordDoerPid,
                      AbortReads, AbortKills, Reclaim, history
  <1>7. ASSUME NEW w \in Workers, NEW n \in Pids, Doer(w, n) \/ DoerDies(w, n)
        PROVE  FiringInv(a)'
    <2>1. CASE WriteAction(w, n)
      BY <1>2, <2>1
    <2>2. CASE ~WriteAction(w, n)
      BY <1>3, <1>7, <2>2 DEF Doer, AgentExits, CloseRow, ReadAction,
                              EnqueueChained, StrayEnds, DoerDies, history
    <2>3. QED
      BY <2>1, <2>2
  <1>8. QED
    BY <1>1, <1>3, <1>4, <1>5, <1>6, <1>7 DEF Next, vars, history, Pids

(* No firing of the clock is unearned: each has a failed run, an undone     *)
(* claim or a scheduled moment since the previous one, for any schedules,   *)
(* rows, faults and interleaving of claims and completions.                 *)
THEOREM WranglerFiringsEarned == Spec => FiringsEarned
  <1> DEFINE Fires == \A a \in Actions : FiringInv(a)
             Earned == \A a \in claimed' \ claimed :
                          a \in failed \/ a \in undone \/ MomentPassed(a)
  <1>1. Init => Fires
    BY FiringInvInit
  <1>2. WranglerInv /\ Fires /\ [Next]_vars => Fires'
    BY FiringInvKept
  <1>3. WranglerInv /\ Fires /\ [Next]_vars => [Earned]_vars
    <2> SUFFICES ASSUME WranglerInv, Fires, Next, NEW a \in claimed' \ claimed,
                        a \notin failed, a \notin undone
                 PROVE  MomentPassed(a)
      OBVIOUS
    <2>1. TypeOK
      BY DEF WranglerInv
    <2>2. CASE RosterClaim
      <3>1. a \in Actions /\ Due(a)
        BY <2>2 DEF RosterClaim
      <3>2. action[a].retryAfter = 0 /\ action[a].lastRun = firedAt[a]
        BY <3>1 DEF FiringInv
      <3>3. QED
        BY <2>1, <3>1, <3>2, DueMoment
    <2>3. CASE Tick \/ WranglerCrash
      BY <2>3 DEF Tick, WranglerCrash
    <2>4. ASSUME NEW b \in Actions, ForemanPut(b) \/ Enqueue(b) \/ RequestAbort(b)
          PROVE  FALSE
      BY <2>4 DEF ForemanPut, Enqueue, RequestAbort
    <2>5. ASSUME NEW w \in Workers, Handler(w) PROVE FALSE
      BY <2>5 DEF Handler, Take, HandlerEnds, Launch, RecordDoerPid, AbortReads,
                  AbortKills, Reclaim
    <2>6. ASSUME NEW w \in Workers, NEW n \in Pids, Doer(w, n) \/ DoerDies(w, n)
          PROVE  FALSE
      BY <2>6 DEF Doer, AgentExits, CloseRow, ReadAction, WriteAction,
                  EnqueueChained, StrayEnds, DoerDies
    <2>7. QED
      BY <2>2, <2>3, <2>4, <2>5, <2>6 DEF Next, Pids
  <1>4. QED
    BY <1>1, <1>2, <1>3, Invariance, PTL DEF Spec, FiringsEarned
=============================================================================
