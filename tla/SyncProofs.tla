----------------------------- MODULE SyncProofs -----------------------------
(* Proofs about Sync: the invariant SyncInv is inductive, hence the         *)
(* baseline of a machine covers what its copy contains, and only a hole     *)
(* lets a push drop another writer's edits.  They hold for any machines,    *)
(* entries, batch size, clock offsets and choice of the environment flags.  *)
(* For one machine that nobody edits during a cycle, QuietInv adds that no  *)
(* push ever meets a hole: nothing is lost, and clean rows are synced.      *)
EXTENDS Sync, TLAPS

USE SyncAssumption

-----------------------------------------------------------------------------
(* Type correctness.                                                        *)

LEMMA EmptyTypes == RowsOK(NoRows, Entries) /\ PageOK(NoPage)
  <1>1. /\ DOMAIN NoRows = {}
        /\ NoRows \in [{} -> Row]
    BY DEF NoRows
  <1>2. /\ NoPage.rows = NoRows /\ NoPage.ctxs = NoRows
        /\ NoPage.tags = [e \in {} |-> {}]
        /\ NoPage.more \in BOOLEAN /\ NoPage.end \in Position /\ NoPage.now \in Nat
    BY DEF NoPage, Since, Position, AfterAllIds
  <1>3. [e \in {} |-> {}] \in [{} -> SUBSET Tags]
    OBVIOUS
  <1>4. QED
    BY <1>1, <1>2, <1>3 DEF RowsOK, PageOK

LEMMA SinceType == \A t \in Int : Since(t) \in Position
  BY DEF Since, Position, AfterAllIds

LEMMA StartPullType ==
  ASSUME TypeOK, NEW m \in Machines, StartPull(m)
  PROVE  cursor' \in [Machines -> Position]
  <1>1. lastSync[m] \in Int
    BY DEF TypeOK
  <1>2. Since(lastSync[m]) \in Position
    BY <1>1, SinceType
  <1>3. QED
    BY <1>2 DEF StartPull, TypeOK

LEMMA InitTypeOK == Init => TypeOK
  <1> SUFFICES ASSUME Init PROVE TypeOK
    OBVIOUS
  <1>1. /\ clock \in Edits
        /\ srv \in [Entries -> Row]
        /\ srvCtx \in [Contexts -> Row]
        /\ loc \in [Machines -> [Entries -> LocalRow]]
        /\ locCtx \in [Machines -> [Contexts -> Row]]
        /\ lastSync \in [Machines -> Nat]
    BY DEF Init, Row, LocalRow, NoRow, Edits
  <1>2. reply \in [Machines -> [sent : SUBSET Entries, rejected : SUBSET Entries,
                                ctxs : SUBSET Contexts]]
    BY DEF Init, NoReply
  <1>3. /\ \A m \in Machines : RowsOK(queue[m], Entries)
        /\ \A m \in Machines : PageOK(page[m])
        /\ cursor \in [Machines -> Position]
    BY EmptyTypes, SinceType DEF Init
  <1>4. QED
    BY <1>1, <1>2, <1>3 DEF Init, TypeOK, Stages

LEMMA EndCycleTypes ==
  ASSUME TypeOK, NEW m \in Machines, EndCycle(m)
  PROVE  /\ stage' \in [Machines -> Stages]
         /\ base' \in [Machines -> Nat]
         /\ \A n \in Machines : RowsOK(queue'[n], Entries)
         /\ reply' \in [Machines -> [sent : SUBSET Entries,
                                     rejected : SUBSET Entries,
                                     ctxs : SUBSET Contexts]]
         /\ conflicts' \in [Machines -> SUBSET Entries]
         /\ ctxConflicts' \in [Machines -> SUBSET Contexts]
         /\ resolved' \in [Machines -> SUBSET Entries]
         /\ cursor' \in [Machines -> Position]
         /\ \A n \in Machines : PageOK(page'[n])
         /\ queue' = [n \in Machines |-> queue'[n]]
         /\ page' = [n \in Machines |-> page'[n]]
  <1>1. \A n \in Machines : RowsOK(queue'[n], Entries) /\ PageOK(page'[n])
    <2> TAKE n \in Machines
    <2>1. /\ queue'[n] = IF n = m THEN NoRows ELSE queue[n]
          /\ page'[n] = IF n = m THEN NoPage ELSE page[n]
      BY DEF EndCycle, TypeOK
    <2>2. RowsOK(queue[n], Entries) /\ PageOK(page[n])
      BY DEF TypeOK
    <2>3. QED
      BY <2>1, <2>2, EmptyTypes
  <1>2. cursor' \in [Machines -> Position]
    BY SinceType DEF EndCycle, TypeOK
  <1>3. /\ queue' = [n \in Machines |-> queue'[n]]
        /\ page' = [n \in Machines |-> page'[n]]
    BY DEF EndCycle, TypeOK
  <1>4. QED
    BY <1>1, <1>2, <1>3 DEF EndCycle, TypeOK, Stages, NoReply

LEMMA StepTypeOK == TypeOK /\ [Next]_vars => TypeOK'
  <1> SUFFICES ASSUME TypeOK, [Next]_vars PROVE TypeOK'
    OBVIOUS
  <1>1. ASSUME NEW e \in Entries, NEW time \in WebTimes(e), WebWrite(e, time)
        PROVE  TypeOK'
    BY <1>1 DEF TypeOK, WebWrite, Tick, Now, WebTimes, HoleAfter, Row, Edits,
                cycle, local
  <1>2. ASSUME NEW e \in Entries, NEW time \in WebTimes(e),
               NEW tags \in SUBSET Tags, WebSetTags(e, tags, time)
        PROVE  TypeOK'
    BY <1>2 DEF TypeOK, WebSetTags, Tick, Now, WebTimes, HoleAfter, Row,
                Edits, cycle, local
  <1>3. ASSUME NEW c \in Contexts, PeerEditContext(c) PROVE TypeOK'
    BY <1>3 DEF TypeOK, PeerEditContext, Tick, Now, Row, Edits, cycle, local
  <1>4. ASSUME NEW m \in Machines, NEW e \in Entries, NEW stamped \in BOOLEAN,
               CliWrite(m, e, stamped)
        PROVE  TypeOK'
    BY <1>4 DEF TypeOK, CliWrite, CliTime, Tick, Now, LocalRow, Edits, cycle,
                server
  <1>5. ASSUME NEW m \in Machines, NEW e \in Entries, NEW tags \in SUBSET Tags,
               CliSetTags(m, e, tags)
        PROVE  TypeOK'
    BY <1>5 DEF TypeOK, CliSetTags, Tick, LocalRow, Edits, cycle, server
  <1>6. ASSUME NEW m \in Machines, NEW c \in Contexts, CliEditContext(m, c)
        PROVE  TypeOK'
    BY <1>6 DEF TypeOK, CliEditContext, Tick, Now, Row, Edits, cycle, server
  <1>7. ASSUME NEW m \in Machines, ResetSync(m) PROVE TypeOK'
    BY <1>7 DEF TypeOK, ResetSync, cycle, local, server
  <1>8. ASSUME NEW m \in Machines, CycleStart(m) PROVE TypeOK'
    <2>1. RowsOK([e \in Dirty(m) |-> Submitted(m, e)], Entries)
      BY DEF TypeOK, RowsOK, Submitted, Dirty, Row, LocalRow
    <2>2. \A n \in Machines : RowsOK(queue'[n], Entries)
      BY <1>8, <2>1 DEF CycleStart, TypeOK
    <2>3. cursor' \in [Machines -> Position]
      BY <1>8, StartPullType DEF CycleStart, TypeOK
    <2>4. QED
      BY <1>8, <2>2, <2>3
         DEF TypeOK, CycleStart, StartPull, Stages, local, server
  <1>9. ASSUME NEW m \in Machines, ServerPush(m) PROVE TypeOK'
    <2>1. PICK ids \in Batches(m) : ServerPush(m)!2!(ids)
      BY <1>9 DEF ServerPush
    <2>2. ids \subseteq DOMAIN queue[m] /\ ids \subseteq Entries
      BY DEF Batches, TypeOK, RowsOK
    <2>3. srv' \in [Entries -> Row]
      <3>1. \A e \in ids : Stored(m, srv[e], queue[m][e]) \in Row
        BY <2>2 DEF Stored, TypeOK, RowsOK, Row
      <3>2. QED
        BY <2>1, <3>1 DEF TypeOK
    <2>4. srvCtx' \in [Contexts -> Row]
      <3>1. \A c \in Contexts : Stored(m, srvCtx[c], locCtx[m][c]) \in Row
        BY DEF Stored, TypeOK, Row
      <3>2. QED
        BY <2>1, <3>1 DEF TypeOK
    <2>5. srvTags' \in [Entries -> SUBSET Tags]
      BY <2>1 DEF TypeOK
    <2>6. reply' \in [Machines -> [sent : SUBSET Entries,
                                   rejected : SUBSET Entries,
                                   ctxs : SUBSET Contexts]]
      BY <2>1, <2>2 DEF TypeOK, StaleEntries, StaleContexts, PushedContexts
    <2>7. \A n \in Machines : RowsOK(queue'[n], Entries)
      BY <2>1 DEF TypeOK, RowsOK
    <2>8. hole' \in [Machines -> SUBSET Entries]
      BY <2>1 DEF HoleAfter
    <2>9. QED
      BY <1>9, <2>3, <2>4, <2>5, <2>6, <2>7, <2>8
         DEF TypeOK, ServerPush, Stages, local
  <1>10. ASSUME NEW m \in Machines, PushAck(m) PROVE TypeOK'
    <2>1. loc' \in [Machines -> [Entries -> LocalRow]]
      BY <1>10 DEF TypeOK, PushAck, LocalRow
    <2>2. cursor' \in [Machines -> Position]
      BY <1>10, StartPullType DEF PushAck, TypeOK
    <2>3. /\ conflicts' \in [Machines -> SUBSET Entries]
          /\ ctxConflicts' \in [Machines -> SUBSET Contexts]
          /\ stage' \in [Machines -> Stages]
      BY <1>10 DEF PushAck, StartPull, TypeOK, Stages
    <2>4. reply' \in [Machines -> [sent : SUBSET Entries,
                                   rejected : SUBSET Entries,
                                   ctxs : SUBSET Contexts]]
      BY <1>10 DEF PushAck, NoReply, TypeOK
    <2>5. QED
      BY <1>10, <2>1, <2>2, <2>3, <2>4 DEF TypeOK, PushAck, server
  <1>11. ASSUME NEW m \in Machines, ServerPull(m) PROVE TypeOK'
    <2>1. PICK rows \in SUBSET Entries : ServerPull(m)!2!(rows)
      BY <1>11 DEF ServerPull
    <2>2. clock \in Nat
      BY DEF TypeOK, Edits
    <2>3. \A e \in Entries : At(e) \in Position
      BY DEF At, Position, AfterAllIds, Entries, TypeOK, Row
    <2>4. PageOK(page'[m])
      <3> DEFINE more == Cardinality(rows) = BatchSize
                 ctxs == {c \in Contexts : srvCtx[c].ts > cursor[m].ts}
      <3>1. PICK last \in IF more THEN rows ELSE {NumEntries} :
                page' = [page EXCEPT ![m] =
                     [rows |-> [e \in rows |-> srv[e]],
                      tags |-> [e \in rows |-> srvTags[e]],
                      ctxs |-> [c \in ctxs |-> srvCtx[c]],
                      more |-> more,
                      end |-> IF more THEN At(last) ELSE Since(clock),
                      now |-> clock]]
        BY <2>1
      <3>2. page'[m] = [rows |-> [e \in rows |-> srv[e]],
                        tags |-> [e \in rows |-> srvTags[e]],
                        ctxs |-> [c \in ctxs |-> srvCtx[c]],
                        more |-> more,
                        end |-> IF more THEN At(last) ELSE Since(clock),
                        now |-> clock]
        BY <3>1 DEF TypeOK
      <3>3. RowsOK(page'[m].rows, Entries)
        BY <3>2 DEF RowsOK, TypeOK
      <3>4. RowsOK(page'[m].ctxs, Contexts)
        BY <3>2 DEF RowsOK, TypeOK
      <3>5. page'[m].tags \in [DOMAIN page'[m].rows -> SUBSET Tags]
        BY <3>2 DEF TypeOK
      <3>6. page'[m].end \in Position
        BY <3>2, <2>2, <2>3, SinceType
      <3>7. page'[m].more \in BOOLEAN /\ page'[m].now \in Nat
        BY <3>2, <2>2
      <3>8. QED
        BY <3>3, <3>4, <3>5, <3>6, <3>7 DEF PageOK
    <2>5. \A n \in Machines \ {m} : page'[n] = page[n]
      BY <2>1 DEF TypeOK
    <2>6. QED
      BY <1>11, <2>4, <2>5 DEF TypeOK, ServerPull, Stages, local, server
  <1>12. ASSUME NEW m \in Machines, Merge(m) PROVE TypeOK'
    <2>1. loc' \in [Machines -> [Entries -> LocalRow]]
      <3>1. \A e \in Entries : MergeRow(m, e) \in LocalRow
        BY DEF TypeOK, MergeRow, PageOK, RowsOK, Row, LocalRow
      <3>2. QED
        BY <1>12, <3>1 DEF Merge, TypeOK
    <2>2. locTags' \in [Machines -> [Entries -> SUBSET Tags]]
      <3>1. \A e \in Entries : MergeTags(m, e) \in SUBSET Tags
        BY DEF TypeOK, MergeTags, PageOK
      <3>2. QED
        BY <1>12, <3>1 DEF Merge, TypeOK
    <2>3. locCtx' \in [Machines -> [Contexts -> Row]]
      BY <1>12 DEF Merge, TypeOK, PageOK, RowsOK
    <2>4. /\ resolved' \in [Machines -> SUBSET Entries]
          /\ hole' \in [Machines -> SUBSET Entries]
          /\ stage' \in [Machines -> Stages]
      BY <1>12 DEF Merge, TypeOK, PageOK, RowsOK, Stages
    <2>5. cursor' \in [Machines -> Position]
      BY <1>12 DEF Merge, TypeOK, PageOK
    <2>6. QED
      BY <1>12, <2>1, <2>2, <2>3, <2>4, <2>5 DEF Merge, TypeOK, server
  <1>13. ASSUME NEW m \in Machines, Advance(m) PROVE TypeOK'
    <2>1. lastSync' \in [Machines -> Nat]
      BY <1>13 DEF Advance, PulledUpTo, TypeOK, PageOK
    <2>2. hole' \in [Machines -> SUBSET Entries]
      <3>1. CASE KeepHoles(m, PulledUpTo(m))
        BY <3>1 DEF KeepHoles, TypeOK
      <3>2. CASE UNCHANGED hole
        BY <3>2 DEF TypeOK
      <3>3. QED
        BY <1>13, <3>1, <3>2 DEF Advance
    <2>3. CASE EndCycle(m)
      BY <1>13, <2>1, <2>2, <2>3, EndCycleTypes DEF TypeOK, Advance, local, server
    <2>4. CASE ~EndCycle(m)
      BY <1>13, <2>1, <2>2, <2>4 DEF TypeOK, Advance, Stages, local, server
    <2>5. QED
      BY <2>3, <2>4
  <1>14. ASSUME NEW m \in Machines, RestoreBaseline(m) PROVE TypeOK'
    <2>1. hole' \in [Machines -> SUBSET Entries]
      BY <1>14 DEF RestoreBaseline, KeepHoles, TypeOK
    <2>2. QED
      BY <1>14, <2>1, EndCycleTypes
         DEF TypeOK, RestoreBaseline, Restored, local, server
  <1>15. ASSUME NEW m \in Machines, CycleFails(m) PROVE TypeOK'
    <2>1. hole' \in [Machines -> SUBSET Entries]
      BY <1>15 DEF CycleFails, KeepHoles, TypeOK
    <2>2. QED
      BY <1>15, <2>1, EndCycleTypes DEF TypeOK, CycleFails, local, server
  <1>16. CASE UNCHANGED vars
    BY <1>16 DEF TypeOK, vars, server, local, cycle
  <1>17. QED
    BY <1>1, <1>2, <1>3, <1>4, <1>5, <1>6, <1>7, <1>8, <1>9, <1>10, <1>11,
       <1>12, <1>13, <1>14, <1>15, <1>16 DEF Next, Others, Cli, Daemon

(* Every variable keeps its type, whatever the machines do.                 *)
THEOREM SyncTypeCorrect == Spec => []TypeOK
  BY InitTypeOK, StepTypeOK, PTL DEF Spec

-----------------------------------------------------------------------------
(* The invariant.                                                           *)

Safe(n) == Shape(n) /\ \A e \in Entries \ hole[n] : Covered(n, e)

Same(n) == /\ loc'[n] = loc[n]
           /\ lastSync'[n] = lastSync[n]
           /\ stage'[n] = stage[n]
           /\ base'[n] = base[n]
           /\ queue'[n] = queue[n]
           /\ cursor'[n] = cursor[n]
           /\ page'[n] = page[n]

LEMMA SinceBounds ==
  ASSUME NEW ts \in Int, NEW t \in Int, NEW e \in Entries
  PROVE  AtOrBefore([ts |-> ts, id |-> e], Since(t)) <=> ts <= t
  BY DEF AtOrBefore, Since, AfterAllIds, Entries

(* A machine nobody touches stays safe while the server's rows stay.        *)
LEMMA SameSafe ==
  ASSUME NEW n \in Machines, Safe(n), Same(n), UNCHANGED srv,
         hole'[n] = hole[n]
  PROVE  Safe(n)'
  BY DEF Safe, Same, Shape, Covered, Marked, Scanned, Behind, InFlight, At,
         AtOrBefore

(* Committing rows on the server leaves every machine safe: hole takes in   *)
(* what is committed behind a machine and not held by it.                   *)
LEMMA CommitSafe ==
  ASSUME NEW n \in Machines, Safe(n), TypeOK, srv' \in [Entries -> Row],
         hole' = HoleAfter(srv'),
         UNCHANGED <<loc, lastSync, base, cursor, page>>,
         \/ stage'[n] = stage[n] /\ queue'[n] = queue[n]
         \/ /\ stage[n] = "push" /\ stage'[n] = "ack"
            /\ DOMAIN queue'[n] \subseteq DOMAIN queue[n]
            /\ \A e \in DOMAIN queue'[n] : queue'[n][e] = queue[n][e]
  PROVE  Safe(n)'
  <1>1. Shape(n)'
    BY DEF Safe, Shape
  <1>2. ASSUME NEW e \in Entries \ hole'[n] PROVE Covered(n, e)'
    <2>1. /\ \A ts : Marked(n, ts)' <=> Marked(n, ts)
          /\ \A p : Scanned(n, p)' => Scanned(n, p)
          /\ InFlight(n, e)' <=> InFlight(n, e)
      BY DEF Marked, Scanned, InFlight
    <2>2. CASE srv'[e] = srv[e]
      <3>1. e \notin hole[n]
        BY <1>2, <2>2 DEF HoleAfter
      <3>2. Covered(n, e)
        BY <3>1 DEF Safe
      <3>3. QED
        BY <2>1, <2>2, <3>2 DEF Covered, Behind, At
    <2>3. CASE srv'[e] # srv[e]
      <3>1. Behind(n, e, srv'[e].ts) => Holds(n, e, srv'[e].text)
        BY <1>2, <2>3 DEF HoleAfter
      <3>2. /\ Behind(n, e, srv[e].ts)' => Behind(n, e, srv'[e].ts)
            /\ Marked(n, srv[e].ts)' => Behind(n, e, srv'[e].ts)
            /\ Scanned(n, At(e))' => Behind(n, e, srv'[e].ts)
        BY <2>1 DEF Behind, At
      <3>3. QED
        BY <2>1, <3>1, <3>2 DEF Covered, Holds
    <2>4. QED
      BY <2>2, <2>3
  <1>3. QED
    BY <1>1, <1>2 DEF Safe

LEMMA InitSafe == Init => \A n \in Machines : Safe(n)
  <1> SUFFICES ASSUME Init, NEW n \in Machines PROVE Safe(n)
    OBVIOUS
  <1>1. Shape(n)
    BY DEF Init, Shape, NoRows
  <1>2. ASSUME NEW e \in Entries PROVE Covered(n, e)
    <2>1. /\ lastSync[n] = 0 => srv[e].ts \in {0, 1}
          /\ srv[e].ts = 0 => srv[e].text = {}
          /\ lastSync[n] # 0 => srv[e].text = loc[n][e].text
          /\ lastSync[n] \in {0, 1} /\ base[n] = 0 /\ srv[e].ts \in {0, 1}
      BY DEF Init, NoRow
    <2>2. stage[n] = "idle" /\ DOMAIN queue[n] = {}
      BY DEF Init, NoRows
    <2>3. QED
      BY <2>1, <2>2 DEF Covered, Marked, Scanned, Behind, InFlight
  <1>3. QED
    BY <1>1, <1>2 DEF Safe

-----------------------------------------------------------------------------
(* One lemma per kind of step.                                              *)

(* Edits on the web commit one row.                                         *)
LEMMA WebSafe ==
  ASSUME TypeOK, TypeOK', Others, NEW n \in Machines, Safe(n)
  PROVE  Safe(n)'
  <1>1. UNCHANGED <<loc, lastSync, stage, base, queue, cursor, page>>
    BY DEF Others, WebWrite, WebSetTags, PeerEditContext, local, cycle
  <1>2. srv' \in [Entries -> Row]
    BY DEF TypeOK
  <1>3. CASE hole' = HoleAfter(srv')
    BY <1>1, <1>2, <1>3, CommitSafe
  <1>4. CASE UNCHANGED <<srv, hole>>
    BY <1>1, <1>4, SameSafe DEF Same
  <1>5. QED
    BY <1>3, <1>4 DEF Others, WebWrite, WebSetTags, PeerEditContext

(* Edits on a machine only add to its copies, and a resync only lowers its  *)
(* mark.                                                                    *)
LEMMA CliSafe ==
  ASSUME TypeOK, NEW m \in Machines, Cli(m), NEW n \in Machines, Safe(n)
  PROVE  Safe(n)'
  <1>1. UNCHANGED <<srv, stage, base, queue, cursor, page, hole>>
    BY DEF Cli, CliWrite, CliSetTags, CliEditContext, ResetSync, server, local,
           cycle
  <1>2. \A e \in Entries : loc[n][e].text \subseteq loc'[n][e].text
    <2>1. ASSUME NEW f \in Entries, NEW stamped \in BOOLEAN,
                 CliWrite(m, f, stamped)
          PROVE  \A e \in Entries : loc[n][e].text \subseteq loc'[n][e].text
      BY <2>1 DEF CliWrite, TypeOK
    <2>2. ASSUME NEW f \in Entries, NEW tags \in SUBSET Tags,
                 CliSetTags(m, f, tags)
          PROVE  \A e \in Entries : loc[n][e].text \subseteq loc'[n][e].text
      BY <2>2 DEF CliSetTags, TypeOK
    <2>3. CASE UNCHANGED loc
      BY <2>3
    <2>4. QED
      BY <2>1, <2>2, <2>3 DEF Cli, CliEditContext, ResetSync, local
  <1>3. lastSync'[n] <= lastSync[n]
    <2>1. lastSync[n] \in Nat
      BY DEF TypeOK
    <2>2. CASE UNCHANGED lastSync
      BY <2>1, <2>2
    <2>3. CASE ResetSync(m)
      BY <2>1, <2>3 DEF ResetSync, TypeOK
    <2>4. QED
      BY <2>2, <2>3 DEF Cli, CliWrite, CliSetTags, CliEditContext
  <1>4. \A e \in Entries : Marked(n, srv[e].ts)' => Marked(n, srv[e].ts)
    <2> TAKE e \in Entries
    <2>1. srv[e].ts \in Int /\ lastSync[n] \in Int /\ lastSync'[n] \in Int
      BY DEF TypeOK, Row, Cli, CliWrite, CliSetTags, CliEditContext, ResetSync
    <2>2. QED
      BY <1>1, <1>3, <2>1 DEF Marked
  <1>5. Shape(n)'
    <2>1. \A e \in DOMAIN queue[n] : e \in Entries
      BY DEF TypeOK, RowsOK
    <2>2. QED
      BY <1>1, <1>2, <2>1 DEF Safe, Shape
  <1>6. ASSUME NEW e \in Entries \ hole'[n] PROVE Covered(n, e)'
    <2>1. Covered(n, e)
      BY <1>1 DEF Safe
    <2>2. /\ Scanned(n, At(e))' <=> Scanned(n, At(e))
          /\ InFlight(n, e)' <=> InFlight(n, e)
      BY <1>1 DEF Scanned, InFlight, At, AtOrBefore
    <2>3. Behind(n, e, srv[e].ts)' => Behind(n, e, srv[e].ts)
      BY <1>1, <1>4, <2>2 DEF Behind, At
    <2>4. QED
      BY <1>1, <1>2, <1>4, <2>1, <2>2, <2>3 DEF Covered
  <1>7. QED
    BY <1>5, <1>6 DEF Safe

(* What a daemon does to itself leaves the other machines as they were.     *)
LEMMA CycleStartSafe ==
  ASSUME TypeOK, NEW m \in Machines, CycleStart(m), NEW n \in Machines, Safe(n)
  PROVE  Safe(n)'
  <1>1. CASE n # m
    BY <1>1, SameSafe DEF CycleStart, StartPull, Same, server, local, TypeOK
  <1>2. CASE n = m
    <2>1. /\ UNCHANGED <<srv, loc, lastSync, page, hole>>
          /\ base'[n] = lastSync[n]
          /\ queue'[n] = [e \in Dirty(n) |-> Submitted(n, e)]
      BY <1>2 DEF CycleStart, server, local, TypeOK
    <2>2. \/ stage'[n] = "push"
          \/ /\ stage'[n] = "pull" /\ cursor'[n] = Since(lastSync[n])
             /\ Dirty(n) = {}
      BY <1>2 DEF CycleStart, StartPull, TypeOK
    <2>3. Shape(n)'
      BY <2>1, <2>2 DEF Shape, Dirty, Submitted
    <2>4. ASSUME NEW e \in Entries \ hole'[n] PROVE Covered(n, e)'
      <3>1. Marked(n, srv[e].ts) => srv[e].text \subseteq loc[n][e].text
        BY <2>1, <2>4 DEF Safe, Covered
      <3>2. Marked(n, srv[e].ts)' => Marked(n, srv[e].ts)
        BY <2>1 DEF Marked
      <3>3. srv[e].ts \in Int /\ lastSync[n] \in Int
        BY DEF TypeOK, Row
      <3>4. Scanned(n, At(e))' => srv[e].ts <= lastSync[n]
        BY <2>1, <2>2, <3>3, SinceBounds DEF Scanned, At
      <3>5. Scanned(n, At(e))' => Marked(n, srv[e].ts)
        BY <3>4 DEF Marked
      <3>6. ~InFlight(n, e)'
        BY <2>2 DEF InFlight
      <3>7. e \in DOMAIN queue'[n] => queue'[n][e].text = loc[n][e].text
        BY <2>1 DEF Submitted
      <3>8. QED
        BY <2>1, <3>1, <3>2, <3>5, <3>6, <3>7 DEF Covered
    <2>5. QED
      BY <2>3, <2>4 DEF Safe
  <1>3. QED
    BY <1>1, <1>2

LEMMA ServerPushSafe ==
  ASSUME TypeOK, TypeOK', NEW m \in Machines, ServerPush(m),
         NEW n \in Machines, Safe(n)
  PROVE  Safe(n)'
  <1>1. PICK ids \in Batches(m) : ServerPush(m)!2!(ids)
    BY DEF ServerPush
  <1>2. /\ UNCHANGED <<loc, lastSync, base, cursor, page>>
        /\ hole' = HoleAfter(srv')
        /\ srv' \in [Entries -> Row]
    BY <1>1 DEF ServerPush, local, TypeOK
  <1>3. CASE n # m
    <2>1. stage'[n] = stage[n] /\ queue'[n] = queue[n]
      BY <1>1, <1>3 DEF ServerPush, TypeOK
    <2>2. QED
      BY <1>2, <2>1, CommitSafe
  <1>4. CASE n = m
    <2>1. stage[n] = "push" /\ stage'[n] = "ack"
      BY <1>4 DEF ServerPush, TypeOK
    <2>2. queue'[n] = [e \in DOMAIN queue[n] \ ids |-> queue[n][e]]
      BY <1>1, <1>4 DEF TypeOK
    <2>3. QED
      BY <1>2, <2>1, <2>2, CommitSafe
  <1>5. QED
    BY <1>3, <1>4

LEMMA PushAckSafe ==
  ASSUME TypeOK, NEW m \in Machines, PushAck(m), NEW n \in Machines, Safe(n)
  PROVE  Safe(n)'
  <1>1. CASE n # m
    BY <1>1, SameSafe DEF PushAck, StartPull, Same, server, TypeOK
  <1>2. CASE n = m
    <2>1. /\ UNCHANGED <<srv, lastSync, base, queue, page, hole>>
          /\ \A e \in Entries : loc'[n][e].text = loc[n][e].text
      BY <1>2 DEF PushAck, server, TypeOK
    <2>2. \/ stage'[n] = "push"
          \/ /\ stage'[n] = "pull" /\ cursor'[n] = Since(lastSync[n])
             /\ DOMAIN queue[n] = {}
      BY <1>2 DEF PushAck, StartPull, TypeOK
    <2>3. \A e \in DOMAIN queue[n] : e \in Entries
      BY DEF TypeOK, RowsOK
    <2>4. Shape(n)'
      BY <2>1, <2>2, <2>3 DEF Safe, Shape
    <2>5. ASSUME NEW e \in Entries \ hole'[n] PROVE Covered(n, e)'
      <3>1. Covered(n, e)
        BY <2>1 DEF Safe
      <3>2. Marked(n, srv[e].ts)' <=> Marked(n, srv[e].ts)
        BY <2>1 DEF Marked
      <3>3. srv[e].ts \in Int /\ lastSync[n] \in Int
        BY DEF TypeOK, Row
      <3>4. Scanned(n, At(e))' => srv[e].ts <= lastSync[n]
        BY <2>1, <2>2, <3>3, SinceBounds DEF Scanned, At
      <3>5. Scanned(n, At(e))' => Marked(n, srv[e].ts)
        BY <3>4 DEF Marked
      <3>6. ~InFlight(n, e)'
        BY <2>2 DEF InFlight
      <3>7. QED
        BY <2>1, <3>1, <3>2, <3>5, <3>6 DEF Covered
    <2>6. QED
      BY <2>4, <2>5 DEF Safe
  <1>3. QED
    BY <1>1, <1>2

(* A page is a copy of the server's rows, and nothing that was still to be  *)
(* fetched lies between the old position and its end but its rows.          *)
PagePulled(m, rows) ==
    /\ page'[m].rows = [e \in rows |-> srv[e]]
    /\ page'[m].tags = [e \in rows |-> srvTags[e]]
    /\ page'[m].ctxs = [c \in {d \in Contexts : srvCtx[d].ts > cursor[m].ts}
                          |-> srvCtx[c]]
    /\ page'[m].now = clock
    /\ \/ page'[m].end = Since(clock)
       \/ page'[m].more /\ \E last \in rows : page'[m].end = At(last)
    /\ \A e \in Entries \ rows :
         AtOrBefore(At(e), page'[m].end)
           => srv[e].text = {} \/ AtOrBefore(At(e), cursor[m])

LEMMA PullStep ==
  ASSUME TypeOK, NEW m \in Machines, ServerPull(m)
  PROVE  \E rows \in SUBSET Entries : PagePulled(m, rows)
  <1>1. PICK rows \in SUBSET Entries : ServerPull(m)!2!(rows)
    BY DEF ServerPull
  <1> DEFINE more == Cardinality(rows) = BatchSize
             ctxs == {c \in Contexts : srvCtx[c].ts > cursor[m].ts}
  <1>2. PICK last \in IF more THEN rows ELSE {NumEntries} :
           /\ more => \A e \in rows : AtOrBefore(At(e), At(last))
           /\ page' = [page EXCEPT ![m] =
                [rows |-> [e \in rows |-> srv[e]],
                 tags |-> [e \in rows |-> srvTags[e]],
                 ctxs |-> [c \in ctxs |-> srvCtx[c]],
                 more |-> more,
                 end |-> IF more THEN At(last) ELSE Since(clock),
                 now |-> clock]]
    BY <1>1
  <1>3. /\ page'[m].rows = [e \in rows |-> srv[e]]
        /\ page'[m].tags = [e \in rows |-> srvTags[e]]
        /\ page'[m].ctxs = [c \in ctxs |-> srvCtx[c]]
        /\ page'[m].more = more
        /\ page'[m].end = IF more THEN At(last) ELSE Since(clock)
        /\ page'[m].now = clock
    BY <1>2 DEF TypeOK
  <1>4. ASSUME NEW e \in Entries \ rows, AtOrBefore(At(e), page'[m].end)
        PROVE  srv[e].text = {} \/ AtOrBefore(At(e), cursor[m])
    <2>1. CASE ~more
      BY <1>1, <2>1 DEF IsPage, Pending
    <2>2. CASE more
      <3> SUFFICES ASSUME e \in Pending(m) PROVE FALSE
        BY DEF Pending
      <3>1. last \in rows /\ AtOrBefore(At(last), At(e)) /\ AtOrBefore(At(e), At(last))
        BY <1>1, <1>2, <1>3, <1>4, <2>2 DEF IsPage
      <3>2. /\ srv[e].ts \in Int /\ srv[last].ts \in Int
            /\ e \in Int /\ last \in Int
        BY <3>1 DEF TypeOK, Row, Entries
      <3>3. e = last
        BY <3>1, <3>2 DEF AtOrBefore, At
      <3>4. QED
        BY <3>1, <3>3
    <2>3. QED
      BY <2>1, <2>2
  <1>5. \/ page'[m].end = Since(clock)
        \/ page'[m].more /\ \E e \in rows : page'[m].end = At(e)
    BY <1>2, <1>3
  <1>6. QED
    BY <1>3, <1>4, <1>5 DEF PagePulled

LEMMA ServerPullSafe ==
  ASSUME TypeOK, NEW m \in Machines, ServerPull(m), NEW n \in Machines, Safe(n)
  PROVE  Safe(n)'
  <1>1. CASE n # m
    BY <1>1, SameSafe DEF ServerPull, Same, server, local, TypeOK
  <1>2. CASE n = m
    <2>1. PICK rows \in SUBSET Entries : PagePulled(n, rows)
      BY <1>2, PullStep
    <2>2. /\ page'[n].rows = [e \in rows |-> srv[e]]
          /\ page'[n].now = clock
          /\ ~page'[n].more => page'[n].end = Since(clock)
      BY <2>1 DEF PagePulled
    <2>3. /\ UNCHANGED <<srv, loc, lastSync, base, queue, cursor, hole>>
          /\ stage[n] = "pull" /\ stage'[n] = "merge"
      BY <1>2 DEF ServerPull, server, local, TypeOK
    <2>4. Shape(n)'
      BY <2>2, <2>3 DEF Safe, Shape
    <2>5. ASSUME NEW e \in Entries \ hole'[n] PROVE Covered(n, e)'
      <3>1. Covered(n, e)
        BY <2>3 DEF Safe
      <3>2. Marked(n, srv[e].ts)' <=> Marked(n, srv[e].ts)
        BY <2>3 DEF Marked
      <3>3. InFlight(n, e)' <=> e \in rows
        BY <2>2, <2>3 DEF InFlight
      <3>4. ~InFlight(n, e)
        BY <2>3 DEF InFlight
      <3>5. CASE e \in rows
        <4>1. page'[n].rows[e].text = srv[e].text
          BY <2>2, <3>5
        <4>2. QED
          BY <2>3, <3>1, <3>2, <3>3, <3>5, <4>1 DEF Covered
      <3>6. CASE e \notin rows
        <4>1. Scanned(n, At(e))' => AtOrBefore(At(e), page'[n].end)
          BY <2>3 DEF Scanned, At, AtOrBefore
        <4>2. Scanned(n, At(e))'
                => srv[e].text = {} \/ AtOrBefore(At(e), cursor[n])
          BY <2>1, <3>6, <4>1 DEF PagePulled
        <4>3. AtOrBefore(At(e), cursor[n]) => Scanned(n, At(e))
          BY <2>3 DEF Scanned
        <4>4. Scanned(n, At(e))' => srv[e].text \subseteq loc[n][e].text
          BY <3>1, <3>4, <4>2, <4>3 DEF Covered
        <4>5. QED
          BY <2>3, <3>1, <3>2, <3>3, <3>6, <4>4 DEF Covered
      <3>7. QED
        BY <3>5, <3>6
    <2>6. QED
      BY <2>4, <2>5 DEF Safe
  <1>3. QED
    BY <1>1, <1>2

LEMMA MergeSafe ==
  ASSUME TypeOK, NEW m \in Machines, Merge(m), NEW n \in Machines, Safe(n)
  PROVE  Safe(n)'
  <1>1. CASE n # m
    BY <1>1, SameSafe DEF Merge, Same, server, TypeOK
  <1>2. CASE n = m
    <2>1. /\ UNCHANGED <<srv, lastSync, base, queue, page>>
          /\ stage[n] = "merge"
          /\ \A e \in Entries : loc'[n][e] = MergeRow(n, e)
      BY <1>2 DEF Merge, server, TypeOK
    <2>2. \/ stage'[n] = "pull" /\ cursor'[n] = page[n].end
          \/ stage'[n] = "advance" /\ ~page[n].more
      BY <1>2 DEF Merge, TypeOK
    <2>3. Shape(n)'
      BY <2>1, <2>2 DEF Safe, Shape
    <2>4. ASSUME NEW e \in Entries \ hole'[n] PROVE Covered(n, e)'
      <3>1. /\ Marked(n, srv[e].ts)' <=> Marked(n, srv[e].ts)
            /\ Scanned(n, At(e))' => Scanned(n, At(e))
            /\ ~InFlight(n, e)'
        BY <2>1, <2>2 DEF Marked, Scanned, InFlight, At, AtOrBefore
      <3>2. DOMAIN queue'[n] = {}
        BY <2>1 DEF Safe, Shape
      <3>3. Behind(n, e, srv[e].ts) => srv[e].text \subseteq loc'[n][e].text
        <4>1. CASE e \in DOMAIN page[n].rows
          <5>1. \/ srv[e].text \subseteq loc'[n][e].text
                \/ e \notin hole[n] /\ Takes(n, e)
            BY <1>2, <2>4, <4>1 DEF Merge, TypeOK
          <5>2. ASSUME e \notin hole[n], Takes(n, e), Behind(n, e, srv[e].ts)
                PROVE  srv[e].text \subseteq loc'[n][e].text
            <6>1. InFlight(n, e) /\ Covered(n, e)
              BY <2>1, <4>1, <5>2 DEF Safe, InFlight
            <6>2. loc'[n][e].text = page[n].rows[e].text
              <7>1. MergeRow(n, e) = [text |-> page[n].rows[e].text,
                                      ts |-> page[n].rows[e].ts, dirty |-> FALSE]
                BY <4>1, <5>2 DEF MergeRow
              <7>2. loc'[n][e] = MergeRow(n, e)
                BY <2>1
              <7>3. QED
                BY <7>1, <7>2
            <6>3. QED
              BY <5>2, <6>1, <6>2 DEF Covered
          <5>3. QED
            BY <5>1, <5>2
        <4>2. CASE e \notin DOMAIN page[n].rows
          <5>1. e \notin hole[n] /\ loc'[n][e] = loc[n][e]
            BY <1>2, <2>1, <2>4, <4>2 DEF Merge, MergeRow, TypeOK
          <5>2. Covered(n, e) /\ ~InFlight(n, e)
            BY <4>2, <5>1 DEF Safe, InFlight
          <5>3. QED
            BY <5>1, <5>2 DEF Covered, Behind, At
        <4>3. QED
          BY <4>1, <4>2
      <3>4. QED
        BY <2>1, <3>1, <3>2, <3>3 DEF Covered, Behind, At
    <2>5. QED
      BY <2>3, <2>4 DEF Safe
  <1>3. QED
    BY <1>1, <1>2

(* A cycle may end with any baseline that the copy of the machine covers.   *)
LEMMA EndCycleSafe ==
  ASSUME TypeOK, NEW m \in Machines, EndCycle(m), NEW baseline \in Nat,
         KeepHoles(m, baseline), lastSync'[m] = baseline,
         UNCHANGED <<srv, loc>>,
         \A e \in Entries \ hole[m] :
            srv[e].ts <= baseline => srv[e].text \subseteq loc[m][e].text
  PROVE  Safe(m)'
  <1>1. /\ stage'[m] = "idle" /\ base'[m] = 0
        /\ queue'[m] = NoRows
        /\ hole'[m] = {e \in hole[m] : srv[e].ts <= baseline}
    BY DEF EndCycle, KeepHoles, TypeOK
  <1>2. DOMAIN queue'[m] = {}
    BY <1>1 DEF NoRows
  <1>3. Shape(m)'
    BY <1>1, <1>2 DEF Shape
  <1>4. ASSUME NEW e \in Entries \ hole'[m] PROVE Covered(m, e)'
    <2>1. srv[e].ts \in Int
      BY DEF TypeOK, Row
    <2>2. Marked(m, srv[e].ts)' => srv[e].ts <= baseline
      BY <1>1, <2>1 DEF Marked
    <2>3. srv[e].ts <= baseline => srv[e].text \subseteq loc[m][e].text
      BY <1>1, <1>4
    <2>4. ~Scanned(m, At(e))' /\ ~InFlight(m, e)'
      BY <1>1 DEF Scanned, InFlight
    <2>5. QED
      BY <1>2, <2>2, <2>3, <2>4 DEF Covered
  <1>5. QED
    BY <1>3, <1>4 DEF Safe

LEMMA AdvanceSafe ==
  ASSUME TypeOK, TypeOK', NEW m \in Machines, Advance(m),
         NEW n \in Machines, Safe(n)
  PROVE  Safe(n)'
  <1>1. /\ UNCHANGED <<srv, loc>>
        /\ lastSync' = [lastSync EXCEPT ![m] = page[m].now]
        /\ stage[m] = "advance"
    BY DEF Advance, PulledUpTo, server, local
  <1>2. CASE n # m
    <2>1. Same(n) /\ hole'[n] = hole[n]
      BY <1>2 DEF Advance, EndCycle, KeepHoles, Same, local, TypeOK
    <2>2. QED
      BY <1>1, <2>1, SameSafe
  <1>3. CASE n = m
    <2>1. page[n].end = Since(page[n].now)
      BY <1>1, <1>3 DEF Safe, Shape
    <2>2. page[n].now \in Nat
      BY DEF TypeOK, PageOK
    <2>3. ASSUME NEW e \in Entries \ hole[n], srv[e].ts <= page[n].now
          PROVE  srv[e].text \subseteq loc[n][e].text
      <3>1. Covered(n, e) /\ ~InFlight(n, e)
        BY <1>1, <1>3 DEF Safe, InFlight
      <3>2. srv[e].ts \in Int
        BY DEF TypeOK, Row
      <3>3. Scanned(n, At(e))
        BY <1>1, <1>3, <2>1, <2>2, <2>3, <3>2, SinceBounds DEF Scanned, At
      <3>4. QED
        BY <3>1, <3>3 DEF Covered
    <2>4. CASE EndCycle(m) /\ KeepHoles(m, PulledUpTo(m))
      BY <1>1, <1>3, <2>2, <2>3, <2>4, EndCycleSafe DEF PulledUpTo, TypeOK
    <2>5. CASE stage' = [stage EXCEPT ![m] = "restore"]
               /\ UNCHANGED <<base, queue, cursor, page, hole>>
      <3>1. stage'[n] = "restore" /\ lastSync'[n] = page[n].now
        BY <1>1, <1>3, <2>5 DEF TypeOK
      <3>2. Shape(n)'
        BY <1>1, <1>3, <2>5, <3>1 DEF Safe, Shape
      <3>3. ASSUME NEW e \in Entries \ hole'[n] PROVE Covered(n, e)'
        <4>1. Covered(n, e)
          BY <2>5 DEF Safe
        <4>2. Marked(n, srv[e].ts)' => Marked(n, srv[e].ts)
                                       \/ srv[e].ts <= page[n].now
          BY <1>1, <2>5, <3>1 DEF Marked
        <4>3. Marked(n, srv[e].ts)' => srv[e].text \subseteq loc[n][e].text
          BY <2>3, <2>5, <4>1, <4>2 DEF Covered
        <4>4. ~Scanned(n, At(e))' /\ ~InFlight(n, e)'
          BY <3>1 DEF Scanned, InFlight
        <4>5. DOMAIN queue'[n] = {}
          BY <1>1, <1>3, <2>5 DEF Safe, Shape
        <4>6. QED
          BY <1>1, <4>3, <4>4, <4>5 DEF Covered
      <3>4. QED
        BY <3>2, <3>3 DEF Safe
    <2>6. QED
      BY <2>4, <2>5 DEF Advance
  <1>4. QED
    BY <1>2, <1>3

LEMMA RestoreSafe ==
  ASSUME TypeOK, NEW m \in Machines, RestoreBaseline(m),
         NEW n \in Machines, Safe(n)
  PROVE  Safe(n)'
  <1>1. /\ UNCHANGED <<srv, loc>>
        /\ lastSync' = [lastSync EXCEPT ![m] = base[m]]
        /\ EndCycle(m) /\ KeepHoles(m, base[m])
    BY DEF RestoreBaseline, Restored, server, local
  <1>2. CASE n # m
    BY <1>1, <1>2, SameSafe DEF EndCycle, KeepHoles, Same, TypeOK
  <1>3. CASE n = m
    <2>1. \A e \in Entries \ hole[n] :
             srv[e].ts <= base[n] => srv[e].text \subseteq loc[n][e].text
      BY DEF Safe, Covered, Marked
    <2>2. base[n] \in Nat /\ lastSync'[n] = base[n]
      BY <1>1, <1>3 DEF TypeOK
    <2>3. QED
      BY <1>1, <1>3, <2>1, <2>2, EndCycleSafe
  <1>4. QED
    BY <1>2, <1>3

LEMMA FailSafe ==
  ASSUME TypeOK, NEW m \in Machines, CycleFails(m), NEW n \in Machines, Safe(n)
  PROVE  Safe(n)'
  <1>1. /\ UNCHANGED <<srv, loc, lastSync>>
        /\ EndCycle(m) /\ KeepHoles(m, lastSync[m])
    BY DEF CycleFails, server, local
  <1>2. CASE n # m
    BY <1>1, <1>2, SameSafe DEF EndCycle, KeepHoles, Same, TypeOK
  <1>3. CASE n = m
    <2>1. \A e \in Entries \ hole[n] :
             srv[e].ts <= lastSync[n] => srv[e].text \subseteq loc[n][e].text
      BY DEF Safe, Covered, Marked
    <2>2. lastSync[n] \in Nat
      BY DEF TypeOK
    <2>3. QED
      BY <1>1, <1>3, <2>1, <2>2, EndCycleSafe
  <1>4. QED
    BY <1>2, <1>3

-----------------------------------------------------------------------------
(* The results.                                                             *)

LEMMA StepSafe ==
  ASSUME TypeOK, TypeOK', [Next]_vars, NEW n \in Machines, Safe(n)
  PROVE  Safe(n)'
  <1>1. CASE UNCHANGED vars
    BY <1>1, SameSafe DEF vars, server, local, cycle, Same
  <1>2. CASE Next
    BY <1>2, WebSafe, CliSafe, CycleStartSafe, ServerPushSafe, PushAckSafe,
       ServerPullSafe, MergeSafe, AdvanceSafe, RestoreSafe, FailSafe
       DEF Next, Daemon
  <1>3. QED
    BY <1>1, <1>2

(* The invariant SyncInv holds in every reachable state, for any number of  *)
(* machines and entries, any batch size and any clock offsets.              *)
THEOREM SyncInvariant == Spec => []SyncInv
  <1>1. Init => SyncInv
    BY InitTypeOK, InitSafe DEF SyncInv, Safe
  <1>2. SyncInv /\ [Next]_vars => SyncInv'
    <2> SUFFICES ASSUME SyncInv, [Next]_vars PROVE SyncInv'
      OBVIOUS
    <2>1. TypeOK /\ \A n \in Machines : Safe(n)
      BY DEF SyncInv, Safe
    <2>2. TypeOK'
      BY <2>1, StepTypeOK
    <2>3. \A n \in Machines : Safe(n)'
      BY <2>1, <2>2, StepSafe
    <2>4. QED
      BY <2>2, <2>3 DEF SyncInv, Safe
  <1>3. QED
    BY <1>1, <1>2, PTL DEF Spec

(* What the guard of sync_push relies on: every version up to the baseline  *)
(* of a machine is contained in its copy, outside the holes.                *)
THEOREM BaselineIsSound == Spec => []BaselineCovers
  <1>1. SyncInv => BaselineCovers
    BY DEF SyncInv, BaselineCovers, Covered, Marked
  <1>2. QED
    BY <1>1, SyncInvariant, PTL

(* The guard itself: only the push of a machine with a hole at an entry     *)
(* replaces a server row by one that lacks some of its edits.               *)
THEOREM LossOnlyThroughHoles == Spec => LossNeedsHole
  <1>1. SyncInv /\ [Next]_vars => [LossExplained]_vars
    <2> SUFFICES ASSUME SyncInv, Next PROVE LossExplained
      OBVIOUS
    <2> SUFFICES ASSUME NEW e \in Entries, Loses(e)
                 PROVE  \E m \in Machines : /\ stage[m] = "push"
                                            /\ stage'[m] = "ack"
                                            /\ e \in hole[m]
      BY DEF LossExplained
    <2>1. PICK m \in Machines : ServerPush(m)
      <3>1. CASE Others
        <4>1. ASSUME NEW f \in Entries, NEW time \in WebTimes(f),
                     \/ WebWrite(f, time)
                     \/ \E tags \in SUBSET Tags : WebSetTags(f, tags, time)
              PROVE  FALSE
          <5>1. srv \in [Entries -> Row]
            BY DEF SyncInv, TypeOK
          <5>2. CASE WebWrite(f, time)
            <6>1. srv'[e].text = IF e = f THEN srv[e].text \cup {Now}
                                          ELSE srv[e].text
              BY <5>1, <5>2 DEF WebWrite
            <6>2. QED
              BY <6>1 DEF Loses
          <5>3. ASSUME NEW tags \in SUBSET Tags, WebSetTags(f, tags, time)
                PROVE  FALSE
            <6>1. srv'[e].text = srv[e].text
              BY <5>1, <5>3 DEF WebSetTags
            <6>2. QED
              BY <6>1 DEF Loses
          <5>4. QED
            BY <4>1, <5>2, <5>3
        <4>2. ASSUME NEW c \in Contexts, PeerEditContext(c) PROVE FALSE
          BY <4>2 DEF PeerEditContext, Loses
        <4>3. QED
          BY <3>1, <4>1, <4>2 DEF Others
      <3>2. ASSUME NEW m \in Machines, Cli(m) PROVE FALSE
        BY <3>2 DEF Cli, CliWrite, CliSetTags, CliEditContext, ResetSync,
                    server, Loses
      <3>3. ASSUME NEW m \in Machines, Daemon(m), ~ServerPush(m) PROVE FALSE
        BY <3>3 DEF Daemon, CycleStart, PushAck, ServerPull, Merge, Advance,
                    RestoreBaseline, server, Loses
      <3>4. ASSUME NEW m \in Machines, CycleFails(m) PROVE FALSE
        BY <3>4 DEF CycleFails, server, Loses
      <3>5. QED
        BY <3>1, <3>2, <3>3, <3>4 DEF Next
    <2>2. PICK ids \in Batches(m) : ServerPush(m)!2!(ids)
      BY <2>1 DEF ServerPush
    <2>3. /\ e \in ids \ StaleEntries(m, ids)
          /\ srv'[e] = Stored(m, srv[e], queue[m][e])
      BY <2>2 DEF Loses
    <2>4. srv'[e].text = queue[m][e].text /\ e \in DOMAIN queue[m]
      BY <2>3 DEF Stored, Batches
    <2>5. ~(srv[e].text \subseteq queue[m][e].text)
      BY <2>4 DEF Loses
    <2>6. srv[e].ts <= base[m]
      <3>1. srv[e].ts \in Int /\ base[m] \in Int
        BY DEF SyncInv, TypeOK, Row
      <3>2. ~(srv[e].ts > base[m])
        BY <2>3, <2>5 DEF StaleEntries
      <3>3. QED
        BY <3>1, <3>2
    <2>7. e \in hole[m]
      BY <2>4, <2>5, <2>6 DEF SyncInv, Covered, Marked
    <2>8. stage[m] = "push" /\ stage'[m] = "ack"
      BY <2>1 DEF ServerPush, SyncInv, TypeOK
    <2>9. QED
      BY <2>7, <2>8
  <1>2. QED
    BY <1>1, SyncInvariant, PTL DEF Spec, LossNeedsHole
-----------------------------------------------------------------------------
(* One machine.                                                             *)

(* The instance docs/architecture.md makes its promise for: one machine,    *)
(* its clock not ahead, no edit during a cycle, stamped web edits, and no   *)
(* crash between the two writes of last_sync_time in sync_cycle.            *)
OneQuietMachine ==
    /\ \A m, n \in Machines : m = n
    /\ \A m \in Machines : Ahead[m] <= 0
    /\ ~CliDuringCycle /\ ~WebKeepsTime /\ WebLag = 0
    /\ "restore" \notin FailsAt

(* Nothing is stamped later than now.                                       *)
Upto(t, row) == row.ts <= t /\ \A x \in row.text : x <= t

MachineDated(m) ==
    /\ lastSync[m] <= clock /\ base[m] <= clock
    /\ cursor[m].ts <= clock /\ page[m].now <= clock
    /\ page[m].end.ts <= page[m].now
    /\ \A e \in Entries : Upto(clock, loc[m][e])

Dated ==
    /\ \A e \in Entries : Upto(clock, srv[e])
    /\ \A m \in Machines : MachineDated(m)

(* What a cycle holds is what is in SQLite: nobody edits beside it.  A row  *)
(* that is still dirty is to be pushed, or its push is in flight, or the    *)
(* server refused it or its context.                                        *)
Present(m, e) == loc[m][e].text # {}
Clean(m, e) == Present(m, e) /\ ~loc[m][e].dirty
Sending(m) == IF stage[m] = "ack" THEN reply[m].sent ELSE {}
Paging(m) == stage[m] \in {"merge", "advance", "restore"}

Snapshot(m) ==
    /\ \A e \in DOMAIN queue[m] :
            queue[m][e] = Submitted(m, e) /\ loc[m][e].dirty
    /\ Sending(m) \cap DOMAIN queue[m] = {}
    /\ stage[m] \notin {"idle", "restore"} => base[m] = lastSync[m]
    /\ Paging(m) => lastSync[m] <= page[m].now /\ base[m] <= page[m].now

Accounted(m) ==
    stage[m] # "idle" => \A e \in Entries : loc[m][e].dirty =>
        \/ e \in DOMAIN queue[m] \cup Sending(m) \cup conflicts[m]
        \/ CtxOf[e] \in ctxConflicts[m]

(* A clean row is no newer than the server's, nor is one that equals it.    *)
TimesOK(m) ==
    \A e \in Entries :
        /\ loc[m][e].dirty => Present(m, e)
        /\ Clean(m, e) => loc[m][e].ts <= srv[e].ts
        /\ Present(m, e) /\ srv[e].text = loc[m][e].text
             => loc[m][e].ts <= srv[e].ts

TagsHeld(m, e) == srvTags[e] \subseteq locTags[m][e]

(* What the server did not reject of the batch in flight is on it.          *)
SentOK(m) ==
    \A e \in Sending(m) \ reply[m].rejected :
        /\ loc[m][e].text \subseteq srv[e].text
        /\ loc[m][e].ts <= srv[e].ts
        /\ Marked(m, srv[e].ts) => TagsHeld(m, e)

(* A page in flight is not ahead of the server, nor behind a clean row.     *)
FetchedOK(m) ==
    stage[m] = "merge" => \A e \in DOMAIN page[m].rows :
        /\ page[m].rows[e].text \subseteq srv[e].text
        /\ page[m].rows[e].ts <= srv[e].ts
        /\ Clean(m, e) => loc[m][e].ts <= page[m].rows[e].ts

(* The one hole left closes with the cycle: a newer version skipped because *)
(* its row was applied while its context was refused.                       *)
HolesClose(m) ==
    \A e \in hole[m] :
        /\ stage[m] \notin {"idle", "push", "ack"}
        /\ CtxOf[e] \in ctxConflicts[m]
        /\ ~(srv[e].ts <= base[m])

(* Covered, for contexts and for tags.                                      *)
PagedContext(m, c) ==
    IF stage[m] = "merge" /\ c \in DOMAIN page[m].ctxs THEN page[m].ctxs[c].text
                                                       ELSE locCtx[m][c].text
ContextsCovered(m) ==
    \A c \in Contexts :
        /\ srvCtx[c].ts <= lastSync[m]
             => srvCtx[c].text \subseteq locCtx[m][c].text
        /\ stage[m] = "pull" /\ srvCtx[c].ts <= cursor[m].ts
             => srvCtx[c].text \subseteq locCtx[m][c].text
        /\ Paging(m) /\ srvCtx[c].ts <= page[m].now
             => srvCtx[c].text \subseteq PagedContext(m, c)

TagsCovered(m) ==
    \A e \in Entries :
        /\ srv[e].text = {} => srvTags[e] = {}
        /\ Marked(m, srv[e].ts) /\ Clean(m, e) => TagsHeld(m, e)
        /\ Scanned(m, At(e)) /\ ~InFlight(m, e) /\ Clean(m, e) => TagsHeld(m, e)
        /\ Behind(m, e, srv[e].ts) /\ InFlight(m, e)
             => srvTags[e] \subseteq page[m].tags[e]

Quiet(m) ==
    /\ Snapshot(m) /\ Accounted(m) /\ TimesOK(m)
    /\ SentOK(m) /\ FetchedOK(m) /\ HolesClose(m)
    /\ ContextsCovered(m) /\ TagsCovered(m)

QuietInv == SyncInv /\ Dated /\ \A m \in Machines : Quiet(m)

LEMMA InitDated == Init => Dated
  <1> SUFFICES ASSUME Init PROVE Dated
    OBVIOUS
  <1>1. \A e \in Entries : Upto(clock, srv[e])
    <2> TAKE e \in Entries
    <2>1. clock = 1 /\ srv[e] \in {[text |-> {1}, ts |-> 1], NoRow}
      BY DEF Init
    <2>2. QED
      BY <2>1 DEF Upto, NoRow
  <1>2. ASSUME NEW m \in Machines PROVE MachineDated(m)
    <2>1. /\ clock = 1
          /\ lastSync[m] \in {0, 1} /\ base[m] = 0 /\ cursor[m].ts = 0
          /\ page[m].now = 0 /\ page[m].end.ts = 0
      BY DEF Init, Since, NoPage
    <2>2. \A e \in Entries :
             loc[m][e] \in {[text |-> {}, ts |-> 0, dirty |-> FALSE],
                            [text |-> {1}, ts |-> 1, dirty |-> FALSE]}
      BY DEF Init
    <2>3. QED
      BY <2>1, <2>2 DEF MachineDated, Upto
  <1>3. QED
    BY <1>1, <1>2 DEF Dated

LEMMA InitQuiet == ASSUME NEW m \in Machines PROVE Init => Quiet(m)
  <1> SUFFICES ASSUME Init PROVE Quiet(m)
    OBVIOUS
  <1>1. /\ base[m] = 0 /\ stage[m] = "idle"
        /\ DOMAIN queue[m] = {} /\ hole[m] = {}
        /\ \A e \in Entries : srvTags[e] = {}
    BY DEF Init, NoRows
  <1>2. ASSUME NEW e \in Entries
        PROVE  \/ loc[m][e] = [text |-> {}, ts |-> 0, dirty |-> FALSE]
               \/ /\ loc[m][e] = [text |-> {1}, ts |-> 1, dirty |-> FALSE]
                  /\ srv[e] = [text |-> {1}, ts |-> 1]
    BY DEF Init
  <1>3. ASSUME NEW c \in Contexts, srvCtx[c].ts <= lastSync[m]
        PROVE  srvCtx[c].text \subseteq locCtx[m][c].text
    <2>1. srvCtx[c] = [text |-> {1}, ts |-> 1] /\ lastSync[m] \in {0, 1}
      BY DEF Init
    <2>2. lastSync[m] = 1 => locCtx[m][c] = srvCtx[c]
      BY DEF Init
    <2>3. QED
      BY <1>3, <2>1, <2>2
  <1>4. Snapshot(m) /\ Accounted(m) /\ SentOK(m) /\ FetchedOK(m) /\ HolesClose(m)
    BY <1>1 DEF Snapshot, Accounted, SentOK, FetchedOK, HolesClose, Sending, Paging
  <1>5. TimesOK(m)
    BY <1>2 DEF TimesOK, Present, Clean
  <1>6. ContextsCovered(m)
    BY <1>1, <1>3 DEF ContextsCovered, Paging
  <1>7. TagsCovered(m)
    BY <1>1 DEF TagsCovered, TagsHeld, InFlight
  <1>8. QED
    BY <1>4, <1>5, <1>6, <1>7 DEF Quiet

(* The parts of a state without which a machine's part of Dated can change. *)
LEMMA SameDated ==
  ASSUME TypeOK, TypeOK', NEW m \in Machines, MachineDated(m),
         clock' \in {clock, Now},
         UNCHANGED <<loc, lastSync, base, cursor, page>>
  PROVE  MachineDated(m)'
  <1>1. clock \in Int /\ clock' \in Int /\ clock <= clock'
    BY DEF TypeOK, Edits, Now
  <1>2. /\ lastSync[m] \in Int /\ base[m] \in Int
        /\ cursor[m].ts \in Int /\ page[m].now \in Int
    BY DEF TypeOK, PageOK, Position
  <1>3. \A e \in Entries : loc[m][e].ts \in Int /\ loc[m][e].text \subseteq Int
    BY DEF TypeOK, LocalRow, Edits
  <1>4. /\ lastSync[m] <= clock' /\ base[m] <= clock'
        /\ cursor[m].ts <= clock' /\ page[m].now <= clock'
    BY <1>1, <1>2 DEF MachineDated
  <1>5. \A e \in Entries : Upto(clock', loc[m][e])
    BY <1>1, <1>3 DEF MachineDated, Upto
  <1>6. QED
    BY <1>4, <1>5 DEF MachineDated, Upto

LEMMA ServerDated ==
  ASSUME TypeOK, TypeOK', Dated, clock' \in {clock, Now}, UNCHANGED srv
  PROVE  \A e \in Entries : Upto(clock, srv[e])'
  <1>1. clock \in Int /\ clock' \in Int /\ clock <= clock'
    BY DEF TypeOK, Edits, Now
  <1>2. \A e \in Entries : srv[e].ts \in Int /\ srv[e].text \subseteq Int
    BY DEF TypeOK, Row, Edits
  <1>3. QED
    BY <1>1, <1>2 DEF Dated, Upto

(* A daemon that leaves its cycle forgets its position.                     *)
LEMMA EndCycleDated ==
  ASSUME TypeOK, NEW m \in Machines, MachineDated(m), EndCycle(m),
         lastSync'[m] <= clock, UNCHANGED <<clock, loc>>
  PROVE  MachineDated(m)'
  <1>1. /\ base'[m] = 0 /\ cursor'[m].ts = 0 /\ page'[m].now = 0
        /\ page'[m].end.ts = 0
    BY DEF EndCycle, TypeOK, Since, NoPage
  <1>2. clock \in Int /\ 0 <= clock
    BY DEF TypeOK, Edits
  <1>3. \A e \in Entries : Upto(clock, loc[m][e])
    BY DEF MachineDated
  <1>4. QED
    BY <1>1, <1>2, <1>3 DEF MachineDated, Upto

-----------------------------------------------------------------------------
(* Edits elsewhere.                                                         *)

LEMMA NowUnseen ==
  ASSUME TypeOK, NEW m \in Machines, MachineDated(m), NEW e \in Entries
  PROVE  ~Behind(m, e, Now)
  <1>1. /\ clock \in Int /\ lastSync[m] \in Int /\ base[m] \in Int
        /\ cursor[m].ts \in Int /\ page[m].now \in Int /\ page[m].end.ts \in Int
    BY DEF TypeOK, Edits, PageOK, Position
  <1>2. /\ ~(Now <= lastSync[m]) /\ ~(Now <= base[m])
        /\ cursor[m].ts < Now /\ page[m].end.ts < Now
    BY <1>1 DEF MachineDated, Now
  <1>3. QED
    BY <1>1, <1>2 DEF Behind, Marked, Scanned, AtOrBefore, Now

EntryEdited(e) ==
    /\ srv'[e].ts = Now /\ srv'[e].text # {}
    /\ srv[e].text \subseteq srv'[e].text
    /\ srv'[e].text \subseteq srv[e].text \cup {Now}
    /\ \A f \in Entries \ {e} : srv'[f] = srv[f] /\ srvTags'[f] = srvTags[f]
    /\ hole' = HoleAfter(srv')
    /\ UNCHANGED srvCtx

ContextEdited(c) ==
    /\ srvCtx'[c].ts = Now /\ srvCtx[c].text \subseteq srvCtx'[c].text
    /\ \A d \in Contexts \ {c} : srvCtx'[d] = srvCtx[d]
    /\ UNCHANGED <<srv, srvTags, hole>>

LEMMA OthersStep ==
  ASSUME OneQuietMachine, TypeOK, Others
  PROVE  /\ clock' = Now
         /\ UNCHANGED <<loc, locTags, locCtx, lastSync, stage, base, queue, reply,
                        conflicts, ctxConflicts, resolved, cursor, page>>
         /\ \/ \E e \in Entries : EntryEdited(e)
            \/ \E c \in Contexts : ContextEdited(c)
  <1>1. ASSUME NEW e \in Entries, NEW time \in WebTimes(e) PROVE time = Now
    <2>1. time \in {Now - lag : lag \in 0..0}
      BY DEF OneQuietMachine, WebTimes
    <2>2. Now \in Int
      BY DEF TypeOK, Edits, Now
    <2>3. QED
      BY <2>1, <2>2
  <1>2. ASSUME NEW e \in Entries, NEW time \in WebTimes(e), WebWrite(e, time)
        PROVE  clock' = Now /\ EntryEdited(e)
    <2>1. srv' = [srv EXCEPT ![e] = [text |-> srv[e].text \cup {Now}, ts |-> time]]
      BY <1>2 DEF WebWrite
    <2>2. srv'[e] = [text |-> srv[e].text \cup {Now}, ts |-> Now]
      BY <2>1, <1>1 DEF TypeOK
    <2>3. /\ srv'[e].ts = Now /\ srv'[e].text = srv[e].text \cup {Now}
          /\ \A f \in Entries \ {e} : srv'[f] = srv[f]
      BY <2>1, <2>2 DEF TypeOK
    <2>4. QED
      BY <1>2, <2>3 DEF WebWrite, EntryEdited, Tick, Now
  <1>3. ASSUME NEW e \in Entries, NEW time \in WebTimes(e),
               NEW tags \in SUBSET Tags, WebSetTags(e, tags, time)
        PROVE  clock' = Now /\ EntryEdited(e)
    <2>1. srv' = [srv EXCEPT ![e] = [text |-> srv[e].text, ts |-> time]]
      BY <1>3 DEF WebSetTags
    <2>2. srv'[e] = [text |-> srv[e].text, ts |-> Now]
      BY <2>1, <1>1 DEF TypeOK
    <2>3. /\ srv'[e].ts = Now /\ srv'[e].text = srv[e].text
          /\ \A f \in Entries \ {e} : srv'[f] = srv[f] /\ srvTags'[f] = srvTags[f]
      BY <1>3, <2>1, <2>2 DEF TypeOK, WebSetTags
    <2>4. QED
      BY <1>3, <2>3 DEF WebSetTags, EntryEdited, Tick, Now
  <1>4. ASSUME NEW c \in Contexts, PeerEditContext(c)
        PROVE  clock' = Now /\ ContextEdited(c)
    <2>1. srvCtx'[c] = [text |-> srvCtx[c].text \cup {Now}, ts |-> Now]
      BY <1>4 DEF PeerEditContext, TypeOK
    <2>2. QED
      BY <1>4, <2>1 DEF PeerEditContext, ContextEdited, Tick, Now, TypeOK
  <1>5. UNCHANGED <<loc, locTags, locCtx, lastSync, stage, base, queue, reply,
                    conflicts, ctxConflicts, resolved, cursor, page>>
    BY DEF Others, WebWrite, WebSetTags, PeerEditContext, local, cycle
  <1>6. QED
    BY <1>2, <1>3, <1>4, <1>5 DEF Others

LEMMA WebDated ==
  ASSUME OneQuietMachine, TypeOK, TypeOK', Others, Dated
  PROVE  Dated'
  <1>1. clock' = Now
    BY OthersStep
  <1>2. \A m \in Machines : MachineDated(m)'
    BY <1>1, OthersStep, SameDated DEF Dated
  <1>3. ASSUME NEW f \in Entries PROVE Upto(clock, srv[f])'
    <2>1. clock \in Int /\ clock < Now
      BY DEF TypeOK, Edits, Now
    <2>2. srv[f].ts \in Int /\ srv[f].text \subseteq Int /\ Upto(clock, srv[f])
      BY DEF TypeOK, Row, Edits, Dated
    <2>3. Upto(Now, srv[f])
      BY <2>1, <2>2 DEF Upto, Now
    <2>4. ASSUME NEW e \in Entries, EntryEdited(e) PROVE Upto(Now, srv'[f])
      <3>1. CASE f = e
        BY <2>1, <2>3, <2>4, <3>1 DEF Upto, EntryEdited, Now
      <3>2. CASE f # e
        BY <2>3, <2>4, <3>2 DEF EntryEdited
      <3>3. QED
        BY <3>1, <3>2
    <2>5. ASSUME NEW c \in Contexts, ContextEdited(c) PROVE Upto(Now, srv'[f])
      BY <2>3, <2>5 DEF ContextEdited
    <2>6. QED
      BY <1>1, <2>4, <2>5, OthersStep DEF Upto
  <1>4. QED
    BY <1>2, <1>3 DEF Dated

(* A version stamped now lies ahead of every mark and scan position, so the *)
(* machine is still to fetch it.                                            *)
LEMMA EntryEditQuiet ==
  ASSUME TypeOK, TypeOK', Dated, NEW m \in Machines, Quiet(m),
         NEW e \in Entries, EntryEdited(e),
         UNCHANGED <<loc, locTags, locCtx, lastSync, stage, base, queue, reply,
                     conflicts, ctxConflicts, cursor, page>>
  PROVE  Quiet(m)'
  <1>1. /\ srv'[e].ts = Now /\ srv'[e].text # {}
        /\ srv[e].text \subseteq srv'[e].text
        /\ \A f \in Entries \ {e} : srv'[f] = srv[f] /\ srvTags'[f] = srvTags[f]
        /\ UNCHANGED srvCtx
    BY DEF EntryEdited
  <1>2. /\ clock \in Int /\ clock < Now
        /\ \A f \in Entries : loc[m][f].ts \in Int /\ loc[m][f].ts <= clock
    BY DEF TypeOK, LocalRow, Edits, Now, Dated, MachineDated, Upto
  <1>3. \A f \in Entries : srv[f].ts \in Int /\ srv[f].ts <= clock
    BY DEF TypeOK, Row, Dated, Upto
  <1>4. /\ \A ts : Marked(m, ts)' <=> Marked(m, ts)
        /\ \A p : Scanned(m, p)' <=> Scanned(m, p)
        /\ \A f : InFlight(m, f)' <=> InFlight(m, f)
        /\ \A f : Clean(m, f)' <=> Clean(m, f)
        /\ \A f : Present(m, f)' <=> Present(m, f)
        /\ Sending(m)' = Sending(m)
    BY DEF Marked, Scanned, InFlight, Clean, Present, Sending
  <1>5. /\ ~Behind(m, e, Now) /\ ~Marked(m, Now)
        /\ ~Scanned(m, [ts |-> Now, id |-> e])
    BY NowUnseen DEF Behind, Dated
  <1>6. /\ ~Marked(m, srv[e].ts)' /\ ~Scanned(m, At(e))'
        /\ ~Behind(m, e, srv[e].ts)'
    BY <1>1, <1>4, <1>5 DEF At, Behind
  <1>7. Snapshot(m)' /\ Accounted(m)'
    <2>1. Snapshot(m)'
      BY <1>4 DEF Quiet, Snapshot, Submitted, Paging
    <2>2. Accounted(m)'
      BY <1>4 DEF Quiet, Accounted
    <2>3. QED
      BY <2>1, <2>2
  <1>8. TimesOK(m)'
    <2> SUFFICES ASSUME NEW f \in Entries
                 PROVE  /\ loc[m][f].dirty => Present(m, f)
                        /\ Clean(m, f) => loc[m][f].ts <= srv'[f].ts
                        /\ Present(m, f) /\ srv'[f].text = loc[m][f].text
                             => loc[m][f].ts <= srv'[f].ts
      BY <1>4 DEF TimesOK
    <2>1. CASE f = e
      BY <1>1, <1>2, <2>1 DEF Quiet, TimesOK, Now
    <2>2. CASE f # e
      BY <1>1, <2>2 DEF Quiet, TimesOK
    <2>3. QED
      BY <2>1, <2>2
  <1>9. SentOK(m)'
    <2> SUFFICES ASSUME NEW f \in Sending(m) \ reply[m].rejected, f \in Entries
                 PROVE  /\ loc[m][f].text \subseteq srv'[f].text
                        /\ loc[m][f].ts <= srv'[f].ts
                        /\ Marked(m, srv[f].ts)' => TagsHeld(m, f)'
      BY <1>4 DEF SentOK, Sending, TypeOK
    <2>1. loc[m][f].text \subseteq srv[f].text /\ loc[m][f].ts <= srv[f].ts
      BY DEF Quiet, SentOK
    <2>2. CASE f = e
      BY <1>1, <1>2, <1>6, <2>1, <2>2 DEF Now
    <2>3. CASE f # e
      BY <1>1, <1>4, <2>1, <2>3 DEF Quiet, SentOK, TagsHeld
    <2>4. QED
      BY <2>2, <2>3
  <1>10. FetchedOK(m)'
    <2> SUFFICES ASSUME stage[m] = "merge", NEW f \in DOMAIN page[m].rows,
                        f \in Entries
                 PROVE  /\ page[m].rows[f].text \subseteq srv'[f].text
                        /\ page[m].rows[f].ts <= srv'[f].ts
                        /\ Clean(m, f) => loc[m][f].ts <= page[m].rows[f].ts
      BY <1>4 DEF FetchedOK, TypeOK, PageOK, RowsOK
    <2>1. /\ page[m].rows[f].text \subseteq srv[f].text
          /\ page[m].rows[f].ts <= srv[f].ts
          /\ Clean(m, f) => loc[m][f].ts <= page[m].rows[f].ts
      BY DEF Quiet, FetchedOK
    <2>2. CASE f = e
      <3>1. InFlight(m, f)
        BY DEF InFlight
      <3>2. page[m].rows[f].ts <= Now
        <4>1. page[m].rows[f].ts \in Int
          BY DEF TypeOK, PageOK, RowsOK, Row
        <4>2. QED
          BY <1>2, <1>3, <2>1, <4>1 DEF Now
      <3>3. QED
        BY <1>1, <2>1, <2>2, <3>2
    <2>3. CASE f # e
      BY <1>1, <2>1, <2>3
    <2>4. QED
      BY <2>2, <2>3
  <1>11. HolesClose(m)'
    <2>1. hole'[m] \subseteq hole[m] \ {e}
      <3>1. \A f \in Entries :
              f \in hole'[m] <=> IF srv'[f] = srv[f] THEN f \in hole[m]
                                 ELSE /\ Behind(m, f, srv'[f].ts)
                                      /\ ~Holds(m, f, srv'[f].text)
        BY DEF EntryEdited, HoleAfter
      <3>2. srv'[e] # srv[e]
        BY <1>1, <1>2, <1>3 DEF Now
      <3>3. QED
        BY <1>1, <1>5, <3>1, <3>2 DEF TypeOK
    <2>2. QED
      BY <1>1, <2>1 DEF Quiet, HolesClose, TypeOK
  <1>12. ContextsCovered(m)'
    BY <1>1 DEF Quiet, ContextsCovered, PagedContext, Paging
  <1>13. TagsCovered(m)'
    <2> SUFFICES ASSUME NEW f \in Entries
                 PROVE  /\ srv'[f].text = {} => srvTags'[f] = {}
                        /\ Marked(m, srv[f].ts)' /\ Clean(m, f) => TagsHeld(m, f)'
                        /\ Scanned(m, At(f))' /\ ~InFlight(m, f) /\ Clean(m, f)
                             => TagsHeld(m, f)'
                        /\ Behind(m, f, srv[f].ts)' /\ InFlight(m, f)
                             => srvTags'[f] \subseteq page[m].tags[f]
      BY <1>4 DEF TagsCovered
    <2>1. CASE f = e
      BY <1>1, <1>6, <2>1
    <2>2. CASE f # e
      <3>1. /\ srv'[f] = srv[f] /\ srvTags'[f] = srvTags[f]
            /\ TagsHeld(m, f)' <=> TagsHeld(m, f)
            /\ At(f)' = At(f)
        BY <1>1, <2>2 DEF TagsHeld, At
      <3>2. QED
        BY <1>4, <3>1 DEF Quiet, TagsCovered, Behind
    <2>3. QED
      BY <2>1, <2>2
  <1>14. QED
    BY <1>7, <1>8, <1>9, <1>10, <1>11, <1>12, <1>13 DEF Quiet

LEMMA ContextEditQuiet ==
  ASSUME TypeOK, Dated, NEW m \in Machines, Quiet(m),
         NEW c \in Contexts, ContextEdited(c),
         UNCHANGED <<loc, locTags, locCtx, lastSync, stage, base, queue, reply,
                     conflicts, ctxConflicts, cursor, page>>
  PROVE  Quiet(m)'
  <1>1. /\ UNCHANGED <<srv, srvTags, hole>>
        /\ srvCtx'[c].ts = Now
        /\ \A d \in Contexts \ {c} : srvCtx'[d] = srvCtx[d]
    BY DEF ContextEdited
  <1>2. /\ Snapshot(m)' /\ Accounted(m)' /\ TimesOK(m)' /\ SentOK(m)'
        /\ FetchedOK(m)' /\ HolesClose(m)' /\ TagsCovered(m)'
    <2>1. Snapshot(m)' /\ Accounted(m)'
      BY DEF Quiet, Snapshot, Accounted, Sending, Submitted, Paging
    <2>2. TimesOK(m)' /\ FetchedOK(m)' /\ HolesClose(m)'
      BY <1>1 DEF Quiet, TimesOK, FetchedOK, HolesClose, Present, Clean
    <2>3. SentOK(m)'
      BY <1>1 DEF Quiet, SentOK, Sending, Marked, TagsHeld
    <2>4. TagsCovered(m)'
      BY <1>1 DEF Quiet, TagsCovered, Marked, Behind, Scanned, InFlight, At,
                  Clean, Present, TagsHeld, AtOrBefore
    <2>5. QED
      BY <2>1, <2>2, <2>3, <2>4
  <1>3. ContextsCovered(m)'
    <2>1. /\ clock \in Int /\ lastSync[m] \in Int /\ cursor[m].ts \in Int
          /\ page[m].now \in Int
      BY DEF TypeOK, Edits, PageOK, Position
    <2>2. /\ ~(Now <= lastSync[m]) /\ ~(Now <= cursor[m].ts)
          /\ ~(Now <= page[m].now)
      BY <2>1 DEF Dated, MachineDated, Now
    <2> SUFFICES ASSUME NEW d \in Contexts
                 PROVE  /\ srvCtx'[d].ts <= lastSync[m]
                             => srvCtx'[d].text \subseteq locCtx[m][d].text
                        /\ stage[m] = "pull" /\ srvCtx'[d].ts <= cursor[m].ts
                             => srvCtx'[d].text \subseteq locCtx[m][d].text
                        /\ Paging(m) /\ srvCtx'[d].ts <= page[m].now
                             => srvCtx'[d].text \subseteq PagedContext(m, d)
      BY DEF ContextsCovered, Paging, PagedContext
    <2>3. CASE d = c
      BY <1>1, <2>2, <2>3
    <2>4. CASE d # c
      BY <1>1, <2>4 DEF Quiet, ContextsCovered
    <2>5. QED
      BY <2>3, <2>4
  <1>4. QED
    BY <1>2, <1>3 DEF Quiet

LEMMA WebQuiet ==
  ASSUME OneQuietMachine, TypeOK, TypeOK', Dated, Others,
         NEW m \in Machines, Quiet(m)
  PROVE  Quiet(m)'
  <1>1. CASE \E e \in Entries : EntryEdited(e)
    BY <1>1, OthersStep, EntryEditQuiet
  <1>2. CASE \E c \in Contexts : ContextEdited(c)
    BY <1>2, OthersStep, ContextEditQuiet
  <1>3. QED
    BY <1>1, <1>2, OthersStep

-----------------------------------------------------------------------------
(* Edits on the machine: between two cycles, when nothing is in flight and  *)
(* no hole is open.                                                         *)

LEMMA IdleNow ==
  ASSUME TypeOK, NEW m \in Machines, Safe(m), Quiet(m), stage[m] = "idle"
  PROVE  /\ DOMAIN queue[m] = {} /\ hole[m] = {}
         /\ Sending(m) = {} /\ ~Paging(m)
  BY DEF Safe, Shape, Quiet, HolesClose, Sending, Paging, TypeOK

LEMMA CliDated ==
  ASSUME OneQuietMachine, TypeOK, TypeOK', Dated, NEW m \in Machines, Cli(m)
  PROVE  Dated'
  <1>1. UNCHANGED <<srv, base, cursor, page>> /\ clock' \in {clock, Now}
    BY DEF Cli, CliWrite, CliSetTags, CliEditContext, ResetSync, server, cycle,
           Tick, Now
  <1>2. clock \in Int /\ clock' \in Int /\ clock <= clock'
    BY <1>1 DEF TypeOK, Edits, Now
  <1>3. \A e \in Entries : Upto(clock, srv[e])'
    BY <1>1, ServerDated
  <1>4. ASSUME NEW n \in Machines PROVE MachineDated(n)'
    <2>1. n = m /\ MachineDated(m)
      BY DEF OneQuietMachine, Dated
    <2>2. lastSync'[m] <= lastSync[m] /\ lastSync[m] \in Int
          /\ lastSync'[m] \in Int
      BY DEF Cli, CliWrite, CliSetTags, CliEditContext, ResetSync, TypeOK
    <2>3. base[m] \in Int /\ cursor[m].ts \in Int /\ page[m].now \in Int
      BY DEF TypeOK, PageOK, Position
    <2>4. ASSUME NEW e \in Entries PROVE Upto(clock', loc'[m][e])
      <3>1. /\ loc[m][e].ts \in Int /\ loc[m][e].text \subseteq Int
            /\ Upto(clock, loc[m][e]) /\ Ahead[m] \in Int /\ Ahead[m] <= 0
        BY <2>1 DEF TypeOK, LocalRow, Edits, OneQuietMachine, MachineDated
      <3>2. Upto(clock', loc[m][e])
        BY <1>2, <3>1 DEF Upto
      <3>3. ASSUME NEW f \in Entries, NEW stamped \in BOOLEAN,
                   CliWrite(m, f, stamped)
            PROVE  Upto(clock', loc'[m][e])
        <4>1. clock' = Now
          BY <3>3 DEF CliWrite, Tick, Now
        <4>2. CASE e = f
          <5>1. loc'[m][e] = [text |-> loc[m][e].text \cup {Now},
                              ts |-> CliTime(m, e, stamped), dirty |-> TRUE]
            BY <3>3, <4>2 DEF CliWrite, TypeOK
          <5>2. CliTime(m, e, stamped) <= Now
            BY <1>2, <3>1 DEF CliTime, Upto, Now
          <5>3. QED
            BY <1>2, <3>2, <4>1, <5>1, <5>2 DEF Upto, Now
        <4>3. CASE e # f
          BY <3>2, <3>3, <4>3 DEF CliWrite, TypeOK
        <4>4. QED
          BY <4>2, <4>3
      <3>4. ASSUME NEW f \in Entries, NEW tags \in SUBSET Tags,
                   CliSetTags(m, f, tags)
            PROVE  Upto(clock', loc'[m][e])
        <4>1. loc'[m][e].text = loc[m][e].text /\ loc'[m][e].ts = loc[m][e].ts
          BY <3>4 DEF CliSetTags, TypeOK
        <4>2. QED
          BY <3>2, <4>1 DEF Upto
      <3>5. CASE UNCHANGED loc
        BY <3>2, <3>5
      <3>6. QED
        BY <3>3, <3>4, <3>5 DEF Cli, CliEditContext, ResetSync, local
    <2>5. QED
      BY <1>1, <1>2, <2>1, <2>2, <2>3, <2>4 DEF MachineDated, Upto
  <1>5. QED
    BY <1>3, <1>4 DEF Dated

LEMMA CliStep ==
  ASSUME OneQuietMachine, TypeOK, NEW m \in Machines, Cli(m)
  PROVE  /\ stage[m] = "idle"
         /\ UNCHANGED <<server, stage, base, queue, reply, cursor, page, hole>>
         /\ lastSync'[m] <= lastSync[m]
         /\ \A c \in Contexts : locCtx[m][c].text \subseteq locCtx'[m][c].text
         /\ \A e \in Entries :
              \/ loc'[m][e] = loc[m][e] /\ locTags'[m][e] = locTags[m][e]
              \/ /\ loc'[m][e].dirty /\ loc'[m][e].text # {}
                 /\ \/ Now \in loc'[m][e].text
                    \/ /\ loc'[m][e].text = loc[m][e].text
                       /\ loc'[m][e].ts = loc[m][e].ts
  <1>1. stage[m] = "idle"
    BY DEF OneQuietMachine, Cli, CliWrite, CliSetTags, CliEditContext, ResetSync,
           MayEdit
  <1>2. UNCHANGED <<server, stage, base, queue, reply, cursor, page, hole>>
    BY DEF Cli, CliWrite, CliSetTags, CliEditContext, ResetSync, cycle
  <1>3. lastSync'[m] <= lastSync[m]
    BY DEF Cli, CliWrite, CliSetTags, CliEditContext, ResetSync, TypeOK
  <1>4. \A c \in Contexts : locCtx[m][c].text \subseteq locCtx'[m][c].text
    <2>1. ASSUME NEW d \in Contexts, CliEditContext(m, d)
          PROVE  \A c \in Contexts : locCtx[m][c].text \subseteq locCtx'[m][c].text
      BY <2>1 DEF CliEditContext, TypeOK
    <2>2. CASE UNCHANGED locCtx
      BY <2>2
    <2>3. QED
      BY <2>1, <2>2 DEF Cli, CliWrite, CliSetTags, ResetSync, local
  <1>5. ASSUME NEW e \in Entries
        PROVE  \/ loc'[m][e] = loc[m][e] /\ locTags'[m][e] = locTags[m][e]
               \/ /\ loc'[m][e].dirty /\ loc'[m][e].text # {}
                  /\ \/ Now \in loc'[m][e].text
                     \/ /\ loc'[m][e].text = loc[m][e].text
                        /\ loc'[m][e].ts = loc[m][e].ts
    <2>1. ASSUME NEW f \in Entries, NEW stamped \in BOOLEAN,
                 CliWrite(m, f, stamped), e = f
          PROVE  /\ loc'[m][e].dirty /\ loc'[m][e].text # {}
                 /\ Now \in loc'[m][e].text
      <3>1. loc'[m][e] = [text |-> loc[m][e].text \cup {Now},
                          ts |-> CliTime(m, e, stamped), dirty |-> TRUE]
        BY <2>1 DEF CliWrite, TypeOK
      <3>2. QED
        BY <3>1
    <2>2. ASSUME NEW f \in Entries, NEW tags \in SUBSET Tags,
                 CliSetTags(m, f, tags), e = f
          PROVE  /\ loc'[m][e].dirty /\ loc'[m][e].text # {}
                 /\ loc'[m][e].text = loc[m][e].text
                 /\ loc'[m][e].ts = loc[m][e].ts
      <3>1. loc'[m][e] = [text |-> loc[m][e].text, ts |-> loc[m][e].ts,
                          dirty |-> TRUE]
        BY <2>2 DEF CliSetTags, TypeOK
      <3>2. loc[m][e].text # {}
        BY <2>2 DEF CliSetTags
      <3>3. QED
        BY <3>1, <3>2
    <2>3. ASSUME NEW f \in Entries, e # f,
                 \/ \E stamped \in BOOLEAN : CliWrite(m, f, stamped)
                 \/ \E tags \in SUBSET Tags : CliSetTags(m, f, tags)
          PROVE  loc'[m][e] = loc[m][e] /\ locTags'[m][e] = locTags[m][e]
      BY <2>3 DEF CliWrite, CliSetTags, TypeOK
    <2>4. CASE UNCHANGED <<loc, locTags>>
      BY <2>4
    <2>5. QED
      BY <2>1, <2>2, <2>3, <2>4 DEF Cli, CliEditContext, ResetSync, local
  <1>6. QED
    BY <1>1, <1>2, <1>3, <1>4, <1>5

LEMMA CliQuiet ==
  ASSUME OneQuietMachine, TypeOK, TypeOK', Dated, NEW m \in Machines, Safe(m),
         Quiet(m), Cli(m)
  PROVE  Quiet(m)'
  <1>1. /\ stage[m] = "idle" /\ stage'[m] = "idle"
        /\ UNCHANGED <<srv, srvTags, srvCtx, base, queue, hole>>
        /\ lastSync'[m] <= lastSync[m]
    BY CliStep DEF server
  <1>2. DOMAIN queue'[m] = {} /\ hole'[m] = {} /\ Sending(m)' = {} /\ ~Paging(m)'
    BY <1>1, IdleNow DEF Sending, Paging
  <1>3. \A e \in Entries : Marked(m, srv[e].ts)' => Marked(m, srv[e].ts)
    <2> TAKE e \in Entries
    <2>1. srv[e].ts \in Int /\ lastSync[m] \in Int /\ lastSync'[m] \in Int
      BY DEF TypeOK, Row
    <2>2. QED
      BY <1>1, <2>1 DEF Marked
  <1>4. /\ Snapshot(m)' /\ Accounted(m)' /\ SentOK(m)' /\ FetchedOK(m)'
        /\ HolesClose(m)'
    BY <1>1, <1>2 DEF Snapshot, Accounted, SentOK, FetchedOK, HolesClose
  <1>5. TimesOK(m)'
    <2> SUFFICES ASSUME NEW e \in Entries
                 PROVE  /\ loc'[m][e].dirty => loc'[m][e].text # {}
                        /\ loc'[m][e].text # {} /\ ~loc'[m][e].dirty
                             => loc'[m][e].ts <= srv[e].ts
                        /\ loc'[m][e].text # {} /\ srv[e].text = loc'[m][e].text
                             => loc'[m][e].ts <= srv[e].ts
      BY <1>1 DEF TimesOK, Clean, Present
    <2>1. Now \notin srv[e].text
      <3>1. clock \in Int /\ Upto(clock, srv[e])
        BY DEF TypeOK, Edits, Dated
      <3>2. QED
        BY <3>1 DEF Upto, Now
    <2>2. /\ loc[m][e].dirty => loc[m][e].text # {}
          /\ loc[m][e].text # {} /\ ~loc[m][e].dirty
               => loc[m][e].ts <= srv[e].ts
          /\ loc[m][e].text # {} /\ srv[e].text = loc[m][e].text
               => loc[m][e].ts <= srv[e].ts
      BY DEF Quiet, TimesOK, Clean, Present
    <2>3. CASE loc'[m][e] = loc[m][e]
      BY <2>2, <2>3
    <2>4. CASE loc'[m][e] # loc[m][e]
      BY <2>1, <2>2, <2>4, CliStep
    <2>5. QED
      BY <2>3, <2>4
  <1>6. ContextsCovered(m)'
    <2> SUFFICES ASSUME NEW c \in Contexts, srvCtx[c].ts <= lastSync'[m]
                 PROVE  srvCtx[c].text \subseteq locCtx'[m][c].text
      BY <1>1, <1>2 DEF ContextsCovered
    <2>1. /\ srvCtx[c].ts \in Int /\ lastSync[m] \in Int /\ lastSync'[m] \in Int
      BY DEF TypeOK, Row
    <2>2. srvCtx[c].ts <= lastSync[m]
      BY <1>1, <2>1
    <2>3. QED
      BY <2>2, CliStep DEF Quiet, ContextsCovered
  <1>7. TagsCovered(m)'
    <2> SUFFICES ASSUME NEW e \in Entries
                 PROVE  /\ srv[e].text = {} => srvTags[e] = {}
                        /\ Marked(m, srv[e].ts)' /\ Clean(m, e)' => TagsHeld(m, e)'
      BY <1>1 DEF TagsCovered, Scanned, InFlight
    <2>1. /\ srv[e].text = {} => srvTags[e] = {}
          /\ Marked(m, srv[e].ts) /\ Clean(m, e) => TagsHeld(m, e)
      BY DEF Quiet, TagsCovered
    <2>2. CASE loc'[m][e] = loc[m][e] /\ locTags'[m][e] = locTags[m][e]
      BY <1>1, <1>3, <2>1, <2>2 DEF Clean, Present, TagsHeld
    <2>3. CASE loc'[m][e].dirty
      BY <2>1, <2>3 DEF Clean
    <2>4. QED
      BY <2>2, <2>3, CliStep
  <1>8. QED
    BY <1>4, <1>5, <1>6, <1>7 DEF Quiet

-----------------------------------------------------------------------------
(* The daemon: the dirty rows are read, pushed and acknowledged.            *)

LEMMA SinceTime == \A t : Since(t).ts = t
  BY DEF Since

(* A pull starts where the mark is.                                         *)
LEMMA PullStarts ==
  ASSUME TypeOK, NEW m \in Machines, StartPull(m), UNCHANGED <<srv, lastSync>>,
         NEW e \in Entries, Scanned(m, At(e))'
  PROVE  Marked(m, srv[e].ts)
  <1>1. stage'[m] = "pull" /\ cursor'[m] = Since(lastSync[m])
    BY DEF StartPull, TypeOK
  <1>2. AtOrBefore(At(e), Since(lastSync[m]))
    BY <1>1 DEF Scanned, At, AtOrBefore
  <1>3. srv[e].ts \in Int /\ lastSync[m] \in Int
    BY DEF TypeOK, Row
  <1>4. QED
    BY <1>2, <1>3, SinceBounds DEF Marked, At

LEMMA CycleStartDated ==
  ASSUME OneQuietMachine, TypeOK, TypeOK', Dated, NEW m \in Machines, CycleStart(m)
  PROVE  Dated'
  <1>1. UNCHANGED <<clock, srv, loc, lastSync, page>>
    BY DEF CycleStart, server, local
  <1>2. \A e \in Entries : Upto(clock, srv[e])'
    BY <1>1, ServerDated
  <1>3. ASSUME NEW n \in Machines PROVE MachineDated(n)'
    <2>1. n = m /\ MachineDated(m)
      BY DEF OneQuietMachine, Dated
    <2>2. base'[m] = lastSync[m] /\ cursor'[m] \in {cursor[m], Since(lastSync[m])}
      BY DEF CycleStart, StartPull, TypeOK
    <2>3. QED
      BY <1>1, <2>1, <2>2, SinceTime DEF MachineDated, Upto
  <1>4. QED
    BY <1>2, <1>3 DEF Dated

LEMMA CycleStartQuiet ==
  ASSUME TypeOK, TypeOK', NEW m \in Machines, Safe(m), Quiet(m), CycleStart(m)
  PROVE  Quiet(m)'
  <1>1. /\ UNCHANGED <<srv, srvTags, srvCtx, loc, locTags, locCtx, lastSync, hole>>
        /\ stage[m] = "idle" /\ base'[m] = lastSync[m]
        /\ queue'[m] = [e \in Dirty(m) |-> Submitted(m, e)]
    BY DEF CycleStart, server, local, TypeOK
  <1>2. \/ stage'[m] = "push"
        \/ stage'[m] = "pull" /\ StartPull(m) /\ Dirty(m) = {}
    BY DEF CycleStart, StartPull, TypeOK
  <1>3. hole'[m] = {} /\ Sending(m)' = {} /\ ~Paging(m)'
    BY <1>1, <1>2, IdleNow DEF Sending, Paging
  <1>4. Snapshot(m)'
    BY <1>1, <1>2, <1>3 DEF Snapshot, Submitted, Dirty
  <1>5. Accounted(m)'
    BY <1>1 DEF Accounted, Dirty
  <1>6. TimesOK(m)'
    BY <1>1 DEF Quiet, TimesOK, Clean, Present
  <1>7. SentOK(m)' /\ FetchedOK(m)' /\ HolesClose(m)'
    BY <1>2, <1>3 DEF SentOK, FetchedOK, HolesClose
  <1>8. ContextsCovered(m)'
    <2>1. stage'[m] = "pull" => cursor'[m].ts = lastSync[m]
      BY <1>2, SinceTime DEF StartPull, TypeOK
    <2>2. QED
      BY <1>1, <1>3, <2>1 DEF Quiet, ContextsCovered
  <1>9. TagsCovered(m)'
    <2> SUFFICES ASSUME NEW e \in Entries
                 PROVE  /\ srv[e].text = {} => srvTags[e] = {}
                        /\ Marked(m, srv[e].ts)' /\ Clean(m, e) => TagsHeld(m, e)
                        /\ Scanned(m, At(e))' /\ Clean(m, e) => TagsHeld(m, e)
      BY <1>1, <1>2 DEF TagsCovered, InFlight, Clean, Present, TagsHeld
    <2>1. /\ srv[e].text = {} => srvTags[e] = {}
          /\ Marked(m, srv[e].ts) /\ Clean(m, e) => TagsHeld(m, e)
      BY DEF Quiet, TagsCovered
    <2>2. Marked(m, srv[e].ts)' => Marked(m, srv[e].ts)
      BY <1>1 DEF Marked
    <2>3. Scanned(m, At(e))' => Marked(m, srv[e].ts)
      <3>1. CASE stage'[m] = "push"
        BY <3>1 DEF Scanned
      <3>2. CASE StartPull(m)
        BY <1>1, <3>2, PullStarts
      <3>3. QED
        BY <1>2, <3>1, <3>2
    <2>4. QED
      BY <2>1, <2>2, <2>3
  <1>10. QED
    BY <1>4, <1>5, <1>6, <1>7, <1>8, <1>9 DEF Quiet

(* What sync_push does with a batch of such a machine.                      *)
BatchPushed(m, ids) ==
    /\ reply'[m].sent = ids /\ reply'[m].rejected \subseteq ids
    /\ queue'[m] = [e \in DOMAIN queue[m] \ ids |-> queue[m][e]]
    /\ \A e \in ids \ reply'[m].rejected :
         /\ srv'[e].text = loc[m][e].text
         /\ \/ srv'[e].ts = loc[m][e].ts
            \/ srv'[e].ts = srv[e].ts /\ loc[m][e].text = srv[e].text
         /\ srvTags'[e] = locTags[m][e]
    /\ \A e \in Entries \ (ids \ reply'[m].rejected) :
         srv'[e] = srv[e] /\ srvTags'[e] = srvTags[e]

LEMMA PushStep ==
  ASSUME TypeOK, NEW m \in Machines, Quiet(m), ServerPush(m)
  PROVE  \E ids \in SUBSET DOMAIN queue[m] : BatchPushed(m, ids)
  <1>1. PICK ids \in Batches(m) : ServerPush(m)!2!(ids)
    BY DEF ServerPush
  <1>2. ids \subseteq DOMAIN queue[m] /\ ids \subseteq Entries
    BY DEF Batches, TypeOK, RowsOK
  <1>3. /\ reply'[m].sent = ids /\ reply'[m].rejected = StaleEntries(m, ids)
        /\ queue'[m] = [e \in DOMAIN queue[m] \ ids |-> queue[m][e]]
        /\ StaleEntries(m, ids) \subseteq ids
    BY <1>1 DEF TypeOK, StaleEntries
  <1>4. ASSUME NEW e \in ids \ StaleEntries(m, ids)
        PROVE  /\ srv'[e].text = loc[m][e].text
               /\ \/ srv'[e].ts = loc[m][e].ts
                  \/ /\ srv'[e].ts = srv[e].ts /\ loc[m][e].text = srv[e].text
               /\ srvTags'[e] = locTags[m][e]
    <2>1. queue[m][e] = Submitted(m, e)
      BY <1>2 DEF Quiet, Snapshot
    <2>2. srv'[e] = Stored(m, srv[e], queue[m][e]) /\ srvTags'[e] = locTags[m][e]
      BY <1>1, <1>2
    <2>3. CASE srv[e].ts > base[m]
      <3>1. srv[e].text = queue[m][e].text
        BY <2>3 DEF StaleEntries
      <3>2. srv'[e] = [text |-> queue[m][e].text, ts |-> srv[e].ts]
        BY <2>2, <2>3 DEF Stored
      <3>3. QED
        BY <2>1, <2>2, <3>1, <3>2 DEF Submitted
    <2>4. CASE ~(srv[e].ts > base[m])
      BY <2>1, <2>2, <2>4 DEF Stored, Submitted
    <2>5. QED
      BY <2>3, <2>4
  <1>5. \A e \in Entries \ (ids \ StaleEntries(m, ids)) :
           srv'[e] = srv[e] /\ srvTags'[e] = srvTags[e]
    BY <1>1
  <1>6. QED
    BY <1>2, <1>3, <1>4, <1>5 DEF BatchPushed

LEMMA ServerPushDated ==
  ASSUME OneQuietMachine, TypeOK, TypeOK', Dated, NEW m \in Machines, Quiet(m),
         ServerPush(m)
  PROVE  Dated'
  <1>1. UNCHANGED <<clock, loc, lastSync, base, cursor, page>>
    BY DEF ServerPush, local
  <1>2. \A n \in Machines : MachineDated(n)'
    BY <1>1, SameDated DEF Dated
  <1>3. ASSUME NEW e \in Entries PROVE Upto(clock, srv[e])'
    <2>1. Upto(clock, srv[e]) /\ Upto(clock, loc[m][e])
      BY DEF Dated, MachineDated
    <2>2. \/ srv'[e] = srv[e]
          \/ /\ srv'[e].text = loc[m][e].text
             /\ srv'[e].ts = loc[m][e].ts \/ srv'[e].ts = srv[e].ts
      <3>1. PICK ids \in SUBSET DOMAIN queue[m] : BatchPushed(m, ids)
        BY PushStep
      <3>2. QED
        BY <3>1 DEF BatchPushed
    <2>3. QED
      BY <1>1, <2>1, <2>2 DEF Upto
  <1>4. QED
    BY <1>2, <1>3 DEF Dated

(* A machine that pushes has no hole, and its push makes none: what it      *)
(* commits is what it has.                                                  *)
LEMMA PushNoHole ==
  ASSUME TypeOK, NEW m \in Machines, Quiet(m), ServerPush(m)
  PROVE  hole'[m] = {}
  <1>1. PICK ids \in SUBSET DOMAIN queue[m] : BatchPushed(m, ids)
    BY PushStep
  <1>2. stage[m] = "push" /\ hole' = HoleAfter(srv') /\ hole[m] = {}
    BY DEF ServerPush, Quiet, HolesClose, TypeOK
  <1>3. ASSUME NEW e \in Entries, srv'[e] # srv[e]
        PROVE  Holds(m, e, srv'[e].text)
    <2>1. srv'[e].text = loc[m][e].text /\ e \in DOMAIN queue[m]
      BY <1>1, <1>3 DEF BatchPushed
    <2>2. queue[m][e].text = loc[m][e].text
      <3>1. queue[m][e] = Submitted(m, e)
        BY <2>1 DEF Quiet, Snapshot
      <3>2. QED
        BY <3>1 DEF Submitted
    <2>3. ~InFlight(m, e)
      BY <1>2 DEF InFlight
    <2>4. QED
      BY <2>1, <2>2, <2>3 DEF Holds
  <1>4. QED
    BY <1>2, <1>3 DEF HoleAfter

(* No context loses anything to a push either: the guard refuses the stale  *)
(* ones, and the machine has what the others had.                           *)
LEMMA ContextsKept ==
  ASSUME TypeOK, NEW m \in Machines, Quiet(m), ServerPush(m), NEW c \in Contexts
  PROVE  /\ srvCtx[c].text \subseteq srvCtx'[c].text
         /\ \/ srvCtx'[c] = srvCtx[c]
            \/ srvCtx'[c].text = locCtx[m][c].text
  <1>1. PICK ids \in Batches(m) : ServerPush(m)!2!(ids)
    BY DEF ServerPush
  <1>2. CASE c \in PushedContexts(m, ids) \ StaleContexts(m, ids)
    <2>1. srvCtx'[c] = Stored(m, srvCtx[c], locCtx[m][c])
      BY <1>1, <1>2
    <2>2. srvCtx'[c].text = locCtx[m][c].text
      BY <2>1 DEF Stored
    <2>3. srvCtx[c].ts > base[m] => srvCtx[c].text = locCtx[m][c].text
      BY <1>2 DEF StaleContexts
    <2>4. base[m] = lastSync[m]
      BY DEF ServerPush, Quiet, Snapshot
    <2>5. srvCtx[c].ts \in Int /\ base[m] \in Int
      BY DEF TypeOK, Row
    <2>6. ~(srvCtx[c].ts > base[m])
             => srvCtx[c].text \subseteq locCtx[m][c].text
      BY <2>4, <2>5 DEF Quiet, ContextsCovered
    <2>7. QED
      BY <2>2, <2>3, <2>6
  <1>3. CASE c \notin PushedContexts(m, ids) \ StaleContexts(m, ids)
    BY <1>1, <1>3
  <1>4. QED
    BY <1>2, <1>3

LEMMA ServerPushQuiet ==
  ASSUME TypeOK, TypeOK', NEW m \in Machines, Safe(m), Quiet(m), ServerPush(m)
  PROVE  Quiet(m)'
  <1>1. /\ UNCHANGED <<loc, locTags, locCtx, lastSync, base, conflicts,
                       ctxConflicts, cursor, page>>
        /\ stage[m] = "push" /\ stage'[m] = "ack"
    BY DEF ServerPush, local, TypeOK
  <1>2. PICK ids \in SUBSET DOMAIN queue[m] : BatchPushed(m, ids)
    BY PushStep
  <1>3. ids \subseteq Entries
    BY <1>2 DEF TypeOK, RowsOK, BatchPushed
  <1>4. Sending(m)' = ids /\ Sending(m) = {} /\ ~Paging(m)'
    BY <1>1, <1>2 DEF Sending, Paging, BatchPushed
  <1>5. ASSUME NEW e \in ids
        PROVE  loc[m][e].dirty /\ loc[m][e].text # {}
    BY <1>3, <1>5 DEF Quiet, Snapshot, TimesOK, Present
  <1>6. ASSUME NEW e \in ids \ reply'[m].rejected
        PROVE  loc[m][e].ts <= srv'[e].ts
    <2>1. loc[m][e].ts \in Int
      BY <1>3 DEF TypeOK, LocalRow
    <2>2. loc[m][e].text = srv[e].text => loc[m][e].ts <= srv[e].ts
      BY <1>3, <1>5 DEF Quiet, TimesOK, Present
    <2>3. QED
      BY <1>2, <2>1, <2>2 DEF BatchPushed
  <1>7. Snapshot(m)'
    <2>1. base'[m] = lastSync'[m]
      BY <1>1 DEF Quiet, Snapshot
    <2>2. /\ DOMAIN queue'[m] = DOMAIN queue[m] \ ids
          /\ \A e \in DOMAIN queue'[m] : queue'[m][e] = queue[m][e]
      BY <1>2 DEF BatchPushed
    <2>3. \A e \in DOMAIN queue[m] :
             queue[m][e] = Submitted(m, e)' /\ loc'[m][e].dirty
      BY <1>1 DEF Quiet, Snapshot, Submitted
    <2>4. QED
      BY <1>1, <1>4, <2>1, <2>2, <2>3 DEF Snapshot
  <1>8. Accounted(m)'
    BY <1>1, <1>2, <1>4 DEF Quiet, Accounted, BatchPushed
  <1>9. TimesOK(m)'
    <2> SUFFICES ASSUME NEW e \in Entries
                 PROVE  /\ loc[m][e].dirty => Present(m, e)
                        /\ Clean(m, e) => loc[m][e].ts <= srv'[e].ts
                        /\ Present(m, e) /\ srv'[e].text = loc[m][e].text
                             => loc[m][e].ts <= srv'[e].ts
      BY <1>1 DEF TimesOK, Clean, Present
    <2>1. /\ loc[m][e].dirty => Present(m, e)
          /\ Clean(m, e) => loc[m][e].ts <= srv[e].ts
          /\ Present(m, e) /\ srv[e].text = loc[m][e].text
               => loc[m][e].ts <= srv[e].ts
      BY DEF Quiet, TimesOK
    <2>2. CASE e \in ids \ reply'[m].rejected
      BY <1>5, <1>6, <2>1, <2>2 DEF Clean
    <2>3. CASE e \notin ids \ reply'[m].rejected
      BY <1>2, <2>1, <2>3 DEF BatchPushed
    <2>4. QED
      BY <2>2, <2>3
  <1>10. SentOK(m)'
    BY <1>1, <1>2, <1>4, <1>6 DEF SentOK, TagsHeld, BatchPushed
  <1>11. FetchedOK(m)' /\ HolesClose(m)'
    BY <1>1, PushNoHole DEF FetchedOK, HolesClose
  <1>12. ContextsCovered(m)'
    <2> SUFFICES ASSUME NEW c \in Contexts, srvCtx'[c].ts <= lastSync[m]
                 PROVE  srvCtx'[c].text \subseteq locCtx[m][c].text
      BY <1>1, <1>4 DEF ContextsCovered
    <2>1. QED
      BY ContextsKept DEF Quiet, ContextsCovered
  <1>13. TagsCovered(m)'
    <2> SUFFICES ASSUME NEW e \in Entries
                 PROVE  /\ srv'[e].text = {} => srvTags'[e] = {}
                        /\ Marked(m, srv'[e].ts) /\ Clean(m, e)
                             => srvTags'[e] \subseteq locTags[m][e]
      BY <1>1 DEF TagsCovered, Scanned, InFlight, Clean, Present, TagsHeld, Marked
    <2>1. CASE e \in ids \ reply'[m].rejected
      BY <1>2, <1>5, <2>1 DEF Clean, BatchPushed
    <2>2. CASE e \notin ids \ reply'[m].rejected
      BY <1>2, <2>2 DEF Quiet, TagsCovered, TagsHeld, BatchPushed
    <2>3. QED
      BY <2>1, <2>2
  <1>14. QED
    BY <1>7, <1>8, <1>9, <1>10, <1>11, <1>12, <1>13 DEF Quiet

LEMMA PushAckDated ==
  ASSUME OneQuietMachine, TypeOK, TypeOK', Dated, NEW m \in Machines, PushAck(m)
  PROVE  Dated'
  <1>1. UNCHANGED <<clock, srv, lastSync, base, page>>
    BY DEF PushAck, server
  <1>2. \A e \in Entries : Upto(clock, srv[e])'
    BY <1>1, ServerDated
  <1>3. ASSUME NEW n \in Machines PROVE MachineDated(n)'
    <2>1. n = m /\ MachineDated(m)
      BY DEF OneQuietMachine, Dated
    <2>2. cursor'[m] \in {cursor[m], Since(lastSync[m])}
      BY DEF PushAck, StartPull, TypeOK
    <2>3. \A e \in Entries : /\ loc'[m][e].text = loc[m][e].text
                             /\ loc'[m][e].ts = loc[m][e].ts
      BY DEF PushAck, TypeOK
    <2>4. QED
      BY <1>1, <2>1, <2>2, <2>3, SinceTime DEF MachineDated, Upto
  <1>4. QED
    BY <1>2, <1>3 DEF Dated

LEMMA PushAckQuiet ==
  ASSUME TypeOK, TypeOK', NEW m \in Machines, Safe(m), Quiet(m), PushAck(m)
  PROVE  Quiet(m)'
  <1>1. /\ UNCHANGED <<srv, srvTags, srvCtx, locTags, locCtx, lastSync, base,
                       queue, page, hole>>
        /\ stage[m] = "ack" /\ Sending(m) = reply[m].sent
        /\ conflicts'[m] = conflicts[m] \cup reply[m].rejected
        /\ ctxConflicts'[m] = ctxConflicts[m] \cup reply[m].ctxs
        /\ hole[m] = {} /\ base[m] = lastSync[m]
    BY DEF PushAck, server, TypeOK, Sending, Quiet, HolesClose, Snapshot
  <1>2. \/ stage'[m] = "push"
        \/ stage'[m] = "pull" /\ StartPull(m)
    BY DEF PushAck, StartPull, TypeOK
  <1>3. Sending(m)' = {} /\ ~Paging(m)'
    BY <1>2 DEF Sending, Paging
  <1>4. ASSUME NEW e \in Entries
        PROVE  /\ loc'[m][e].text = loc[m][e].text /\ loc'[m][e].ts = loc[m][e].ts
               /\ loc'[m][e].dirty <=> loc[m][e].dirty /\ e \notin Accepted(m)
    BY DEF PushAck, TypeOK, LocalRow
  <1>5. ASSUME NEW e \in Accepted(m)
        PROVE  /\ loc[m][e].ts <= srv[e].ts
               /\ Marked(m, srv[e].ts) => TagsHeld(m, e)
    BY <1>1 DEF Quiet, SentOK, Accepted
  <1>6. Snapshot(m)'
    <2>1. ASSUME NEW e \in DOMAIN queue[m]
          PROVE  queue[m][e] = Submitted(m, e)' /\ loc'[m][e].dirty
      <3>1. e \in Entries /\ e \notin reply[m].sent
        BY <1>1 DEF Quiet, Snapshot, TypeOK, RowsOK
      <3>2. queue[m][e] = Submitted(m, e) /\ loc[m][e].dirty
        BY DEF Quiet, Snapshot
      <3>3. QED
        BY <1>4, <3>1, <3>2 DEF Submitted, Accepted
    <2>2. QED
      BY <1>1, <1>3, <2>1 DEF Snapshot
  <1>7. Accounted(m)'
    BY <1>1, <1>4 DEF Quiet, Accounted, Accepted
  <1>8. TimesOK(m)'
    <2> SUFFICES ASSUME NEW e \in Entries
                 PROVE  /\ loc'[m][e].dirty => loc[m][e].text # {}
                        /\ loc[m][e].text # {} /\ ~loc'[m][e].dirty
                             => loc[m][e].ts <= srv[e].ts
                        /\ loc[m][e].text # {} /\ srv[e].text = loc[m][e].text
                             => loc[m][e].ts <= srv[e].ts
      BY <1>1, <1>4 DEF TimesOK, Clean, Present
    <2>1. QED
      BY <1>4, <1>5 DEF Quiet, TimesOK, Clean, Present
  <1>9. SentOK(m)' /\ FetchedOK(m)' /\ HolesClose(m)'
    BY <1>1, <1>2, <1>3 DEF SentOK, FetchedOK, HolesClose
  <1>10. ContextsCovered(m)'
    <2>1. stage'[m] = "pull" => cursor'[m].ts = lastSync[m]
      BY <1>2, SinceTime DEF StartPull, TypeOK
    <2>2. QED
      BY <1>1, <1>3, <2>1 DEF Quiet, ContextsCovered
  <1>11. TagsCovered(m)'
    <2> SUFFICES ASSUME NEW e \in Entries
                 PROVE  /\ srv[e].text = {} => srvTags[e] = {}
                        /\ Marked(m, srv[e].ts) /\ Clean(m, e)' => TagsHeld(m, e)
                        /\ Scanned(m, At(e))' /\ Clean(m, e)' => TagsHeld(m, e)
      BY <1>1, <1>2 DEF TagsCovered, InFlight, TagsHeld, Marked
    <2>1. srv[e].text = {} => srvTags[e] = {}
      BY DEF Quiet, TagsCovered
    <2>2. Marked(m, srv[e].ts) /\ Clean(m, e)' => TagsHeld(m, e)
      BY <1>4, <1>5 DEF Quiet, TagsCovered, Clean, Present
    <2>3. Scanned(m, At(e))' => Marked(m, srv[e].ts)
      <3>1. CASE stage'[m] = "push"
        BY <3>1 DEF Scanned
      <3>2. CASE StartPull(m)
        BY <1>1, <3>2, PullStarts
      <3>3. QED
        BY <1>2, <3>1, <3>2
    <2>4. QED
      BY <2>1, <2>2, <2>3
  <1>12. QED
    BY <1>6, <1>7, <1>8, <1>9, <1>10, <1>11 DEF Quiet

-----------------------------------------------------------------------------
(* The daemon: a page is fetched and merged.                                *)


LEMMA ServerPullDated ==
  ASSUME OneQuietMachine, TypeOK, TypeOK', Dated, NEW m \in Machines, ServerPull(m)
  PROVE  Dated'
  <1>1. UNCHANGED <<clock, srv, loc, lastSync, base, cursor>>
    BY DEF ServerPull, server, local
  <1>2. \A e \in Entries : Upto(clock, srv[e])'
    BY <1>1, ServerDated
  <1>3. ASSUME NEW n \in Machines PROVE MachineDated(n)'
    <2>1. n = m /\ MachineDated(m)
      BY DEF OneQuietMachine, Dated
    <2>2. PICK rows \in SUBSET Entries : PagePulled(m, rows)
      BY PullStep
    <2>3. page'[m].now = clock /\ clock \in Int
      BY <2>2 DEF PagePulled, TypeOK, Edits
    <2>4. page'[m].end.ts <= clock
      <3>1. \A e \in rows : At(e).ts <= clock
        BY DEF At, Dated, Upto
      <3>2. QED
        BY <2>2, <2>3, <3>1, SinceTime DEF PagePulled
    <2>5. QED
      BY <1>1, <2>1, <2>3, <2>4 DEF MachineDated, Upto
  <1>4. QED
    BY <1>2, <1>3 DEF Dated

LEMMA ServerPullQuiet ==
  ASSUME TypeOK, TypeOK', Dated, NEW m \in Machines, Safe(m), Quiet(m),
         ServerPull(m)
  PROVE  Quiet(m)'
  <1>1. /\ UNCHANGED <<srv, srvTags, srvCtx, loc, locTags, locCtx, lastSync, base,
                       queue, conflicts, ctxConflicts, cursor, hole>>
        /\ stage[m] = "pull" /\ stage'[m] = "merge"
    BY DEF ServerPull, server, local, TypeOK
  <1>2. PICK rows \in SUBSET Entries : PagePulled(m, rows)
    BY PullStep
  <1>3. /\ page'[m].rows = [e \in rows |-> srv[e]]
        /\ page'[m].tags = [e \in rows |-> srvTags[e]]
        /\ page'[m].ctxs = [c \in {d \in Contexts : srvCtx[d].ts > cursor[m].ts}
                              |-> srvCtx[c]]
        /\ page'[m].now = clock
    BY <1>2 DEF PagePulled
  <1>4. Sending(m)' = {} /\ Sending(m) = {} /\ DOMAIN queue[m] = {}
    BY <1>1 DEF Sending, Safe, Shape
  <1>5. Snapshot(m)'
    BY <1>1, <1>3, <1>4 DEF Quiet, Snapshot, Dated, MachineDated
  <1>6. Accounted(m)'
    BY <1>1, <1>4 DEF Quiet, Accounted
  <1>7. TimesOK(m)'
    BY <1>1 DEF Quiet, TimesOK, Clean, Present
  <1>8. SentOK(m)'
    BY <1>4 DEF SentOK
  <1>9. FetchedOK(m)'
    <2> SUFFICES ASSUME NEW e \in rows
                 PROVE  /\ srv[e].text \subseteq srv[e].text
                        /\ srv[e].ts <= srv[e].ts
                        /\ Clean(m, e) => loc[m][e].ts <= srv[e].ts
      BY <1>1, <1>3 DEF FetchedOK, Clean, Present
    <2>1. srv[e].ts \in Int
      BY DEF TypeOK, Row
    <2>2. QED
      BY <2>1 DEF Quiet, TimesOK
  <1>10. HolesClose(m)'
    BY <1>1 DEF Quiet, HolesClose
  <1>11. ContextsCovered(m)'
    <2> SUFFICES ASSUME NEW c \in Contexts
                 PROVE  /\ srvCtx[c].ts <= lastSync[m]
                             => srvCtx[c].text \subseteq locCtx[m][c].text
                        /\ srvCtx[c].text \subseteq PagedContext(m, c)'
      BY <1>1 DEF ContextsCovered
    <2>1. CASE srvCtx[c].ts > cursor[m].ts
      <3>1. PagedContext(m, c)' = srvCtx[c].text
        BY <1>1, <1>3, <2>1 DEF PagedContext
      <3>2. QED
        BY <3>1 DEF Quiet, ContextsCovered
    <2>2. CASE ~(srvCtx[c].ts > cursor[m].ts)
      <3>1. PagedContext(m, c)' = locCtx[m][c].text
        BY <1>1, <1>3, <2>2 DEF PagedContext
      <3>2. srvCtx[c].ts <= cursor[m].ts
        BY <2>2 DEF TypeOK, Row, Position
      <3>3. QED
        BY <1>1, <3>1, <3>2 DEF Quiet, ContextsCovered
    <2>3. QED
      BY <2>1, <2>2
  <1>12. TagsCovered(m)'
    <2> SUFFICES ASSUME NEW e \in Entries
                 PROVE  /\ srv[e].text = {} => srvTags[e] = {}
                        /\ Marked(m, srv[e].ts) /\ Clean(m, e) => TagsHeld(m, e)
                        /\ Scanned(m, At(e))' /\ e \notin rows /\ Clean(m, e)
                             => TagsHeld(m, e)
                        /\ e \in rows => srvTags[e] \subseteq page'[m].tags[e]
      BY <1>1, <1>3 DEF TagsCovered, InFlight, Clean, Present, TagsHeld, Marked
    <2>1. /\ srv[e].text = {} => srvTags[e] = {}
          /\ Marked(m, srv[e].ts) /\ Clean(m, e) => TagsHeld(m, e)
      BY DEF Quiet, TagsCovered
    <2>2. ASSUME Scanned(m, At(e))', e \notin rows, Clean(m, e)
          PROVE  TagsHeld(m, e)
      <3>1. AtOrBefore(At(e), page'[m].end)
        BY <1>1, <2>2 DEF Scanned, At, AtOrBefore
      <3>2. CASE srv[e].text = {}
        BY <2>1, <3>2 DEF TagsHeld
      <3>3. CASE AtOrBefore(At(e), cursor[m])
        <4>1. Scanned(m, At(e)) /\ ~InFlight(m, e)
          BY <1>1, <3>3 DEF Scanned, InFlight
        <4>2. QED
          BY <2>2, <4>1 DEF Quiet, TagsCovered
      <3>4. QED
        BY <1>2, <2>2, <3>1, <3>2, <3>3 DEF PagePulled
    <2>3. e \in rows => page'[m].tags[e] = srvTags[e]
      BY <1>3
    <2>4. QED
      BY <2>1, <2>2, <2>3
  <1>13. QED
    BY <1>5, <1>6, <1>7, <1>8, <1>9, <1>10, <1>11, <1>12 DEF Quiet

LEMMA MergeDated ==
  ASSUME OneQuietMachine, TypeOK, TypeOK', Dated, NEW m \in Machines, Quiet(m),
         Merge(m)
  PROVE  Dated'
  <1>1. UNCHANGED <<clock, srv, lastSync, base, page>> /\ stage[m] = "merge"
    BY DEF Merge, server
  <1>2. \A e \in Entries : Upto(clock, srv[e])'
    BY <1>1, ServerDated
  <1>3. ASSUME NEW n \in Machines PROVE MachineDated(n)'
    <2>1. n = m /\ MachineDated(m)
      BY DEF OneQuietMachine, Dated
    <2>2. cursor'[m].ts <= clock
      <3>1. cursor'[m] \in {cursor[m], page[m].end}
        BY DEF Merge, TypeOK
      <3>2. /\ page[m].end.ts \in Int /\ page[m].now \in Int /\ clock \in Int
        BY DEF TypeOK, PageOK, Position, Edits
      <3>3. QED
        BY <2>1, <3>1, <3>2 DEF MachineDated
    <2>3. ASSUME NEW e \in Entries PROVE Upto(clock, loc'[m][e])
      <3>1. loc'[m][e] = MergeRow(m, e)
        BY DEF Merge, TypeOK
      <3>2. Upto(clock, loc[m][e]) /\ Upto(clock, srv[e])
        BY <2>1 DEF MachineDated, Dated
      <3>3. CASE e \in DOMAIN page[m].rows /\ Takes(m, e)
        <4>1. /\ loc'[m][e].text = page[m].rows[e].text
              /\ loc'[m][e].ts = page[m].rows[e].ts
          BY <3>1, <3>3 DEF MergeRow
        <4>2. /\ page[m].rows[e].text \subseteq srv[e].text
              /\ page[m].rows[e].ts <= srv[e].ts
          BY <1>1, <3>3 DEF Quiet, FetchedOK
        <4>3. /\ page[m].rows[e].ts \in Int /\ srv[e].ts \in Int
              /\ clock \in Int
          BY <3>3 DEF TypeOK, PageOK, RowsOK, Row, Edits
        <4>4. QED
          BY <3>2, <4>1, <4>2, <4>3 DEF Upto
      <3>4. CASE ~(e \in DOMAIN page[m].rows /\ Takes(m, e))
        BY <3>1, <3>2, <3>4 DEF MergeRow
      <3>5. QED
        BY <3>3, <3>4
    <2>4. QED
      BY <1>1, <2>1, <2>2, <2>3 DEF MachineDated, Upto
  <1>4. QED
    BY <1>2, <1>3 DEF Dated

(* A row skipped while it was the machine's own is one whose context the    *)
(* server refused.                                                          *)
LEMMA SkippedWithContext ==
  ASSUME TypeOK, NEW m \in Machines, Safe(m), Quiet(m), stage[m] = "merge",
         NEW e \in DOMAIN page[m].rows, e \in Entries, ~Takes(m, e)
  PROVE  loc[m][e].dirty /\ CtxOf[e] \in ctxConflicts[m]
  <1>1. /\ loc[m][e].text # {} /\ e \notin conflicts[m]
        /\ loc[m][e].dirty \/ ~(loc[m][e].ts <= page[m].rows[e].ts)
    BY DEF Takes, Forced
  <1>2. Clean(m, e) => loc[m][e].ts <= page[m].rows[e].ts
    BY DEF Quiet, FetchedOK
  <1>3. loc[m][e].dirty
    BY <1>1, <1>2 DEF Clean, Present
  <1>4. e \notin DOMAIN queue[m] /\ e \notin Sending(m)
    BY DEF Safe, Shape, Sending
  <1>5. CtxOf[e] \in ctxConflicts[m]
    BY <1>1, <1>3, <1>4 DEF Quiet, Accounted
  <1>6. QED
    BY <1>3, <1>5

LEMMA MergeQuiet ==
  ASSUME TypeOK, TypeOK', Dated, NEW m \in Machines, Safe(m), Quiet(m), Merge(m)
  PROVE  Quiet(m)'
  <1>1. /\ UNCHANGED <<srv, srvTags, srvCtx, lastSync, base, queue, conflicts,
                       ctxConflicts, page>>
        /\ stage[m] = "merge"
        /\ \A e \in Entries : /\ loc'[m][e] = MergeRow(m, e)
                              /\ locTags'[m][e] = MergeTags(m, e)
        /\ \A c \in Contexts : locCtx'[m][c] = IF c \in DOMAIN page[m].ctxs
                                               THEN page[m].ctxs[c]
                                               ELSE locCtx[m][c]
    BY DEF Merge, server, TypeOK
  <1>2. \/ stage'[m] = "pull" /\ cursor'[m] = page[m].end
        \/ stage'[m] = "advance"
    BY DEF Merge, TypeOK
  <1>3. /\ Sending(m) = {} /\ Sending(m)' = {} /\ DOMAIN queue[m] = {}
        /\ base[m] = lastSync[m] /\ lastSync[m] <= page[m].now
    BY <1>1, <1>2 DEF Sending, Safe, Shape, Quiet, Snapshot, Paging
  <1> DEFINE taken == {e \in DOMAIN page[m].rows : Takes(m, e)}
  <1>4. ASSUME NEW e \in Entries, e \in taken
        PROVE  /\ loc'[m][e].text = page[m].rows[e].text
               /\ loc'[m][e].ts = page[m].rows[e].ts /\ ~loc'[m][e].dirty
    <2>1. MergeRow(m, e) = [text |-> page[m].rows[e].text,
                            ts |-> page[m].rows[e].ts, dirty |-> FALSE]
      BY <1>4 DEF MergeRow
    <2>2. loc'[m][e] = MergeRow(m, e)
      BY <1>1
    <2>3. QED
      BY <2>1, <2>2
  <1>5. ASSUME NEW e \in Entries, e \notin taken PROVE loc'[m][e] = loc[m][e]
    BY <1>1, <1>5 DEF MergeRow
  <1>6. Snapshot(m)'
    BY <1>1, <1>3 DEF Snapshot
  <1>7. Accounted(m)'
    <2> SUFFICES ASSUME NEW e \in Entries, loc'[m][e].dirty
                 PROVE  \/ e \in DOMAIN queue[m] \cup Sending(m) \cup conflicts[m]
                        \/ CtxOf[e] \in ctxConflicts[m]
      BY <1>1, <1>3 DEF Accounted
    <2>1. loc'[m][e] = loc[m][e]
      BY <1>4, <1>5
    <2>2. QED
      BY <1>1, <2>1 DEF Quiet, Accounted
  <1>8. TimesOK(m)'
    <2> SUFFICES ASSUME NEW e \in Entries
                 PROVE  /\ loc'[m][e].dirty => loc'[m][e].text # {}
                        /\ loc'[m][e].text # {} /\ ~loc'[m][e].dirty
                             => loc'[m][e].ts <= srv[e].ts
                        /\ loc'[m][e].text # {} /\ srv[e].text = loc'[m][e].text
                             => loc'[m][e].ts <= srv[e].ts
      BY <1>1 DEF TimesOK, Clean, Present
    <2>1. CASE e \in taken
      BY <1>1, <1>4, <2>1 DEF Quiet, FetchedOK
    <2>2. CASE e \notin taken
      BY <1>5, <2>2 DEF Quiet, TimesOK, Clean, Present
    <2>3. QED
      BY <2>1, <2>2
  <1>9. SentOK(m)' /\ FetchedOK(m)'
    BY <1>2, <1>3 DEF SentOK, FetchedOK
  <1>10. HolesClose(m)'
    <2> SUFFICES ASSUME NEW e \in hole'[m], e \in Entries
                 PROVE  CtxOf[e] \in ctxConflicts[m] /\ ~(srv[e].ts <= base[m])
      BY <1>1, <1>2 DEF HolesClose, TypeOK
    <2>1. CASE e \in hole[m]
      BY <2>1 DEF Quiet, HolesClose
    <2>2. CASE e \notin hole[m]
      <3>1. /\ e \in DOMAIN page[m].rows /\ ~Takes(m, e)
            /\ ~(srv[e].text \subseteq loc'[m][e].text)
        BY <2>2 DEF Merge, TypeOK
      <3>2. CtxOf[e] \in ctxConflicts[m]
        BY <1>1, <3>1, SkippedWithContext
      <3>3. ~(srv[e].text \subseteq loc[m][e].text)
        BY <1>5, <3>1
      <3>4. ~Marked(m, srv[e].ts)
        BY <2>2, <3>3 DEF Safe, Covered
      <3>5. QED
        BY <3>2, <3>4 DEF Marked
    <2>3. QED
      BY <2>1, <2>2
  <1>11. ContextsCovered(m)'
    <2> SUFFICES ASSUME NEW c \in Contexts
                 PROVE  /\ srvCtx[c].ts <= lastSync[m]
                             => srvCtx[c].text \subseteq locCtx'[m][c].text
                        /\ stage'[m] = "pull" /\ srvCtx[c].ts <= cursor'[m].ts
                             => srvCtx[c].text \subseteq locCtx'[m][c].text
                        /\ srvCtx[c].ts <= page[m].now
                             => srvCtx[c].text \subseteq locCtx'[m][c].text
      BY <1>1, <1>2 DEF ContextsCovered, PagedContext
    <2>1. locCtx'[m][c].text = PagedContext(m, c)
      BY <1>1 DEF PagedContext
    <2>2. srvCtx[c].ts <= page[m].now => srvCtx[c].text \subseteq locCtx'[m][c].text
      BY <1>1, <2>1 DEF Quiet, ContextsCovered, Paging
    <2>3. /\ srvCtx[c].ts \in Int /\ lastSync[m] \in Int /\ page[m].now \in Int
          /\ page[m].end.ts \in Int
      BY DEF TypeOK, Row, PageOK, Position
    <2>4. stage'[m] = "pull" => cursor'[m].ts <= page[m].now
      BY <1>2 DEF Dated, MachineDated
    <2>5. QED
      BY <1>2, <1>3, <2>2, <2>3, <2>4 DEF Dated, MachineDated
  <1>12. TagsCovered(m)'
    <2> SUFFICES ASSUME NEW e \in Entries
                 PROVE  /\ srv[e].text = {} => srvTags[e] = {}
                        /\ Marked(m, srv[e].ts) /\ Clean(m, e)' => TagsHeld(m, e)'
                        /\ Scanned(m, At(e))' /\ Clean(m, e)' => TagsHeld(m, e)'
      BY <1>1, <1>2 DEF TagsCovered, InFlight, Marked
    <2>1. Scanned(m, At(e))' => Scanned(m, At(e))
      BY <1>1, <1>2 DEF Scanned, At, AtOrBefore
    <2>2. srv[e].text = {} => srvTags[e] = {}
      BY DEF Quiet, TagsCovered
    <2>3. CASE e \in DOMAIN page[m].rows
      <3>1. InFlight(m, e)
        BY <1>1, <2>3 DEF InFlight
      <3>2. Behind(m, e, srv[e].ts) => srvTags[e] \subseteq page[m].tags[e]
        BY <3>1 DEF Quiet, TagsCovered
      <3>3. page[m].tags[e] \subseteq locTags'[m][e]
        BY <1>1, <2>3 DEF MergeTags
      <3>4. Behind(m, e, srv[e].ts) => TagsHeld(m, e)'
        BY <1>1, <3>2, <3>3 DEF TagsHeld
      <3>5. QED
        BY <2>1, <2>2, <3>4 DEF Behind, At
    <2>4. CASE e \notin DOMAIN page[m].rows
      <3>1. /\ loc'[m][e] = loc[m][e] /\ locTags'[m][e] = locTags[m][e]
            /\ ~InFlight(m, e)
        BY <1>1, <1>5, <2>4 DEF MergeTags, InFlight
      <3>2. (Clean(m, e)' <=> Clean(m, e)) /\ (TagsHeld(m, e)' <=> TagsHeld(m, e))
        BY <1>1, <3>1 DEF Clean, Present, TagsHeld
      <3>3. QED
        BY <2>1, <2>2, <3>1, <3>2 DEF Quiet, TagsCovered
    <2>5. QED
      BY <2>3, <2>4
  <1>13. QED
    BY <1>6, <1>7, <1>8, <1>9, <1>10, <1>11, <1>12 DEF Quiet

-----------------------------------------------------------------------------
(* The daemon: the cycle ends.                                              *)

(* A cycle may end with any mark that covers contexts and tags, when its    *)
(* holes are above it.                                                      *)
LEMMA EndCycleQuiet ==
  ASSUME TypeOK, TypeOK', NEW m \in Machines, Quiet(m), EndCycle(m),
         NEW baseline \in Nat, KeepHoles(m, baseline), lastSync'[m] = baseline,
         UNCHANGED <<server, local>>,
         \A e \in hole[m] : ~(srv[e].ts <= baseline),
         \A c \in Contexts : srvCtx[c].ts <= baseline
                               => srvCtx[c].text \subseteq locCtx[m][c].text,
         \A e \in Entries : srv[e].ts <= baseline /\ Clean(m, e) => TagsHeld(m, e)
  PROVE  Quiet(m)'
  <1>1. /\ UNCHANGED <<srv, srvTags, srvCtx, loc, locTags, locCtx>>
        /\ stage'[m] = "idle" /\ base'[m] = 0 /\ queue'[m] = NoRows
        /\ hole'[m] = {e \in hole[m] : srv[e].ts <= baseline}
    BY DEF EndCycle, KeepHoles, TypeOK, server, local
  <1>2. /\ DOMAIN queue'[m] = {} /\ hole'[m] = {} /\ Sending(m)' = {}
        /\ ~Paging(m)'
    BY <1>1 DEF NoRows, Sending, Paging
  <1>3. /\ Snapshot(m)' /\ Accounted(m)' /\ SentOK(m)' /\ FetchedOK(m)'
        /\ HolesClose(m)'
    BY <1>1, <1>2 DEF Snapshot, Accounted, SentOK, FetchedOK, HolesClose
  <1>4. TimesOK(m)'
    BY <1>1 DEF Quiet, TimesOK, Clean, Present
  <1>5. ContextsCovered(m)'
    BY <1>1, <1>2 DEF ContextsCovered
  <1>6. TagsCovered(m)'
    <2> SUFFICES ASSUME NEW e \in Entries
                 PROVE  /\ srv[e].text = {} => srvTags[e] = {}
                        /\ Marked(m, srv[e].ts)' /\ Clean(m, e) => TagsHeld(m, e)
      BY <1>1 DEF TagsCovered, InFlight, Scanned, Clean, Present, TagsHeld
    <2>1. srv[e].ts \in Int
      BY DEF TypeOK, Row
    <2>2. Marked(m, srv[e].ts)' => srv[e].ts <= baseline
      BY <1>1, <2>1 DEF Marked
    <2>3. QED
      BY <2>2 DEF Quiet, TagsCovered
  <1>7. QED
    BY <1>3, <1>4, <1>5, <1>6 DEF Quiet

(* At the end of a pull everything up to its server time is covered.        *)
LEMMA PulledCovers ==
  ASSUME TypeOK, NEW m \in Machines, Safe(m), Quiet(m), stage[m] = "advance"
  PROVE  /\ \A c \in Contexts : srvCtx[c].ts <= page[m].now
                                  => srvCtx[c].text \subseteq locCtx[m][c].text
         /\ \A e \in Entries : srv[e].ts <= page[m].now /\ Clean(m, e)
                                 => TagsHeld(m, e)
  <1>1. \A c \in Contexts : srvCtx[c].ts <= page[m].now
                              => srvCtx[c].text \subseteq locCtx[m][c].text
    BY DEF Quiet, ContextsCovered, PagedContext, Paging
  <1>2. ASSUME NEW e \in Entries, srv[e].ts <= page[m].now, Clean(m, e)
        PROVE  TagsHeld(m, e)
    <2>1. page[m].end = Since(page[m].now)
      BY DEF Safe, Shape
    <2>2. page[m].now \in Nat /\ srv[e].ts \in Int
      BY DEF TypeOK, PageOK, Row
    <2>3. Scanned(m, At(e))
      BY <1>2, <2>1, <2>2, SinceBounds DEF Scanned, At
    <2>4. ~InFlight(m, e)
      BY DEF InFlight
    <2>5. QED
      BY <1>2, <2>3, <2>4 DEF Quiet, TagsCovered
  <1>3. QED
    BY <1>1, <1>2

LEMMA AdvanceDated ==
  ASSUME OneQuietMachine, TypeOK, TypeOK', Dated, NEW m \in Machines, Advance(m)
  PROVE  Dated'
  <1>1. /\ UNCHANGED <<clock, srv, loc>> /\ lastSync'[m] = page[m].now
    BY DEF Advance, PulledUpTo, server, local, TypeOK
  <1>2. \A e \in Entries : Upto(clock, srv[e])'
    BY <1>1, ServerDated
  <1>3. ASSUME NEW n \in Machines PROVE MachineDated(n)'
    <2>1. n = m /\ MachineDated(m)
      BY DEF OneQuietMachine, Dated
    <2>2. lastSync'[m] <= clock
      BY <1>1, <2>1 DEF MachineDated
    <2>3. CASE EndCycle(m)
      BY <1>1, <2>1, <2>2, <2>3, EndCycleDated
    <2>4. CASE UNCHANGED <<base, cursor, page>>
      BY <1>1, <2>1, <2>2, <2>4 DEF MachineDated, Upto
    <2>5. QED
      BY <2>3, <2>4 DEF Advance
  <1>4. QED
    BY <1>2, <1>3 DEF Dated

LEMMA AdvanceQuiet ==
  ASSUME TypeOK, TypeOK', NEW m \in Machines, Safe(m), Quiet(m), Advance(m)
  PROVE  Quiet(m)'
  <1>1. /\ UNCHANGED <<server, local>> /\ stage[m] = "advance"
        /\ lastSync'[m] = page[m].now /\ page[m].now \in Nat
    BY DEF Advance, PulledUpTo, TypeOK, PageOK
  <1>2. CASE /\ ctxConflicts[m] = {}
             /\ EndCycle(m) /\ KeepHoles(m, PulledUpTo(m))
    <2>1. hole[m] = {}
      BY <1>2 DEF Quiet, HolesClose, TypeOK
    <2>2. KeepHoles(m, page[m].now)
      BY <1>2 DEF PulledUpTo
    <2>3. QED
      BY <1>1, <1>2, <2>1, <2>2, PulledCovers, EndCycleQuiet
  <1>3. CASE /\ stage' = [stage EXCEPT ![m] = "restore"]
             /\ UNCHANGED <<base, queue, reply, conflicts, ctxConflicts, resolved,
                            cursor, page, hole>>
    <2>1. stage'[m] = "restore"
      BY <1>3 DEF TypeOK
    <2>2. /\ UNCHANGED <<srv, srvTags, srvCtx, loc, locTags, locCtx>>
          /\ Sending(m)' = {} /\ Sending(m) = {} /\ Paging(m) /\ Paging(m)'
      BY <1>1, <2>1 DEF Sending, Paging, server, local
    <2>3. Snapshot(m)'
      BY <1>1, <1>3, <2>1, <2>2 DEF Quiet, Snapshot, Submitted
    <2>4. Accounted(m)'
      BY <1>1, <1>3, <2>2 DEF Quiet, Accounted
    <2>5. TimesOK(m)'
      BY <2>2 DEF Quiet, TimesOK, Clean, Present
    <2>6. SentOK(m)' /\ FetchedOK(m)'
      BY <2>1, <2>2 DEF SentOK, FetchedOK
    <2>7. HolesClose(m)'
      BY <1>3, <2>1, <2>2 DEF Quiet, HolesClose
    <2>8. ContextsCovered(m)'
      BY <1>1, <1>3, <2>1, <2>2, PulledCovers DEF ContextsCovered, PagedContext
    <2>9. TagsCovered(m)'
      <3> SUFFICES ASSUME NEW e \in Entries
                   PROVE  /\ srv[e].text = {} => srvTags[e] = {}
                          /\ Marked(m, srv[e].ts)' /\ Clean(m, e) => TagsHeld(m, e)
        BY <2>1, <2>2 DEF TagsCovered, InFlight, Scanned, Clean, Present, TagsHeld
      <3>1. Marked(m, srv[e].ts)' => Marked(m, srv[e].ts)
                                     \/ srv[e].ts <= page[m].now
        BY <1>1, <1>3, <2>2 DEF Marked
      <3>2. QED
        BY <1>1, <3>1, PulledCovers DEF Quiet, TagsCovered
    <2>10. QED
      BY <2>3, <2>4, <2>5, <2>6, <2>7, <2>8, <2>9 DEF Quiet
  <1>4. QED
    BY <1>2, <1>3 DEF Advance

LEMMA EndDated ==
  ASSUME OneQuietMachine, TypeOK, TypeOK', Dated, NEW m \in Machines,
         RestoreBaseline(m) \/ CycleFails(m)
  PROVE  Dated'
  <1>1. /\ UNCHANGED <<clock, srv, loc>> /\ EndCycle(m)
        /\ lastSync'[m] \in {lastSync[m], base[m]}
    BY DEF RestoreBaseline, CycleFails, Restored, server, local, TypeOK
  <1>2. \A e \in Entries : Upto(clock, srv[e])'
    BY <1>1, ServerDated
  <1>3. ASSUME NEW n \in Machines PROVE MachineDated(n)'
    <2>1. n = m /\ MachineDated(m)
      BY DEF OneQuietMachine, Dated
    <2>2. lastSync'[m] <= clock
      BY <1>1, <2>1 DEF MachineDated
    <2>3. QED
      BY <1>1, <2>1, <2>2, EndCycleDated
  <1>4. QED
    BY <1>2, <1>3 DEF Dated

LEMMA RestoreQuiet ==
  ASSUME TypeOK, TypeOK', NEW m \in Machines, Quiet(m), RestoreBaseline(m)
  PROVE  Quiet(m)'
  <1>1. /\ UNCHANGED <<server, local>> /\ stage[m] = "restore"
        /\ lastSync'[m] = base[m] /\ base[m] \in Nat
        /\ EndCycle(m) /\ KeepHoles(m, base[m])
    BY DEF RestoreBaseline, Restored, TypeOK
  <1>2. ASSUME NEW c \in Contexts, srvCtx[c].ts <= base[m]
        PROVE  srvCtx[c].text \subseteq locCtx[m][c].text
    <2>1. srvCtx[c].ts \in Int /\ page[m].now \in Nat
      BY DEF TypeOK, Row, PageOK
    <2>2. srvCtx[c].ts <= page[m].now
      BY <1>1, <1>2, <2>1 DEF Quiet, Snapshot, Paging
    <2>3. QED
      BY <1>1, <2>2 DEF Quiet, ContextsCovered, PagedContext, Paging
  <1>3. \A e \in Entries : srv[e].ts <= base[m] /\ Clean(m, e) => TagsHeld(m, e)
    BY DEF Quiet, TagsCovered, Marked
  <1>4. \A e \in hole[m] : ~(srv[e].ts <= base[m])
    BY DEF Quiet, HolesClose
  <1>5. QED
    BY <1>1, <1>2, <1>3, <1>4, EndCycleQuiet

LEMMA FailsQuiet ==
  ASSUME OneQuietMachine, TypeOK, TypeOK', NEW m \in Machines, Quiet(m),
         CycleFails(m)
  PROVE  Quiet(m)'
  <1>1. /\ UNCHANGED <<server, local>> /\ stage[m] \notin {"idle", "restore"}
        /\ lastSync'[m] = lastSync[m] /\ lastSync[m] \in Nat
        /\ EndCycle(m) /\ KeepHoles(m, lastSync[m])
    BY DEF CycleFails, OneQuietMachine, TypeOK
  <1>2. base[m] = lastSync[m]
    BY <1>1 DEF Quiet, Snapshot
  <1>3. \A c \in Contexts : srvCtx[c].ts <= lastSync[m]
                              => srvCtx[c].text \subseteq locCtx[m][c].text
    BY DEF Quiet, ContextsCovered
  <1>4. \A e \in Entries :
           srv[e].ts <= lastSync[m] /\ Clean(m, e) => TagsHeld(m, e)
    BY DEF Quiet, TagsCovered, Marked
  <1>5. \A e \in hole[m] : ~(srv[e].ts <= lastSync[m])
    BY <1>2 DEF Quiet, HolesClose
  <1>6. QED
    BY <1>1, <1>3, <1>4, <1>5, EndCycleQuiet

-----------------------------------------------------------------------------
(* The results for one machine.                                             *)

LEMMA InitQuietInv == Init => QuietInv
  BY InitTypeOK, InitSafe, InitDated, InitQuiet DEF QuietInv, SyncInv, Safe

LEMMA StepQuietInv ==
  ASSUME OneQuietMachine, QuietInv, [Next]_vars
  PROVE  QuietInv'
  <1>1. TypeOK /\ TypeOK' /\ Dated
    BY StepTypeOK DEF QuietInv, SyncInv
  <1>2. \A m \in Machines : Safe(m) /\ Safe(m)' /\ Quiet(m)
    BY <1>1, StepSafe DEF QuietInv, SyncInv, Safe
  <1>3. SyncInv'
    BY <1>1, <1>2 DEF SyncInv, Safe
  <1>4. CASE Others
    BY <1>1, <1>2, <1>3, <1>4, WebDated, WebQuiet DEF QuietInv
  <1>5. ASSUME NEW m \in Machines, Cli(m) \/ Daemon(m) \/ CycleFails(m)
        PROVE  Dated' /\ Quiet(m)'
    <2>1. CASE Cli(m)
      BY <1>1, <1>2, <2>1, CliDated, CliQuiet
    <2>2. CASE CycleStart(m)
      BY <1>1, <1>2, <2>2, CycleStartDated, CycleStartQuiet
    <2>3. CASE ServerPush(m)
      BY <1>1, <1>2, <2>3, ServerPushDated, ServerPushQuiet
    <2>4. CASE PushAck(m)
      BY <1>1, <1>2, <2>4, PushAckDated, PushAckQuiet
    <2>5. CASE ServerPull(m)
      BY <1>1, <1>2, <2>5, ServerPullDated, ServerPullQuiet
    <2>6. CASE Merge(m)
      BY <1>1, <1>2, <2>6, MergeDated, MergeQuiet
    <2>7. CASE Advance(m)
      BY <1>1, <1>2, <2>7, AdvanceDated, AdvanceQuiet
    <2>8. CASE RestoreBaseline(m)
      BY <1>1, <1>2, <2>8, EndDated, RestoreQuiet
    <2>9. CASE CycleFails(m)
      BY <1>1, <1>2, <2>9, EndDated, FailsQuiet
    <2>10. QED
      BY <1>5, <2>1, <2>2, <2>3, <2>4, <2>5, <2>6, <2>7, <2>8, <2>9 DEF Daemon
  <1>6. CASE \E m \in Machines : Cli(m) \/ Daemon(m) \/ CycleFails(m)
    BY <1>3, <1>5, <1>6 DEF QuietInv, OneQuietMachine
  <1>7. CASE UNCHANGED vars
    <2>1. /\ UNCHANGED <<clock, srv, srvTags, srvCtx, loc, locTags, locCtx,
                         lastSync, hole>>
          /\ UNCHANGED <<stage, base, queue, reply, conflicts, ctxConflicts,
                         resolved, cursor, page>>
      BY <1>7 DEF vars, server, local, cycle
    <2>2. Dated'
      BY <1>1, <2>1 DEF Dated, MachineDated, Upto
    <2>3. ASSUME NEW m \in Machines PROVE Quiet(m)'
      <3>1. Snapshot(m)' /\ Accounted(m)'
        BY <1>2, <2>1 DEF Quiet, Snapshot, Accounted, Sending, Paging, Submitted
      <3>2. TimesOK(m)' /\ FetchedOK(m)' /\ HolesClose(m)'
        BY <1>2, <2>1 DEF Quiet, TimesOK, FetchedOK, HolesClose, Clean, Present
      <3>3. SentOK(m)'
        BY <1>2, <2>1 DEF Quiet, SentOK, Sending, TagsHeld, Marked
      <3>4. ContextsCovered(m)'
        BY <1>2, <2>1 DEF Quiet, ContextsCovered, PagedContext, Paging
      <3>5. TagsCovered(m)'
        BY <1>2, <2>1 DEF Quiet, TagsCovered, TagsHeld, Marked, Behind, Scanned,
                          InFlight, At, AtOrBefore, Clean, Present
      <3>6. QED
        BY <3>1, <3>2, <3>3, <3>4, <3>5 DEF Quiet
    <2>4. QED
      BY <1>3, <2>2, <2>3 DEF QuietInv
  <1>8. QED
    BY <1>4, <1>6, <1>7 DEF Next

LEMMA QuietInvariant == ASSUME OneQuietMachine PROVE Spec => []QuietInv
  <1>1. Init => QuietInv
    BY InitQuietInv
  <1>2. QuietInv /\ [Next]_vars => QuietInv'
    BY StepQuietInv
  <1>3. QED
    BY <1>1, <1>2, PTL DEF Spec

(* docs/architecture.md's promise, for one machine that nobody edits during *)
(* a cycle: neither an entry nor a context loses an edit to a push, in any  *)
(* number of cycles, conflicts, resyncs and failures before the restore.    *)
THEOREM OneMachineLosesNothing == ASSUME OneQuietMachine PROVE Spec => NoLoss
  <1> DEFINE Kept == /\ \A e \in Entries : ~Loses(e)
                     /\ \A c \in Contexts : srvCtx[c].text \subseteq srvCtx'[c].text
  <1>1. QuietInv /\ QuietInv' /\ [LossExplained]_vars /\ [Next]_vars
           => [Kept]_vars
    <2> SUFFICES ASSUME QuietInv, LossExplained, Next PROVE Kept
      OBVIOUS
    <2>1. TypeOK /\ \A m \in Machines : Quiet(m)
      BY DEF QuietInv, SyncInv
    <2>2. ASSUME NEW e \in Entries, Loses(e) PROVE FALSE
      BY <2>1, <2>2 DEF LossExplained, Quiet, HolesClose
    <2>3. ASSUME NEW c \in Contexts
          PROVE  srvCtx[c].text \subseteq srvCtx'[c].text
      <3>1. CASE Others
        <4>1. ASSUME NEW d \in Contexts, ContextEdited(d)
              PROVE  srvCtx[c].text \subseteq srvCtx'[c].text
          BY <4>1 DEF ContextEdited
        <4>2. QED
          BY <2>1, <3>1, <4>1, OthersStep DEF EntryEdited
      <3>2. ASSUME NEW m \in Machines, ServerPush(m)
            PROVE  srvCtx[c].text \subseteq srvCtx'[c].text
        BY <2>1, <3>2, ContextsKept
      <3>3. ASSUME NEW m \in Machines, Cli(m) \/ CycleFails(m)
            PROVE  srvCtx[c].text \subseteq srvCtx'[c].text
        BY <3>3 DEF Cli, CliWrite, CliSetTags, CliEditContext, ResetSync,
                    CycleFails, server
      <3>4. ASSUME NEW m \in Machines, Daemon(m), ~ServerPush(m)
            PROVE  srvCtx[c].text \subseteq srvCtx'[c].text
        BY <3>4 DEF Daemon, CycleStart, PushAck, ServerPull, Merge, Advance,
                    RestoreBaseline, server
      <3>5. QED
        BY <3>1, <3>2, <3>3, <3>4 DEF Next
    <2>4. QED
      BY <2>2, <2>3
  <1>2. QED
    BY <1>1, QuietInvariant, LossOnlyThroughHoles, PTL
       DEF Spec, NoLoss, LossNeedsHole

(* A row of that machine becomes clean only when the server has its edits   *)
(* or has refused it and sent its own version, and a clean row lacks no tag *)
(* of a version the mark covers.                                            *)
THEOREM CleanRowsAreSynced == ASSUME OneQuietMachine PROVE Spec => CleanMeansSynced
  <1> DEFINE Cleaned == \A m \in Machines, e \in Entries :
                loc[m][e].dirty /\ ~loc'[m][e].dirty
                  => \/ loc[m][e].text \subseteq srv[e].text
                     \/ e \in conflicts[m]
  <1>1. QuietInv => HasServerTags
    BY DEF QuietInv, Quiet, TagsCovered, HasServerTags, Clean, Present, TagsHeld,
           Marked
  <1>2. QuietInv /\ [Next]_vars => [Cleaned]_vars
    <2> SUFFICES ASSUME QuietInv, Next, NEW m \in Machines, NEW e \in Entries,
                        loc[m][e].dirty, ~loc'[m][e].dirty
                 PROVE  loc[m][e].text \subseteq srv[e].text \/ e \in conflicts[m]
      OBVIOUS
    <2>1. TypeOK /\ Quiet(m)
      BY DEF QuietInv, SyncInv
    <2>2. CASE Others
      BY <2>2 DEF Others, WebWrite, WebSetTags, PeerEditContext, local
    <2>3. ASSUME NEW n \in Machines, Cli(n) PROVE FALSE
      <3>1. CASE loc'[m][e] = loc[m][e]
        BY <3>1
      <3>2. CASE loc'[m][e] # loc[m][e]
        <4>1. n = m
          BY DEF OneQuietMachine
        <4>2. QED
          BY <2>1, <2>3, <3>2, <4>1, CliStep
      <3>3. QED
        BY <3>1, <3>2
    <2>4. ASSUME NEW n \in Machines, PushAck(n)
          PROVE  loc[m][e].text \subseteq srv[e].text
      <3>1. n = m /\ e \in Accepted(m)
        BY <2>1, <2>4 DEF PushAck, TypeOK
      <3>2. stage[m] = "ack"
        BY <2>4, <3>1 DEF PushAck
      <3>3. QED
        BY <2>1, <3>1, <3>2 DEF Quiet, SentOK, Sending, Accepted
    <2>5. ASSUME NEW n \in Machines, Merge(n) PROVE e \in conflicts[m]
      <3>1. n = m /\ loc'[m][e] = MergeRow(m, e)
        BY <2>1, <2>5 DEF Merge, TypeOK
      <3>2. Takes(m, e)
        BY <3>1 DEF MergeRow
      <3>3. loc[m][e].text # {}
        BY <2>1 DEF Quiet, TimesOK, Present
      <3>4. QED
        BY <3>2, <3>3 DEF Takes, Forced
    <2>6. ASSUME NEW n \in Machines,
                 \/ CycleStart(n) \/ ServerPush(n) \/ ServerPull(n)
                 \/ Advance(n) \/ RestoreBaseline(n) \/ CycleFails(n)
          PROVE  FALSE
      BY <2>6 DEF CycleStart, ServerPush, ServerPull, Advance, RestoreBaseline,
                  CycleFails, local
    <2>7. QED
      BY <2>2, <2>3, <2>4, <2>5, <2>6 DEF Next, Daemon
  <1>3. QED
    BY <1>1, <1>2, QuietInvariant, PTL DEF Spec, CleanMeansSynced
=============================================================================
