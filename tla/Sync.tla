-------------------------------- MODULE Sync --------------------------------
(***************************************************************************)
(* The CLI cache synchronisation of tjai: every machine keeps a SQLite     *)
(* copy of the entries, its tj_agent daemon pushes the dirty rows and then *)
(* pulls what changed (tj_agent/sync.py), and the server guards each push  *)
(* by a timestamp comparison (sync_push, sync_pull in tjai_app/views.py).  *)
(*                                                                         *)
(* An entry's fields are abstracted to the SET OF EDITS they incorporate:  *)
(* an edit at time t on text S yields S \cup {t}.  Two copies differ when  *)
(* their sets differ, and a write loses somebody's work exactly when it    *)
(* replaces a set by one that does not contain it.  The empty set is a     *)
(* missing row.  clock counts the edits; every stamped edit takes a fresh  *)
(* clock value, which is its timestamp and its identity.                   *)
(***************************************************************************)
EXTENDS Integers, FiniteSets

CONSTANTS
    Machines,       \* machines running the tj CLI and the tj_agent daemon
    NumEntries,     \* entries are numbered by their id order
    Contexts,       \* context names
    CtxOf,          \* the context of an entry (a value outside Contexts: none)
    Tags,           \* tag names
    BatchSize,      \* PUSH_BATCH_SIZE and SYNC_BATCH_SIZE
    Ahead,          \* how far the clock of a machine is ahead of the server's
    MaxClock,       \* bound on the number of edits
    CliDuringCycle, \* whether the user edits while a sync cycle is running
    WebKeepsTime,   \* whether the web edits without bumping timestamp_modified
    WebLag,         \* how much a web edit may be stamped before it commits
    Resyncs,        \* whether the user runs tj admin agent sync
    FailsAt         \* where a cycle may fail: lost messages, crashes

Stages == {"idle", "push", "ack", "pull", "merge", "advance", "restore"}

ASSUME SyncAssumption ==
    /\ NumEntries \in Nat \ {0}
    /\ BatchSize \in Nat \ {0}
    /\ MaxClock \in Nat \ {0}
    /\ Ahead \in [Machines -> Int]
    /\ CliDuringCycle \in BOOLEAN
    /\ WebKeepsTime \in BOOLEAN
    /\ WebLag \in Nat
    /\ Resyncs \in BOOLEAN
    /\ FailsAt \subseteq Stages \ {"idle"}

Entries == 1..NumEntries
Edits == 1..MaxClock

VARIABLES
    clock,     \* time.time(), counted in edits
    srv,       \* the server's Entry rows: fields and timestamp_modified
    srvTags,   \* the server's Tag rows of an entry
    srvCtx,    \* the server's Context rows
    loc,       \* a machine's entries rows, with is_dirty
    locTags,   \* a machine's tags rows
    locCtx,    \* a machine's contexts rows
    lastSync,  \* sync_metadata.last_sync_time of a machine
    stage,     \* where a daemon is in sync_cycle
    base,      \* base_sync_time of the running cycle
    queue,     \* the dirty rows read by push_dirty_entries and not yet sent
    reply,     \* the server's answer to the batch in flight
    conflicts, \* conflict_ids of the running cycle
    ctxConflicts, \* context_conflict_names of the running cycle
    resolved,  \* resolved_ids of the running cycle
    cursor,    \* (since, after_id) of the next pull request
    page,      \* the pull response in flight
    hole       \* history: see Behind and Merge

server == <<srv, srvTags, srvCtx>>
local == <<loc, locTags, locCtx>>
cycle == <<stage, base, queue, reply, conflicts, ctxConflicts, resolved,
           cursor, page>>
vars == <<clock, server, local, lastSync, cycle, hole>>

-----------------------------------------------------------------------------
(* Positions in the pull order (timestamp_modified, id).  A request with an *)
(* empty after_id asks for timestamps greater than since: the position      *)
(* after every id.                                                          *)

AfterAllIds == NumEntries + 1
Position == [ts : Int, id : 1..AfterAllIds]
SinceNoId(t) == [ts |-> t, id |-> 0]    \* mutant: no id yet passed
Since(t) == [ts |-> t, id |-> AfterAllIds]
AtOrBefore(p, q) == \/ p.ts < q.ts
                    \/ p.ts = q.ts /\ p.id <= q.id
At(e) == [ts |-> srv[e].ts, id |-> e]

Row == [text : SUBSET Edits, ts : Int]
LocalRow == [text : SUBSET Edits, ts : Int, dirty : BOOLEAN]
NoRow == [text |-> {}, ts |-> 0]
NoRows == [e \in {} |-> NoRow]
NoReply == [sent |-> {}, rejected |-> {}, ctxs |-> {}]
NoPage == [rows |-> NoRows, tags |-> [e \in {} |-> {}], ctxs |-> NoRows,
           more |-> FALSE, end |-> Since(0), now |-> 0]

InFlight(m, e) == stage[m] = "merge" /\ e \in DOMAIN page[m].rows

RowsOK(rows, ids) == DOMAIN rows \subseteq ids /\ rows \in [DOMAIN rows -> Row]
PageOK(p) == /\ RowsOK(p.rows, Entries)
             /\ p.tags \in [DOMAIN p.rows -> SUBSET Tags]
             /\ RowsOK(p.ctxs, Contexts)
             /\ p.more \in BOOLEAN /\ p.end \in Position /\ p.now \in Nat

TypeOK ==
    /\ clock \in Edits
    /\ srv \in [Entries -> Row]
    /\ srvTags \in [Entries -> SUBSET Tags]
    /\ srvCtx \in [Contexts -> Row]
    /\ loc \in [Machines -> [Entries -> LocalRow]]
    /\ locTags \in [Machines -> [Entries -> SUBSET Tags]]
    /\ locCtx \in [Machines -> [Contexts -> Row]]
    /\ lastSync \in [Machines -> Nat]
    /\ stage \in [Machines -> Stages]
    /\ base \in [Machines -> Nat]
    /\ queue = [m \in Machines |-> queue[m]]
    /\ \A m \in Machines : RowsOK(queue[m], Entries)
    /\ reply \in [Machines -> [sent : SUBSET Entries,
                               rejected : SUBSET Entries,
                               ctxs : SUBSET Contexts]]
    /\ conflicts \in [Machines -> SUBSET Entries]
    /\ ctxConflicts \in [Machines -> SUBSET Contexts]
    /\ resolved \in [Machines -> SUBSET Entries]
    /\ cursor \in [Machines -> Position]
    /\ page = [m \in Machines |-> page[m]]
    /\ \A m \in Machines : PageOK(page[m])
    /\ hole \in [Machines -> SUBSET Entries]

(* A machine starts either fresh (empty cache, last_sync_time 0) or in step *)
(* with the server; every context and some of the entries already exist.   *)
Init ==
    /\ clock = 1
    /\ \E born \in SUBSET Entries, fresh \in SUBSET Machines :
        LET first == [text |-> {1}, ts |-> 1]
        IN  /\ srv = [e \in Entries |-> IF e \in born THEN first ELSE NoRow]
            /\ srvCtx = [c \in Contexts |-> first]
            /\ loc = [m \in Machines |-> [e \in Entries |->
                        IF e \in born /\ m \notin fresh
                        THEN [text |-> {1}, ts |-> 1, dirty |-> FALSE]
                        ELSE [text |-> {}, ts |-> 0, dirty |-> FALSE]]]
            /\ locCtx = [m \in Machines |-> [c \in Contexts |->
                           IF m \in fresh THEN NoRow ELSE first]]
            /\ lastSync = [m \in Machines |-> IF m \in fresh THEN 0 ELSE 1]
    /\ srvTags = [e \in Entries |-> {}]
    /\ locTags = [m \in Machines |-> [e \in Entries |-> {}]]
    /\ stage = [m \in Machines |-> "idle"]
    /\ base = [m \in Machines |-> 0]
    /\ queue = [m \in Machines |-> NoRows]
    /\ reply = [m \in Machines |-> NoReply]
    /\ conflicts = [m \in Machines |-> {}]
    /\ ctxConflicts = [m \in Machines |-> {}]
    /\ resolved = [m \in Machines |-> {}]
    /\ cursor = [m \in Machines |-> Since(0)]
    /\ page = [m \in Machines |-> NoPage]
    /\ hole = [m \in Machines |-> {}]

-----------------------------------------------------------------------------
(* The history variable hole.  hole[m] holds the entries whose server       *)
(* version machine m will not fetch although it does not have it: versions  *)
(* committed with a timestamp its pull position has already passed, and     *)
(* versions its pull received and skipped.                                  *)

Marked(m, ts) == ts <= lastSync[m] \/ ts <= base[m]

Scanned(m, p) ==
    \/ stage[m] = "pull" /\ AtOrBefore(p, cursor[m])
    \/ stage[m] \in {"merge", "advance"} /\ AtOrBefore(p, page[m].end)

Behind(m, e, ts) == Marked(m, ts) \/ Scanned(m, [ts |-> ts, id |-> e])

Holds(m, e, text) ==
    /\ text \subseteq loc[m][e].text
    /\ e \in DOMAIN queue[m] => text \subseteq queue[m][e].text
    /\ InFlight(m, e) => text \subseteq page[m].rows[e].text

(* What the commit of the rows new (the others unchanged) does to hole.     *)
HoleAfter(new) ==
    [m \in Machines |->
        {e \in Entries :
            IF new[e] = srv[e] THEN e \in hole[m]
            ELSE Behind(m, e, new[e].ts) /\ ~Holds(m, e, new[e].text)}]

-----------------------------------------------------------------------------
(* Edits.                                                                   *)

Tick == clock < MaxClock /\ clock' = clock + 1
Now == clock + 1

Unborn(e) == srv[e].text = {} /\ \A m \in Machines : loc[m][e].text = {}

(* The web and MCP handlers of tjai_app/services.py: an edit stamps the     *)
(* entry with the time before its transaction commits, unless keep_time is  *)
(* set or only metadata (tags, context) changed.                            *)
WebTimes(e) == {Now - lag : lag \in 0..WebLag}
               \cup IF WebKeepsTime THEN {srv[e].ts} ELSE {}

WebWrite(e, time) ==
    /\ Tick
    /\ srv[e].text # {} \/ (Unborn(e) /\ time > srv[e].ts)
    /\ srv' = [srv EXCEPT ![e] = [text |-> @.text \cup {Now}, ts |-> time]]
    /\ hole' = HoleAfter(srv')
    /\ UNCHANGED <<srvTags, srvCtx, local, lastSync, cycle>>

WebSetTags(e, tags, time) ==
    /\ srv[e].text # {} /\ srvTags[e] # tags
    /\ Tick
    /\ srvTags' = [srvTags EXCEPT ![e] = tags]
    /\ srv' = [srv EXCEPT ![e] = [text |-> @.text, ts |-> time]]
    /\ hole' = HoleAfter(srv')
    /\ UNCHANGED <<srvCtx, local, lastSync, cycle>>

(* A machine outside the model edits a context it has just pulled and       *)
(* pushes it at once: the server's contexts have no other writer.           *)
PeerEditContext(c) ==
    /\ Tick
    /\ srvCtx' = [srvCtx EXCEPT ![c] = [text |-> @.text \cup {Now}, ts |-> Now]]
    /\ UNCHANGED <<srv, srvTags, local, lastSync, cycle, hole>>

(* The tj commands write the machine's own SQLite file, in any process and *)
(* at any time, also while the daemon is inside a cycle.                    *)
MayEdit(m) == CliDuringCycle \/ stage[m] = "idle"

(* create_entry and update_entry stamp the row with the machine's clock;    *)
(* delete_entry and update_entry_status_only mark it dirty and leave its    *)
(* timestamp_modified alone.                                                *)
CliTime(m, e, stamped) == IF stamped THEN Now + Ahead[m] ELSE loc[m][e].ts

CliWrite(m, e, stamped) ==
    /\ Tick /\ MayEdit(m)
    /\ loc[m][e].text # {} \/ (Unborn(e) /\ stamped)
    /\ loc' = [loc EXCEPT ![m][e] = [text |-> @.text \cup {Now},
                                     ts |-> CliTime(m, e, stamped),
                                     dirty |-> TRUE]]
    /\ UNCHANGED <<server, locTags, locCtx, lastSync, cycle, hole>>

(* add_tag and remove_tag: the row becomes dirty, its timestamp stays.      *)
CliSetTags(m, e, tags) ==
    /\ MayEdit(m)
    /\ loc[m][e].text # {} /\ locTags[m][e] # tags
    /\ Tick
    /\ locTags' = [locTags EXCEPT ![m][e] = tags]
    /\ loc' = [loc EXCEPT ![m][e] = [text |-> @.text, ts |-> @.ts,
                                     dirty |-> TRUE]]
    /\ UNCHANGED <<server, locCtx, lastSync, cycle, hole>>

(* update_context: contexts have no dirty flag.                             *)
CliEditContext(m, c) ==
    /\ Tick /\ MayEdit(m)
    /\ locCtx[m][c].text # {}
    /\ locCtx' = [locCtx EXCEPT ![m][c] = [text |-> @.text \cup {Now},
                                           ts |-> Now + Ahead[m]]]
    /\ UNCHANGED <<server, loc, locTags, lastSync, cycle, hole>>

(* tj admin agent sync: the next pull starts from nothing.                  *)
ResetSync(m) ==
    /\ Resyncs /\ MayEdit(m) /\ lastSync[m] # 0
    /\ lastSync' = [lastSync EXCEPT ![m] = 0]
    /\ UNCHANGED <<clock, server, local, cycle, hole>>

-----------------------------------------------------------------------------
(* One sync cycle of a daemon: push the dirty rows, then pull.              *)

Dirty(m) == {e \in Entries : loc[m][e].dirty}
Submitted(m, e) == [text |-> loc[m][e].text, ts |-> loc[m][e].ts]

StartPull(m) ==
    /\ stage' = [stage EXCEPT ![m] = "pull"]
    /\ cursor' = [cursor EXCEPT ![m] = Since(lastSync[m])]

(* sync_cycle and push_dirty_entries read the baseline and the dirty rows;  *)
(* with nothing dirty the cycle goes on to the pull.                        *)
CycleStart(m) ==
    /\ stage[m] = "idle"
    /\ base' = [base EXCEPT ![m] = lastSync[m]]
    /\ queue' = [queue EXCEPT ![m] = [e \in Dirty(m) |-> Submitted(m, e)]]
    /\ IF Dirty(m) = {}
       THEN StartPull(m)
       ELSE /\ stage' = [stage EXCEPT ![m] = "push"]
            /\ UNCHANGED cursor
    /\ UNCHANGED <<clock, server, local, lastSync, reply, conflicts,
                   ctxConflicts, resolved, page, hole>>

(* The batches of PUSH_BATCH_SIZE rows, the last one possibly smaller.      *)
Batches(m) == {ids \in SUBSET DOMAIN queue[m] :
                 /\ ids # {}
                 /\ Cardinality(ids) <= BatchSize
                 /\ ids = DOMAIN queue[m] \/ Cardinality(ids) = BatchSize}

(* The contexts pushed along are those of the batch that the machine has.   *)
PushedContexts(m, ids) ==
    {c \in Contexts : locCtx[m][c].text # {} /\ \E e \in ids : CtxOf[e] = c}

(* sync_push rejects a row that was modified after base_sync_time and       *)
(* differs; tags and timestamps are not part of the comparison.             *)
StaleContextsLastWriter(m, ids) ==      \* mutant: the newer row wins
    {c \in PushedContexts(m, ids) :
        /\ srvCtx[c].ts > locCtx[m][c].ts
        /\ srvCtx[c].text # locCtx[m][c].text}
StaleContexts(m, ids) ==
    {c \in PushedContexts(m, ids) :
        srvCtx[c].ts > base[m] /\ srvCtx[c].text # locCtx[m][c].text}

StaleEntriesLastWriter(m, ids) ==       \* mutant: the newer row wins
    {e \in ids : /\ srv[e].ts > queue[m][e].ts
                 /\ srv[e].text # queue[m][e].text}
StaleEntries(m, ids) ==
    {e \in ids : srv[e].ts > base[m] /\ srv[e].text # queue[m][e].text}

(* A row that equals a newer server row keeps the server's timestamps.      *)
Stored(m, current, pushed) ==
    IF current.ts > base[m] THEN [text |-> pushed.text, ts |-> current.ts]
                            ELSE pushed

(* sync_push applies one batch in one transaction.  The entries of a        *)
(* rejected context are applied all the same; the tags of the applied       *)
(* entries are replaced by the pushed ones, which the daemon reads with     *)
(* the batch, not with the dirty rows.                                      *)
ServerPush(m) ==
    /\ stage[m] = "push"
    /\ \E ids \in Batches(m) :
        LET rejected == StaleEntries(m, ids)
            refused == StaleContexts(m, ids)
            applied == ids \ rejected
        IN  /\ srv' = [e \in Entries |->
                         IF e \in applied THEN Stored(m, srv[e], queue[m][e])
                                          ELSE srv[e]]
            /\ srvTags' = [e \in Entries |->
                             IF e \in applied THEN locTags[m][e] ELSE srvTags[e]]
            /\ srvCtx' = [c \in Contexts |->
                            IF c \in PushedContexts(m, ids) \ refused
                            THEN Stored(m, srvCtx[c], locCtx[m][c])
                            ELSE srvCtx[c]]
            /\ reply' = [reply EXCEPT ![m] = [sent |-> ids,
                                              rejected |-> rejected,
                                              ctxs |-> refused]]
            /\ hole' = HoleAfter(srv')
            /\ queue' = [queue EXCEPT ![m] =
                           [e \in DOMAIN @ \ ids |-> queue[m][e]]]
    /\ stage' = [stage EXCEPT ![m] = "ack"]
    /\ UNCHANGED <<clock, local, lastSync, base, conflicts, ctxConflicts,
                   resolved, cursor, page>>

AcceptedSent(m) == reply[m].sent        \* mutant: conflicts not looked at

Accepted(m) == {e \in reply[m].sent \ reply[m].rejected :
                  CtxOf[e] \notin reply[m].ctxs}

(* push_dirty_entries receives the answer: UPDATE entries SET is_dirty = 0  *)
(* for the accepted ids, then the next batch or the pull.                   *)
PushAck(m) ==
    /\ stage[m] = "ack"
    /\ loc' = [loc EXCEPT ![m] =
                 [e \in Entries |-> IF e \in Accepted(m)
                                    THEN [text |-> @[e].text, ts |-> @[e].ts,
                                          dirty |-> FALSE]
                                    ELSE @[e]]]
    /\ conflicts' = [conflicts EXCEPT ![m] = @ \cup reply[m].rejected]
    /\ ctxConflicts' = [ctxConflicts EXCEPT ![m] = @ \cup reply[m].ctxs]
    /\ reply' = [reply EXCEPT ![m] = NoReply]
    /\ IF DOMAIN queue[m] = {}
       THEN StartPull(m)
       ELSE /\ stage' = [stage EXCEPT ![m] = "push"]
            /\ UNCHANGED cursor
    /\ UNCHANGED <<clock, server, locTags, locCtx, lastSync, base, queue,
                   resolved, page, hole>>

Pending(m) == {e \in Entries : /\ srv[e].text # {}
                               /\ ~AtOrBefore(At(e), cursor[m])}

IsPageUnordered(m, rows) ==             \* mutant: no order_by
    /\ rows \subseteq Pending(m)
    /\ Cardinality(rows) <= BatchSize
    /\ rows = Pending(m) \/ Cardinality(rows) = BatchSize

(* The first BatchSize pending rows in the pull order.                      *)
IsPage(m, rows) ==
    /\ rows \subseteq Pending(m)
    /\ \A e \in rows, f \in Pending(m) \ rows : AtOrBefore(At(e), At(f))
    /\ Cardinality(rows) <= BatchSize
    /\ rows = Pending(m) \/ Cardinality(rows) = BatchSize

(* sync_pull answers with one page: has_more is guessed from a full page,   *)
(* contexts come with every page.  end is the position up to which the      *)
(* client will consider the server seen once it has merged the page: the    *)
(* last row when it asks for more, the server time of the page otherwise.   *)
ServerPull(m) ==
    /\ stage[m] = "pull"
    /\ \E rows \in SUBSET Entries :
        /\ IsPage(m, rows)
        /\ LET more == Cardinality(rows) = BatchSize
               ctxs == {c \in Contexts : srvCtx[c].ts > cursor[m].ts}
           IN  \E last \in IF more THEN rows ELSE {NumEntries} :
                /\ more => \A e \in rows : AtOrBefore(At(e), At(last))
                /\ page' = [page EXCEPT ![m] =
                     [rows |-> [e \in rows |-> srv[e]],
                      tags |-> [e \in rows |-> srvTags[e]],
                      ctxs |-> [c \in ctxs |-> srvCtx[c]],
                      more |-> more,
                      end |-> IF more THEN At(last) ELSE Since(clock),
                      now |-> clock]]
    /\ stage' = [stage EXCEPT ![m] = "merge"]
    /\ UNCHANGED <<clock, server, local, lastSync, base, queue, reply,
                   conflicts, ctxConflicts, resolved, cursor, hole>>

(* _merge_batch takes a row unless the local one is dirty or newer, and     *)
(* takes it over any local row when the push of that id was just rejected.  *)
ForcedNone(m) == {}                     \* mutant: conflict_ids not passed on

Forced(m) == conflicts[m]               \* force_accept_ids

Takes(m, e) ==
    \/ loc[m][e].text = {}
    \/ e \in Forced(m)
    \/ ~loc[m][e].dirty /\ loc[m][e].ts <= page[m].rows[e].ts

MergeRow(m, e) ==
    IF e \in DOMAIN page[m].rows /\ Takes(m, e)
    THEN [text |-> page[m].rows[e].text, ts |-> page[m].rows[e].ts,
          dirty |-> FALSE]
    ELSE loc[m][e]

MergeTagsOfNew(m, e) ==                 \* mutant: only for new entries
    IF e \in DOMAIN page[m].rows /\ loc[m][e].text = {}
    THEN page[m].tags[e] ELSE locTags[m][e]

MergeTags(m, e) ==
    IF e \in DOMAIN page[m].rows THEN locTags[m][e] \cup page[m].tags[e]
                                 ELSE locTags[m][e]

(* Contexts are replaced, tags only ever added, also for a skipped row.     *)
Merge(m) ==
    /\ stage[m] = "merge"
    /\ LET rows == DOMAIN page[m].rows
       IN  /\ loc' = [loc EXCEPT ![m] = [e \in Entries |-> MergeRow(m, e)]]
           /\ locTags' = [locTags EXCEPT ![m] =
                [e \in Entries |-> MergeTags(m, e)]]
           /\ locCtx' = [locCtx EXCEPT ![m] =
                [c \in Contexts |-> IF c \in DOMAIN page[m].ctxs
                                    THEN page[m].ctxs[c] ELSE @[c]]]
           /\ resolved' = [resolved EXCEPT ![m] =
                @ \cup {e \in rows \cap Forced(m) : loc[m][e].text # {}}]
           /\ hole' = [hole EXCEPT ![m] =
                {e \in Entries :
                   IF e \in rows
                   THEN /\ e \in @ \/ ~Takes(m, e)
                        /\ ~(srv[e].text \subseteq loc'[m][e].text)
                   ELSE e \in @}]
    /\ IF page[m].more
       THEN /\ stage' = [stage EXCEPT ![m] = "pull"]
            /\ cursor' = [cursor EXCEPT ![m] = page[m].end]
       ELSE /\ stage' = [stage EXCEPT ![m] = "advance"]
            /\ UNCHANGED cursor
    /\ UNCHANGED <<clock, server, lastSync, base, queue, reply, conflicts,
                   ctxConflicts, page>>

(* Leaving sync_cycle, normally or not, drops everything the daemon held.   *)
EndCycle(m) ==
    /\ stage' = [stage EXCEPT ![m] = "idle"]
    /\ base' = [base EXCEPT ![m] = 0]
    /\ queue' = [queue EXCEPT ![m] = NoRows]
    /\ reply' = [reply EXCEPT ![m] = NoReply]
    /\ conflicts' = [conflicts EXCEPT ![m] = {}]
    /\ ctxConflicts' = [ctxConflicts EXCEPT ![m] = {}]
    /\ resolved' = [resolved EXCEPT ![m] = {}]
    /\ cursor' = [cursor EXCEPT ![m] = Since(0)]
    /\ page' = [page EXCEPT ![m] = NoPage]

(* A version above the baseline will be fetched again: no hole.             *)
KeepHoles(m, baseline) ==
    hole' = [hole EXCEPT ![m] = {e \in @ : srv[e].ts <= baseline}]

PulledUpToNow(m) == clock               \* mutant: the time of the update

(* pull_updates stores the server time of the last page.                    *)
PulledUpTo(m) == page[m].now

Advance(m) ==
    /\ stage[m] = "advance"
    /\ lastSync' = [lastSync EXCEPT ![m] = PulledUpTo(m)]
    /\ IF (conflicts[m] \ resolved[m]) \cup ctxConflicts[m] = {}
       THEN EndCycle(m) /\ KeepHoles(m, PulledUpTo(m))
       ELSE /\ stage' = [stage EXCEPT ![m] = "restore"]
            /\ UNCHANGED <<base, queue, reply, conflicts, ctxConflicts,
                           resolved, cursor, page, hole>>
    /\ UNCHANGED <<clock, server, local>>

RestoredNothing(m) == lastSync[m]       \* mutant: the advance stays

Restored(m) == base[m]

(* sync_cycle puts the baseline back while a conflict is unresolved.        *)
RestoreBaseline(m) ==
    /\ stage[m] = "restore"
    /\ lastSync' = [lastSync EXCEPT ![m] = Restored(m)]
    /\ EndCycle(m) /\ KeepHoles(m, Restored(m))
    /\ UNCHANGED <<clock, server, local>>

(* A lost request or response, an HTTP error, a crash or a restart of the   *)
(* daemon: the cycle ends where it is, what is in SQLite stays.             *)
CycleFails(m) ==
    /\ stage[m] \in FailsAt
    /\ EndCycle(m) /\ KeepHoles(m, lastSync[m])
    /\ UNCHANGED <<clock, server, local, lastSync>>

-----------------------------------------------------------------------------
Others ==
    \/ \E e \in Entries : \E time \in WebTimes(e) :
        \/ WebWrite(e, time)
        \/ \E tags \in SUBSET Tags : WebSetTags(e, tags, time)
    \/ \E c \in Contexts : PeerEditContext(c)

Cli(m) == \/ \E e \in Entries, stamped \in BOOLEAN : CliWrite(m, e, stamped)
          \/ \E e \in Entries, tags \in SUBSET Tags : CliSetTags(m, e, tags)
          \/ \E c \in Contexts : CliEditContext(m, c)
          \/ ResetSync(m)

Daemon(m) == \/ CycleStart(m) \/ ServerPush(m) \/ PushAck(m)
             \/ ServerPull(m) \/ Merge(m) \/ Advance(m) \/ RestoreBaseline(m)

Next == \/ Others
        \/ \E m \in Machines : Cli(m) \/ Daemon(m) \/ CycleFails(m)

Spec == Init /\ [][Next]_vars

(* run_forever starts a cycle after every interval, each step of a cycle is *)
(* taken or fails, and in the end the network stays up and the user stops   *)
(* asking for full resyncs.  (The last step of a cycle that changes nothing *)
(* is the same pair of states as a cycle failing there: no failure.)        *)
CycleCut(m) == CycleFails(m) /\ ~Daemon(m)

Fairness == \A m \in Machines :
    /\ WF_vars(Daemon(m))
    /\ <>[][~CycleCut(m) /\ ~ResetSync(m)]_vars

FairSpec == Spec /\ Fairness

-----------------------------------------------------------------------------
(* Safety: a version of an entry that the baseline of a machine covers is   *)
(* contained in the machine's copy, except for the holes.  This is what     *)
(* sending base_sync_time with a push relies on: the guard of sync_push     *)
(* lets the push replace every version up to the baseline.                  *)
BaselineCovers ==
    \A m \in Machines, e \in Entries :
        e \notin hole[m] /\ srv[e].ts <= lastSync[m]
            => srv[e].text \subseteq loc[m][e].text

(* The inductive strengthening.  Whatever a mark or the scan of a machine   *)
(* has passed is in the machine's copy, or in the page about to replace it, *)
(* and in the snapshot about to be pushed over it.                          *)
Covered(m, e) ==
    LET text == srv[e].text
    IN  /\ Marked(m, srv[e].ts) => text \subseteq loc[m][e].text
        /\ Scanned(m, At(e)) /\ ~InFlight(m, e)
             => text \subseteq loc[m][e].text
        /\ Behind(m, e, srv[e].ts) /\ InFlight(m, e)
             => text \subseteq page[m].rows[e].text
        /\ Marked(m, srv[e].ts) /\ e \in DOMAIN queue[m]
             => text \subseteq queue[m][e].text

Shape(m) ==
    /\ \A e \in DOMAIN queue[m] : queue[m][e].text \subseteq loc[m][e].text
    /\ stage[m] \notin {"push", "ack"} => DOMAIN queue[m] = {}
    /\ stage[m] \in {"merge", "advance"} /\ ~page[m].more
         => page[m].end = Since(page[m].now)
    /\ stage[m] = "advance" => ~page[m].more

SyncInv ==
    /\ TypeOK
    /\ \A m \in Machines : Shape(m)
    /\ \A m \in Machines : \A e \in Entries \ hole[m] : Covered(m, e)

(* A write that drops edits the server already had comes from a machine     *)
(* that had a hole at this entry: the guard of sync_push protects every     *)
(* version that was neither committed behind the machine's pull position    *)
(* nor skipped by its _merge_batch, whatever fails, crashes or interleaves. *)
Loses(e) == ~(srv[e].text \subseteq srv'[e].text)

LossExplained ==
    \A e \in Entries : Loses(e) =>
        \E m \in Machines : /\ stage[m] = "push" /\ stage'[m] = "ack"
                            /\ e \in hole[m]

LossNeedsHole == [][LossExplained]_vars

(* The promise of docs/architecture.md: no edit silently replaces newer web *)
(* or MCP work, or anybody's, neither of an entry nor of the description of *)
(* a context.  It holds for one machine whose user does not edit during a   *)
(* cycle, as long as web edits stamp the entry and no cycle is cut short    *)
(* after its pull.                                                          *)
NoLoss ==
    [][/\ \A e \in Entries : ~Loses(e)
       /\ \A c \in Contexts : srvCtx[c].text \subseteq srvCtx'[c].text]_vars

(* What a clean row means, when web edits are stamped and the user does not *)
(* edit the row while its push is in flight: it is marked clean only when   *)
(* every edit it holds is on the server (TJ_AGENT.md "Set is_dirty = 0 only *)
(* for entries the server accepted"), and it has at least the tags of a     *)
(* server version that the baseline covers.                                 *)
HasServerTags ==
    \A m \in Machines, e \in Entries :
        /\ stage[m] = "idle" /\ loc[m][e].text # {}
        /\ ~loc[m][e].dirty /\ srv[e].ts <= lastSync[m]
        => srvTags[e] \subseteq locTags[m][e]

CleanMeansSynced ==
    /\ []HasServerTags
    /\ [][\A m \in Machines, e \in Entries :
            loc[m][e].dirty /\ ~loc'[m][e].dirty
              => \/ loc[m][e].text \subseteq srv[e].text
                 \/ e \in conflicts[m]]_vars

(* Liveness: no row stays dirty forever, the purpose of force_accept_ids    *)
(* ("Without this the entry stays dirty forever: push keeps getting         *)
(* rejected while pull keeps skipping it").                                 *)
DirtyDrains ==
    \A m \in Machines, e \in Entries : loc[m][e].dirty ~> ~loc[m][e].dirty

(* Liveness: once the edits stop, every cache ends with the server's rows.  *)
CachesConverge ==
    <>[](\A m \in Machines, e \in Entries : loc[m][e].text = srv[e].text)
=============================================================================
