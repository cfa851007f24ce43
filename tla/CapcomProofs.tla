---------------------------- MODULE CapcomProofs ----------------------------
(* What holds of Capcom for any messages, keys, pages, items and searches.  *)
EXTENDS Capcom, TLAPS

\* A drain reads on only while its page has more, the message it is about to
\* store is the one after its cursor, and a row it found has that message's key.
DrainOK(l, f) ==
    /\ l \in Locals
    /\ l.row \in DOMAIN f \cup {0}
    /\ l.stage = "fetch" => l.pages < PageLimit
    /\ l.stage = "emit" => l.at < l.upto
    /\ l.stage \in {"idle", "report"} => l.at = 0
    /\ l.stage = "store" =>
         /\ l.now # 0 => l.now = l.at + 1 /\ l.now <= l.upto
         /\ l.row # 0 => f[l.row].key = Key(Message(l.now)) /\ f[l.row].key # NoKey

DrainsOK == \A d \in Drains : DrainOK(drain[d], feed)

Types == TypeOK /\ DrainsOK /\ clock <= load.seconds

-----------------------------------------------------------------------------
(* Rows.                                                                    *)

LEMMA HiddenType == \A x : Hidden(x) \in BOOLEAN
  BY DEF Hidden

LEMMA NewRowType == ASSUME NEW x \in News PROVE NewRow(x) \in Row
<1>1. Key(x) \in Keys BY DEF Keys
<1> QED BY <1>1, HiddenType DEF NewRow, Row

LEMMA ThreadedType ==
  ASSUME NEW x \in News, NEW row \in Row
  PROVE  /\ Threaded(row, x) \in Row
         /\ Threaded(row, x).key = row.key
<1> DEFINE h == Hidden(x)
<1>1. h \in BOOLEAN BY HiddenType
<1>2. Threaded(row, x) = [row EXCEPT !.shows = x, !.repeated = TRUE, !.read = FALSE, !.archived = h]
  BY DEF Threaded
<1> HIDE DEF h
<1>3. [row EXCEPT !.shows = x, !.repeated = TRUE, !.read = FALSE, !.archived = h] \in Row
  BY <1>1 DEF Row
<1>4. Threaded(row, x).key = row.key BY <1>2 DEF Row
<1> QED BY <1>2, <1>3, <1>4

LEMMA MessageInNews == \A n \in 0..NumMessages : Message(n) \in News
  BY DEF News

\* What emit_notice does to the rows, given the row it found.
LEMMA SaveRows ==
  ASSUME feed \in Seq(Row), NEW x \in News, NEW r \in Rows \cup {0}, Save(x, r)
  PROVE  /\ feed' \in Seq(Row)
         /\ Rows \subseteq Rows'
         /\ \A s \in Rows : feed'[s].key = feed[s].key /\ (s # r => feed'[s] = feed[s])
         /\ r # 0 => Rows' = Rows /\ feed'[r] = Threaded(feed[r], x)
         /\ r = 0 => /\ Rows' = Rows \cup {Len(feed) + 1}
                     /\ feed'[Len(feed) + 1] = NewRow(x)
                     /\ Len(feed) + 1 \notin Rows
<1>1. CASE r = 0
  BY <1>1, NewRowType DEF Save, Rows
<1>2. CASE r # 0
  <2>1. Threaded(feed[r], x) \in Row /\ Threaded(feed[r], x).key = feed[r].key
    BY <1>2, ThreadedType DEF Rows
  <2> QED BY <1>2, <2>1 DEF Save, Rows
<1> QED BY <1>1, <1>2

-----------------------------------------------------------------------------
(* Types.                                                                   *)

LEMMA LoadType ==
  ASSUME load \in Loads
  PROVE  load.messages \in 0..NumMessages /\ load.seconds \in 0..MaxSecond
<1>1. load \in [messages : 0..NumMessages, seconds : 0..MaxSecond, faults : Nat, marks : Nat]
  BY CapcomAssumption
<1> QED BY <1>1

\* Locals of a drain, field by field.
LEMMA LocalsType ==
  ASSUME NEW l \in Locals, NEW st \in Stages, NEW a \in 0..NumMessages, NEW u \in 0..NumMessages,
         NEW m \in BOOLEAN, NEW p \in 0..PageLimit, NEW n \in 0..NumMessages, NEW r \in Nat
  PROVE  [stage |-> st, at |-> a, upto |-> u, more |-> m, pages |-> p, now |-> n, row |-> r] \in Locals
  BY DEF Locals

LEMMA FreshOK ==
  ASSUME NEW st \in {"idle", "fetch", "report"}, NEW a \in 0..NumMessages,
         st # "fetch" => a = 0, NEW f
  PROVE  DrainOK(Fresh(st, a), f)
<1> USE CapcomAssumption
<1> DEFINE l == Fresh(st, a)
<1>1. l \in Locals BY DEF Locals, Stages, Fresh
<1>2. l.row = 0 /\ l.stage = st /\ l.pages = 0 /\ l.at = a BY DEF Fresh
<1> HIDE DEF l
<1>3. DrainOK(l, f) BY <1>1, <1>2 DEF DrainOK
<1> QED BY <1>3 DEF l

\* Rows keep their keys: a row that is added or threaded onto leaves the drains'
\* locals in order.
KeysKept == Rows \subseteq Rows' /\ \A s \in Rows : feed'[s].key = feed[s].key

LEMMA DrainKept ==
  ASSUME NEW l, DrainOK(l, feed), KeysKept, 0 \notin Rows
  PROVE  DrainOK(l, feed')
  BY DEF DrainOK, KeysKept, Rows

LEMMA DrainStepped ==
  ASSUME TypeOK, DrainsOK, NEW d \in Drains, NEW l, DrainOK(l, feed'),
         drain' = [drain EXCEPT ![d] = l], KeysKept
  PROVE  DrainsOK' /\ drain' \in [Drains -> Locals]
<1>1. 0 \notin Rows BY DEF Rows, TypeOK
<1>2. \A e \in Drains : DrainOK(drain[e], feed') \/ e = d BY <1>1, DrainKept DEF DrainsOK
<1>3. \A e \in Drains : DrainOK(drain'[e], feed') BY <1>2 DEF TypeOK
<1> QED BY <1>3 DEF DrainsOK, DrainOK, TypeOK, Rows

LEMMA SameFeed == ASSUME UNCHANGED feed PROVE KeysKept
  BY DEF KeysKept, Rows

\* The drain's steps: each leaves one drain's locals in order, and the rest of
\* the state with its types.
LEMMA DrainTypes ==
  ASSUME Types, DrainsOK', drain' \in [Drains -> Locals], UNCHANGED <<load, gitVars>>,
         sent' \in 0..NumMessages, swfCursor' \in 0..NumMessages, feed' \in Seq(Row),
         fresh' \subseteq News, times' \in [Messages -> Nat], unsettled' \in BOOLEAN,
         faults' \in Nat, marks' \in Nat
  PROVE  Types'
<1>1. UNCHANGED <<clock, events, cursor, run, holes>> BY DEF gitVars
<1>2. TypeOK' BY <1>1 DEF Types, TypeOK
<1> QED BY <1>1, <1>2 DEF Types

LEMMA StartTypes == ASSUME Types, NEW d \in Drains, Start(d) PROVE Types'
<1> DEFINE l == Fresh("fetch", swfCursor)
<1>1. DrainOK(l, feed') BY FreshOK DEF Types, TypeOK
<1>2. drain' = [drain EXCEPT ![d] = l] BY DEF Start
<1> HIDE DEF l
<1>3. DrainsOK' /\ drain' \in [Drains -> Locals]
  BY <1>1, <1>2, DrainStepped, SameFeed DEF Types, Start
<1>4. unsettled' \in BOOLEAN BY DEF Start
<1> QED BY <1>3, <1>4, DrainTypes DEF Types, TypeOK, Start

LEMMA FetchTypes == ASSUME Types, NEW d \in Drains, Fetch(d) PROVE Types'
<1> DEFINE u == PageEnd(drain[d].at)  b == u < sent  p == drain[d].pages + 1
<1>1. drain[d] \in Locals /\ drain[d].stage = "fetch" /\ drain[d].pages < PageLimit
      /\ drain[d].row \in DOMAIN feed \cup {0}
  BY DEF Types, DrainsOK, DrainOK, Fetch
<1>2. u \in 0..NumMessages /\ b \in BOOLEAN BY <1>1, CapcomAssumption DEF PageEnd, Types, TypeOK, Locals
<1>3. p \in 0..PageLimit BY <1>1, CapcomAssumption DEF Locals
<1> DEFINE n == [drain[d] EXCEPT !.stage = "emit", !.upto = u, !.more = b, !.pages = p]
           l == IF u <= drain[d].at THEN Idle ELSE n
<1>4. drain' = [drain EXCEPT ![d] = l]
  BY <1>1 DEF Fetch, Locals
<1>5. DrainOK(Idle, feed') BY FreshOK, CapcomAssumption DEF Idle
<1>6. ~(u <= drain[d].at) => DrainOK(n, feed')
  <2> SUFFICES ASSUME ~(u <= drain[d].at) PROVE DrainOK(n, feed') OBVIOUS
  <2> HIDE DEF u, b, p
  <2>1. n \in Locals /\ n.stage = "emit" /\ n.at = drain[d].at /\ n.upto = u /\ n.row = drain[d].row
    BY <1>1, <1>2, <1>3 DEF Locals, Stages
  <2>2. n.at < n.upto BY <1>1, <1>2, <2>1 DEF Locals
  <2> HIDE DEF n
  <2> QED BY <1>1, <2>1, <2>2 DEF DrainOK, Fetch
<1>7. DrainOK(l, feed')
  <2>1. CASE u <= drain[d].at BY <1>5, <2>1
  <2>2. CASE ~(u <= drain[d].at)
    <3>1. l = n BY <2>2
    <3> HIDE DEF l, n
    <3> QED BY <1>6, <2>2, <3>1
  <2> QED BY <2>1, <2>2
<1> HIDE DEF l
<1>8. DrainsOK' /\ drain' \in [Drains -> Locals]
  BY <1>4, <1>7, DrainStepped, SameFeed DEF Types, Fetch
<1> QED BY <1>8, DrainTypes DEF Types, TypeOK, Fetch

LEMMA FindTypes == ASSUME Types, NEW d \in Drains, Find(d) PROVE Types'
<1> DEFINE n == IF drain[d].stage = "report" THEN 0 ELSE drain[d].at + 1
<1>1. /\ drain[d] \in Locals /\ drain[d].stage \in {"emit", "report"}
      /\ drain[d].stage = "emit" => drain[d].at < drain[d].upto
  BY DEF Types, DrainsOK, DrainOK, Find
<1>2. n \in 0..NumMessages /\ (n # 0 => n = drain[d].at + 1 /\ n <= drain[d].upto)
  BY <1>1, CapcomAssumption DEF Locals
<1>3. PICK r \in MayFind(Message(n)) :
        drain' = [drain EXCEPT ![d] = [drain[d] EXCEPT !.stage = "store", !.now = n, !.row = r]]
  BY DEF Find
<1>4. /\ r \in DOMAIN feed \cup {0} /\ r \in Nat
      /\ r # 0 => feed[r].key = Key(Message(n)) /\ feed[r].key # NoKey
  BY <1>3 DEF MayFind, Threads, Rows, Types, TypeOK
<1> DEFINE l == [drain[d] EXCEPT !.stage = "store", !.now = n, !.row = r]
<1> HIDE DEF n
<1>5. l \in Locals /\ l.stage = "store" /\ l.now = n /\ l.row = r
      /\ l.at = drain[d].at /\ l.upto = drain[d].upto
  BY <1>1, <1>2, <1>4 DEF Locals, Stages
<1> HIDE DEF l
<1>6. DrainOK(l, feed') BY <1>2, <1>4, <1>5 DEF DrainOK, Find
<1>7. DrainsOK' /\ drain' \in [Drains -> Locals]
  BY <1>3, <1>6, DrainStepped, SameFeed DEF Types, Find, l
<1> QED BY <1>7, DrainTypes DEF Types, TypeOK, Find

\* Which row and message a drain stores.
LEMMA StoreKeys ==
  ASSUME Types, NEW d \in Drains, drain[d].stage = "store"
  PROVE  /\ drain[d] \in Locals /\ drain[d].now \in 0..NumMessages
         /\ Message(drain[d].now) \in News
         /\ drain[d].row \in Rows \cup {0}
         /\ drain[d].row # 0 => /\ feed[drain[d].row].key = Key(Message(drain[d].now))
                                /\ feed[drain[d].row].key # NoKey
         /\ drain[d].now # 0 => drain[d].now = drain[d].at + 1 /\ drain[d].now <= drain[d].upto
  BY MessageInNews DEF Types, DrainsOK, DrainOK, Locals, Rows

LEMMA StoreTypes == ASSUME Types, NEW d \in Drains, Store(d) PROVE Types'
<1> DEFINE k == drain[d].now
           n == [drain[d] EXCEPT !.stage = IF k = drain[d].upto THEN "save" ELSE "emit",
                                 !.at = k, !.now = 0, !.row = 0]
           l == IF k = 0 THEN Idle ELSE n
<1>1. drain[d].stage = "store" /\ Save(Message(k), drain[d].row) BY DEF Store
<1>2. feed' \in Seq(Row) /\ KeysKept
  BY <1>1, StoreKeys, SaveRows DEF KeysKept, Types, TypeOK
<1>3. fresh' \subseteq News BY <1>1, StoreKeys DEF Save, Types, TypeOK
<1>4. drain' = [drain EXCEPT ![d] = l] BY DEF Store
<1>5. k # 0 => DrainOK(n, feed')
  <2> SUFFICES ASSUME k # 0 PROVE DrainOK(n, feed') OBVIOUS
  <2>1. k \in 0..NumMessages /\ k <= drain[d].upto BY <1>1, StoreKeys
  <2> DEFINE st == IF k = drain[d].upto THEN "save" ELSE "emit"
  <2>2. st \in Stages /\ (st = "emit" => k < drain[d].upto) /\ st \notin {"fetch", "idle", "report", "store"}
    BY <1>1, <2>1, StoreKeys DEF Stages, Locals
  <2>3. drain[d] \in Locals BY <1>1, StoreKeys
  <2>5. n = [drain[d] EXCEPT !.stage = st, !.at = k, !.now = 0, !.row = 0] OBVIOUS
  <2>6. 0 \in 0..NumMessages BY CapcomAssumption
  <2> HIDE DEF st, k, n
  <2>4. n \in Locals /\ n.stage = st /\ n.at = k /\ n.upto = drain[d].upto /\ n.row = 0
    BY <2>1, <2>2, <2>3, <2>5, <2>6 DEF Locals
  <2> HIDE DEF n
  <2> QED BY <2>2, <2>4 DEF DrainOK
<1>6. DrainOK(l, feed')
  <2>1. DrainOK(Idle, feed') BY FreshOK, CapcomAssumption DEF Idle
  <2>2. CASE k = 0 BY <2>1, <2>2
  <2>3. CASE k # 0
    <3>1. l = n BY <2>3
    <3> HIDE DEF l, n
    <3> QED BY <1>5, <2>3, <3>1
  <2> QED BY <2>2, <2>3
<1>7. times' \in [Messages -> Nat]
  BY DEF Store, Types, TypeOK
<1> HIDE DEF l, k
<1>8. DrainsOK' /\ drain' \in [Drains -> Locals]
  BY <1>2, <1>4, <1>6, DrainStepped DEF Types
<1> QED BY <1>2, <1>3, <1>7, <1>8, DrainTypes DEF Types, TypeOK, Store

LEMMA SaveCursorTypes == ASSUME Types, NEW d \in Drains, SaveCursor(d) PROVE Types'
<1> DEFINE n == [drain[d] EXCEPT !.stage = "fetch"]
           l == IF drain[d].more /\ drain[d].pages < PageLimit THEN n ELSE Idle
<1>1. drain[d] \in Locals /\ drain[d].row \in DOMAIN feed \cup {0}
  BY DEF Types, DrainsOK, DrainOK
<1>2. drain' = [drain EXCEPT ![d] = l] /\ UNCHANGED feed BY DEF SaveCursor
<1>3. DrainOK(Idle, feed') BY FreshOK, CapcomAssumption DEF Idle
<1>4. drain[d].pages < PageLimit => DrainOK(n, feed')
  <2>1. n \in Locals /\ n.stage = "fetch" /\ n.pages = drain[d].pages /\ n.row = drain[d].row
    BY <1>1 DEF Locals, Stages
  <2> HIDE DEF n
  <2> QED BY <1>1, <1>2, <2>1 DEF DrainOK
<1>5. DrainOK(l, feed')
  <2>1. (l = n /\ drain[d].pages < PageLimit) \/ l = Idle OBVIOUS
  <2> HIDE DEF l, n
  <2> QED BY <1>3, <1>4, <2>1
<1>6. swfCursor' \in 0..NumMessages BY <1>1 DEF SaveCursor, Consumed, Locals
<1> HIDE DEF l
<1>7. DrainsOK' /\ drain' \in [Drains -> Locals]
  BY <1>2, <1>5, DrainStepped, SameFeed DEF Types
<1> QED BY <1>6, <1>7, DrainTypes DEF Types, TypeOK, SaveCursor

LEMMA FaultTypes == ASSUME Types, NEW d \in Drains, Raises(d) \/ Killed(d) PROVE Types'
<1>1. PICK l \in {Fresh("report", 0), Idle} : drain' = [drain EXCEPT ![d] = l]
  BY DEF Raises, Killed
<1>2. DrainOK(l, feed') BY FreshOK, CapcomAssumption DEF Idle
<1>3. UNCHANGED feed BY DEF Raises, Killed
<1>4. DrainsOK' /\ drain' \in [Drains -> Locals]
  BY <1>1, <1>2, <1>3, DrainStepped, SameFeed DEF Types
<1>5. unsettled' \in BOOLEAN BY DEF Raises, Killed, Types, TypeOK
<1>6. faults' \in Nat BY DEF Raises, Killed, Types, TypeOK
<1> QED BY <1>4, <1>5, <1>6, DrainTypes DEF Types, TypeOK, Raises, Killed

LEMMA BufferTypes == ASSUME Types, Buffer PROVE Types'
<1>2. /\ load.messages \in 0..NumMessages /\ sent \in 0..NumMessages
      /\ sent < load.messages /\ sent' = sent + 1
  BY LoadType DEF Types, TypeOK, Buffer
<1>1. sent' \in 0..NumMessages BY <1>2, CapcomAssumption
<1> QED BY <1>1 DEF Types, TypeOK, Buffer, gitVars, DrainsOK

\* The collector's steps, and GitHub's.
LEMMA GitTypes ==
  ASSUME Types, UNCHANGED <<load, swfVars>>, KeysKept,
         feed' \in Seq(Row), fresh' \subseteq News, faults' \in Nat, marks' \in Nat,
         clock' \in 0..load.seconds, cursor' \in 0..MaxSecond,
         events' \subseteq Happenings, holes' \subseteq Happenings,
         run' \in RunLocals, run'.queue \subseteq events'
  PROVE  Types'
<1>1. UNCHANGED <<sent, swfCursor, drain, times, unsettled>> BY DEF swfVars
<1>2. load.seconds \in 0..MaxSecond BY LoadType DEF Types, TypeOK
<1>5. clock' \in 0..MaxSecond BY <1>2, CapcomAssumption
<1>6. drain' \in [Drains -> Locals] BY <1>1 DEF Types, TypeOK
<1>3. TypeOK' BY <1>1, <1>5, <1>6 DEF Types, TypeOK
<1>4. DrainsOK'
  <2>1. 0 \notin Rows BY DEF Rows, Types, TypeOK
  <2> QED BY <1>1, <2>1, DrainKept DEF DrainsOK, Types
<1> QED BY <1>1, <1>2, <1>3, <1>4 DEF Types

LEMMA HappensTypes == ASSUME Types, NEW i \in Items, Happens(i) PROVE Types'
<1>1. clock \in Seconds BY LoadType DEF Happens, Types, TypeOK, Seconds
<1>2. Event(i, clock) \in Happenings BY <1>1 DEF Happenings
<1> QED BY <1>2, GitTypes, SameFeed DEF Happens, Types, TypeOK

LEMMA TickTypes == ASSUME Types, Tick PROVE Types'
<1>1. clock' \in 0..load.seconds BY LoadType DEF Tick, Types, TypeOK
<1> QED BY <1>1, GitTypes, SameFeed DEF Tick, Types, TypeOK

LEMMA RunTypes ==
  ASSUME Types, UNCHANGED <<load, feed, marks, fresh, clock, events, swfVars>>,
         faults' \in Nat, cursor' \in 0..MaxSecond, holes' \subseteq Happenings,
         run' \in RunLocals, run'.queue \subseteq events
  PROVE  Types'
<1>1. clock' \in 0..load.seconds BY DEF Types, TypeOK
<1> QED BY <1>1, GitTypes, SameFeed DEF Types, TypeOK

LEMMA NoRunType == NoRun \in RunLocals /\ NoRun.queue = {}
  BY CapcomAssumption DEF NoRun, RunLocals

LEMMA BeginTypes == ASSUME Types, NEW since \in 0..clock, Begin(since) PROVE Types'
<1>1. clock \in 0..MaxSecond /\ cursor \in 0..MaxSecond /\ since \in 0..MaxSecond
  BY CapcomAssumption DEF Types, TypeOK
<1>2. NoRun \in RunLocals /\ NoRun.queue = {} BY NoRunType
<1>3. run' = [NoRun EXCEPT !.stage = "search", !.since = since, !.newest = cursor,
                           !.began = clock, !.searches = Queries]
  BY DEF Begin
<1>4. run' \in RunLocals /\ run'.queue = {}
  BY <1>1, <1>2, <1>3 DEF RunLocals
<1> QED BY <1>4, RunTypes DEF Begin, Types, TypeOK

LEMMA SearchTypes == ASSUME Types, NEW q \in Queries, Search(q) PROVE Types'
<1>1. PICK S \in SUBSET q :
        run' = [run EXCEPT !.searches = @ \ {q}, !.found = @ \cup S,
                           !.left = @ \cup (Matches(q) \ S),
                           !.stage = IF run.searches = {q} THEN "read" ELSE @]
  BY DEF Search
<1>2. S \subseteq Items /\ Matches(q) \ S \subseteq Items
  BY CapcomAssumption DEF Matches
<1> DEFINE L == Matches(q) \ S
           st == IF run.searches = {q} THEN "read" ELSE run.stage
<1>3. run \in RunLocals BY DEF Types, TypeOK
<1>4. st \in {"idle", "search", "read"} BY <1>3 DEF RunLocals
<1>5. run' = [run EXCEPT !.searches = run.searches \ {q}, !.found = run.found \cup S,
                         !.left = run.left \cup L, !.stage = st]
  BY <1>1
<1>6. L \subseteq Items BY <1>2
<1> HIDE DEF L, st
<1>7. run' \in RunLocals /\ run'.queue = run.queue
  BY <1>2, <1>3, <1>4, <1>5, <1>6 DEF RunLocals
<1> QED BY <1>7, RunTypes DEF Search, Types, TypeOK

LEMMA ReadItemTypes == ASSUME Types, NEW i \in Items, ReadItem(i) PROVE Types'
<1>1. EventsOf(i) \subseteq events BY DEF EventsOf
<1>2. run' \in RunLocals /\ run'.queue = EventsOf(i)
  BY <1>1 DEF ReadItem, RunLocals, Types, TypeOK
<1> QED BY <1>1, <1>2, RunTypes DEF ReadItem, Types, TypeOK

\* A notice of an event gets a row of its own.
LEMMA EventIsNews == \A e \in Happenings : e \in News /\ Key(e) = e /\ e # NoKey
  BY CapcomAssumption DEF Happenings, News, Key, Event

LEMMA EmitEventRow ==
  ASSUME Types, NEW e \in run.queue, ~InFeed(e), NEW r \in MayFind(e)
  PROVE  r = 0 /\ e \in News
  BY EventIsNews DEF MayFind, Threads, InFeed, Types, TypeOK, RunLocals

LEMMA EmitEventTypes == ASSUME Types, EmitEvent PROVE Types'
<1>1. PICK e \in run.queue :
        /\ run' = [run EXCEPT !.queue = @ \ {e}, !.newest = IF e.at > @ THEN e.at ELSE @]
        /\ IF InFeed(e) THEN UNCHANGED <<feed, fresh>> ELSE \E r \in MayFind(e) : Save(e, r)
  BY DEF EmitEvent
<1>2. e \in Happenings /\ e.at \in 0..MaxSecond
  BY CapcomAssumption DEF Types, TypeOK, RunLocals, Happenings, Event, Seconds
<1>3. run' \in RunLocals /\ run'.queue \subseteq events
  <2> DEFINE t == IF e.at > run.newest THEN e.at ELSE run.newest
  <2>1. t \in 0..MaxSecond BY <1>2 DEF Types, TypeOK, RunLocals
  <2>2. run' = [run EXCEPT !.queue = run.queue \ {e}, !.newest = t] BY <1>1
  <2> HIDE DEF t
  <2> QED BY <2>1, <2>2 DEF Types, TypeOK, RunLocals
<1>4. KeysKept /\ feed' \in Seq(Row) /\ fresh' \subseteq News
  <2>1. CASE InFeed(e) BY <1>1, <2>1, SameFeed DEF Types, TypeOK
  <2>2. CASE ~InFeed(e)
    <3>1. e \in News /\ Save(e, 0) BY <1>1, <2>2, EmitEventRow
    <3> QED BY <3>1, SaveRows DEF KeysKept, Types, TypeOK, Save
  <2> QED BY <2>1, <2>2
<1> QED BY <1>3, <1>4, GitTypes DEF EmitEvent, Types, TypeOK

LEMMA WriteCursorTypes == ASSUME Types, WriteCursor PROVE Types'
  BY NoRunType, RunTypes DEF WriteCursor, Types, TypeOK, RunLocals

LEMMA RunFailsTypes == ASSUME Types, RunFails PROVE Types'
  BY NoRunType, RunTypes DEF RunFails, Types, TypeOK, RunLocals

LEMMA MarkedType ==
  ASSUME NEW row \in Row, NEW mark \in Marks
  PROVE  /\ Marked(row, mark) \in Row
         /\ Marked(row, mark).key = row.key /\ Marked(row, mark).shows = row.shows
         /\ Marked(row, mark).repeated = row.repeated
         /\ mark = "unread" => Marked(row, mark).read = FALSE
                              /\ Marked(row, mark).archived = row.archived
  BY DEF Marked, Marks, Row

LEMMA MarkRows ==
  ASSUME feed \in Seq(Row), NEW ids, NEW mark \in Marks, Mark(ids, mark)
  PROVE  /\ feed' \in Seq(Row) /\ Rows' = Rows
         /\ \A s \in Rows : /\ feed'[s].key = feed[s].key /\ feed'[s].repeated = feed[s].repeated
                            /\ feed'[s].shows = feed[s].shows
                            /\ s \notin ids => feed'[s] = feed[s]
                            /\ mark = "unread" => (feed[s].read = FALSE => feed'[s].read = FALSE)
                                  /\ feed'[s].archived = feed[s].archived
<1>1. feed' = [s \in Rows |-> IF s \in ids THEN Marked(feed[s], mark) ELSE feed[s]] BY DEF Mark
<1>2. \A s \in Rows : feed[s] \in Row BY DEF Rows
<1>3. \A s \in Rows : feed'[s] \in Row BY <1>1, <1>2, MarkedType
<1>4. Rows = 1..Len(feed) /\ Len(feed) \in Nat BY DEF Rows
<1>5. feed' \in Seq(Row) BY <1>1, <1>3, <1>4
<1>6. Rows' = Rows BY <1>1 DEF Rows
<1> QED BY <1>1, <1>2, <1>5, <1>6, MarkedType

LEMMA MarkTypes ==
  ASSUME Types, NEW ids, NEW mark \in Marks, Mark(ids, mark) PROVE Types'
<1>1. feed' \in Seq(Row) /\ KeysKept BY MarkRows DEF Types, TypeOK, KeysKept
<1>2. UNCHANGED <<clock, events, cursor, run, holes, load, swfVars, faults>> BY DEF Mark, gitVars
<1>3. fresh' \subseteq News /\ marks' \in Nat BY DEF Mark, Types, TypeOK
<1>4. clock' \in 0..load.seconds BY <1>2 DEF Types, TypeOK
<1> QED BY <1>1, <1>2, <1>3, <1>4, GitTypes DEF Types, TypeOK

LEMMA TypesInit == Init => Types
<1> SUFFICES ASSUME Init PROVE Types OBVIOUS
<1>1. \A d \in Drains : drain[d] = Idle /\ DrainOK(drain[d], feed)
  BY FreshOK, CapcomAssumption DEF Init, Idle
<1>2. drain \in [Drains -> Locals] BY <1>1 DEF DrainOK, Init
<1>3. load.seconds \in 0..MaxSecond BY LoadType DEF Init
<1>4. NoRun \in RunLocals /\ NoRun.queue = {} BY NoRunType
<1>5. feed \in Seq(Row) BY DEF Init
<1>6. times \in [Messages -> Nat] BY DEF Init
<1>8. sent \in 0..NumMessages /\ swfCursor \in 0..NumMessages /\ clock \in 0..MaxSecond
      /\ cursor \in 0..MaxSecond /\ load \in Loads
  BY CapcomAssumption DEF Init
<1>9. run \in RunLocals /\ run.queue \subseteq events BY <1>4 DEF Init
<1>7. TypeOK BY <1>2, <1>5, <1>6, <1>8, <1>9 DEF Init, TypeOK
<1> QED BY <1>1, <1>3, <1>7 DEF Types, DrainsOK, Init

\* Cases of a step, for the proofs below.
LEMMA TypesNext == Types /\ [Next]_vars => Types'
<1> SUFFICES ASSUME Types, [Next]_vars PROVE Types' OBVIOUS
<1>1. CASE Next
  <2>1. ASSUME NEW d \in Drains, Start(d) \/ DrainStep(d) \/ Raises(d) \/ Killed(d) PROVE Types'
    BY <2>1, StartTypes, FetchTypes, FindTypes, StoreTypes, SaveCursorTypes, FaultTypes DEF DrainStep
  <2>2. ASSUME NEW i \in Items, Happens(i) \/ ReadItem(i) PROVE Types'
    BY <2>2, HappensTypes, ReadItemTypes
  <2>3. ASSUME NEW ids, NEW mark \in Marks, Mark(ids, mark) PROVE Types'
    BY <2>3, MarkTypes
  <2>4. ASSUME NEW since \in 0..clock, Begin(since) PROVE Types' BY <2>4, BeginTypes
  <2>5. ASSUME NEW q \in Queries, Search(q) PROVE Types' BY <2>5, SearchTypes
  <2>6. Buffer \/ Tick \/ EmitEvent \/ WriteCursor \/ RunFails => Types'
    BY BufferTypes, TickTypes, EmitEventTypes, WriteCursorTypes, RunFailsTypes
  <2> QED BY <1>1, <2>1, <2>2, <2>3, <2>4, <2>5, <2>6 DEF Next
<1>2. CASE UNCHANGED vars
  BY <1>2 DEF vars, Types, TypeOK, DrainsOK
<1> QED BY <1>1, <1>2

\* Every variable keeps its type.
THEOREM CapcomTypeCorrect == Spec => []TypeOK
<1>1. Types => TypeOK BY DEF Types
<1> QED BY <1>1, TypesInit, TypesNext, PTL DEF Spec

-----------------------------------------------------------------------------
(* The cursors cover only what the feed has had.                            *)

\* What is still to come in a run of the collector: the event waits to be
\* emitted, its item to be read, or to be searched for.
Pending(e) == e \in run.queue \/ e.item \in run.found \/ \E q \in run.searches : e.item \in q

GitCover ==
    /\ \A h \in Happenings : h.at <= cursor /\ (h \in events \/ h.at >= clock)
                             => InFeed(h) \/ h \in holes
    /\ run.stage = "read" => run.searches = {}
    /\ run.stage # "idle" =>
         /\ run.began <= clock
         /\ \A e \in events : e.at < run.began /\ e.at > run.since /\ e.at > cursor
                             => InFeed(e) \/ Pending(e) \/ e.item \in run.left

DrainCover ==
    /\ \A n \in 1..swfCursor : times[n] >= 1
    /\ \A d \in Drains : \A n \in 1..drain[d].at : times[n] >= 1

CoverInv == Types /\ GitCover /\ DrainCover

LEMMA InFeedKept ==
  ASSUME KeysKept, NEW e, InFeed(e) PROVE InFeed(e)'
  BY DEF KeysKept, InFeed

LEMMA NextKeys == ASSUME Types, [Next]_vars PROVE KeysKept
<1>1. CASE UNCHANGED feed BY <1>1, SameFeed
<1>2. ASSUME NEW d \in Drains, Store(d) PROVE KeysKept
  BY <1>2, StoreKeys, SaveRows DEF Store, KeysKept, Types, TypeOK
<1>3. ASSUME EmitEvent PROVE KeysKept
  <2>1. PICK e \in run.queue :
          IF InFeed(e) THEN UNCHANGED <<feed, fresh>> ELSE \E r \in MayFind(e) : Save(e, r)
    BY <1>3 DEF EmitEvent
  <2>2. CASE ~InFeed(e)
    <3>1. e \in News /\ Save(e, 0) BY <2>1, <2>2, EmitEventRow
    <3> QED BY <3>1, SaveRows DEF KeysKept, Types, TypeOK
  <2> QED BY <2>1, <2>2, SameFeed
<1>4. ASSUME NEW ids, NEW mark \in Marks, Mark(ids, mark) PROVE KeysKept
  BY <1>4, MarkRows DEF Types, TypeOK, KeysKept
<1>5. Next => UNCHANGED feed \/ EmitEvent \/ (\E d \in Drains : Store(d))
              \/ \E ids \in Selections, mark \in Marks : Mark(ids, mark)
  BY DEF Next, Buffer, Start, DrainStep, Fetch, Find, SaveCursor, Raises, Killed, Happens, Tick,
         Begin, Search, ReadItem, WriteCursor, RunFails
<1> QED BY <1>1, <1>2, <1>3, <1>4, <1>5 DEF vars

LEMMA DrainCovers == ASSUME CoverInv, [Next]_vars PROVE DrainCover'
<1> USE DEF CoverInv
<1>1. CASE UNCHANGED <<swfCursor, drain, times>> BY <1>1 DEF DrainCover
<1>2. ASSUME NEW d \in Drains, NEW l, drain' = [drain EXCEPT ![d] = l], UNCHANGED <<swfCursor, times>>,
             l.at \in {0, swfCursor, drain[d].at}
      PROVE  DrainCover'
  <2>1. drain'[d] = l /\ \A e \in Drains \ {d} : drain'[e] = drain[e] BY <1>2 DEF Types, TypeOK
  <2>2. \A n \in 1..l.at : times[n] >= 1 BY <1>2 DEF DrainCover
  <2> QED BY <1>2, <2>1, <2>2 DEF DrainCover
<1>3. ASSUME NEW d \in Drains, Store(d) PROVE DrainCover'
  <2> DEFINE k == drain[d].now
             l == IF k = 0 THEN Idle
                  ELSE [drain[d] EXCEPT !.stage = IF k = drain[d].upto THEN "save" ELSE "emit",
                                        !.at = k, !.now = 0, !.row = 0]
  <2>1. /\ drain[d] \in Locals /\ k \in 0..NumMessages
        /\ k # 0 => k = drain[d].at + 1
    BY <1>3, StoreKeys DEF Store
  <2>2. drain' = [drain EXCEPT ![d] = l] /\ UNCHANGED swfCursor BY <1>3 DEF Store
  <2>3. l.at = k BY <2>1 DEF Locals, Idle, Fresh
  <2>4. IF k = 0 THEN UNCHANGED times ELSE times' = [times EXCEPT ![k] = @ + 1]
    BY <1>3 DEF Store
  <2> HIDE DEF l, k
  <2>5. times \in [Messages -> Nat] /\ times' \in [Messages -> Nat]
        /\ \A n \in Messages : times'[n] >= times[n]
    <3>1. times \in [Messages -> Nat] BY DEF Types, TypeOK
    <3>2. CASE k = 0 BY <2>4, <3>1, <3>2
    <3>3. CASE k # 0 BY <2>4, <3>1, <3>3
    <3> QED BY <3>2, <3>3
  <2>6. k # 0 => times'[k] >= 1
    <3>1. times \in [Messages -> Nat] BY DEF Types, TypeOK
    <3>2. k # 0 => k \in Messages BY <2>1, CapcomAssumption DEF Messages
    <3> QED BY <2>4, <3>1, <3>2
  <2>7. drain'[d] = l /\ \A e \in Drains \ {d} : drain'[e] = drain[e] BY <2>2 DEF Types, TypeOK
  <2>8. 1..swfCursor \subseteq Messages
    BY CapcomAssumption DEF Types, TypeOK, Messages
  <2>9. \A n \in 1..swfCursor : times'[n] >= 1 BY <2>5, <2>8 DEF DrainCover
  <2>10. \A e \in Drains : \A n \in 1..drain[e].at : times'[n] >= 1
    <3> TAKE e \in Drains
    <3>1. drain[e].at \in 0..NumMessages BY DEF Types, TypeOK, Locals
    <3>2. 1..drain[e].at \subseteq Messages BY <3>1, CapcomAssumption DEF Messages
    <3> QED BY <2>5, <3>2 DEF DrainCover
  <2>11. \A n \in 1..k : times'[n] >= 1
    BY <2>1, <2>6, <2>10 DEF Locals
  <2> QED BY <2>2, <2>3, <2>7, <2>9, <2>10, <2>11 DEF DrainCover
<1>4. ASSUME NEW d \in Drains, SaveCursor(d) PROVE DrainCover'
  <2>1. drain[d] \in Locals BY DEF Types, TypeOK
  <2>2. swfCursor' = drain[d].at /\ UNCHANGED times BY <1>4 DEF SaveCursor, Consumed
  <2>3. drain'[d].at \in {0, drain[d].at} /\ \A e \in Drains \ {d} : drain'[e] = drain[e]
    BY <1>4, <2>1 DEF SaveCursor, Idle, Fresh, Locals, Types, TypeOK
  <2> QED BY <2>2, <2>3 DEF DrainCover
<1>5. ASSUME NEW d \in Drains, Start(d) \/ Fetch(d) \/ Find(d) \/ Raises(d) \/ Killed(d) PROVE DrainCover'
  <2>1. drain[d] \in Locals BY DEF Types, TypeOK
  <2>2. \E l : drain' = [drain EXCEPT ![d] = l] /\ l.at \in {0, swfCursor, drain[d].at}
    <3>1. CASE Start(d)
      <4> DEFINE l == Fresh("fetch", swfCursor)
      <4>1. l.at = swfCursor BY DEF Fresh
      <4>2. drain' = [drain EXCEPT ![d] = l] BY <3>1 DEF Start
      <4> HIDE DEF l
      <4> QED BY <4>1, <4>2
    <3>2. CASE Fetch(d)
      <4> DEFINE u == PageEnd(drain[d].at)
                 n == [drain[d] EXCEPT !.stage = "emit", !.upto = u, !.more = u < sent,
                                       !.pages = @ + 1]
                 l == IF u <= drain[d].at THEN Idle ELSE n
      <4>1. n.at = drain[d].at /\ Idle.at = 0 BY <2>1 DEF Locals, Idle, Fresh
      <4>2. drain' = [drain EXCEPT ![d] = l] BY <3>2 DEF Fetch
      <4>3. l = Idle \/ l = n OBVIOUS
      <4> HIDE DEF n, l
      <4>4. l.at \in {0, swfCursor, drain[d].at} BY <4>1, <4>3
      <4> QED BY <4>2, <4>4
    <3>3. CASE Find(d)
      <4> DEFINE k == IF drain[d].stage = "report" THEN 0 ELSE drain[d].at + 1
      <4>1. PICK r : drain' = [drain EXCEPT ![d] =
                                 [drain[d] EXCEPT !.stage = "store", !.now = k, !.row = r]]
        BY <3>3 DEF Find
      <4> DEFINE l == [drain[d] EXCEPT !.stage = "store", !.now = k, !.row = r]
      <4>2. l.at = drain[d].at BY <2>1 DEF Locals
      <4> HIDE DEF k
      <4>3. drain' = [drain EXCEPT ![d] = l] BY <4>1
      <4> HIDE DEF l
      <4> QED BY <4>2, <4>3
    <3>4. CASE Raises(d) \/ Killed(d)
      <4>1. PICK l \in {Fresh("report", 0), Idle} : drain' = [drain EXCEPT ![d] = l]
        BY <3>4 DEF Raises, Killed
      <4>2. l.at = 0 BY DEF Idle, Fresh
      <4> QED BY <4>1, <4>2
    <3> QED BY <1>5, <3>1, <3>2, <3>3, <3>4
  <2>3. UNCHANGED <<swfCursor, times>> BY <1>5 DEF Start, Fetch, Find, Raises, Killed
  <2> QED BY <1>2, <2>2, <2>3
<1>6. Next => UNCHANGED <<swfCursor, drain, times>>
              \/ \E d \in Drains : Start(d) \/ DrainStep(d) \/ Raises(d) \/ Killed(d)
  BY DEF Next, Buffer, Happens, Tick, Begin, Search, ReadItem, EmitEvent, WriteCursor, RunFails, Mark,
         swfVars
<1> QED BY <1>1, <1>3, <1>4, <1>5, <1>6 DEF vars, DrainStep

\* A happening, its second and its item.
LEMMA HappeningType ==
  \A h \in Happenings : h.at \in Nat /\ h.item \in Items
  BY DEF Happenings, Event, Seconds

LEMMA EventTypes == ASSUME Types PROVE
  /\ events \subseteq Happenings
  /\ clock \in Nat /\ cursor \in Nat
  /\ run.began \in Nat /\ run.since \in Nat /\ run.newest \in Nat
  /\ run.stage \in {"idle", "search", "read"}
  BY CapcomAssumption DEF Types, TypeOK, RunLocals

\* Rows keep their keys, so a step need only be looked at for what it does to
\* the collector and to GitHub.
GitQuiet == UNCHANGED <<clock, events, cursor, run, holes>>

LEMMA QuietCovers == ASSUME GitCover, KeysKept, GitQuiet PROVE GitCover'
<1>1. \A e : Pending(e)' = Pending(e) BY DEF GitQuiet, Pending
<1>2. \A e : InFeed(e) => InFeed(e)' BY InFeedKept
<1> QED BY <1>1, <1>2 DEF GitCover, GitQuiet

LEMMA HappensCovers == ASSUME CoverInv, KeysKept, NEW i \in Items, Happens(i) PROVE GitCover'
<1>1. \A e : Pending(e)' = Pending(e) BY DEF Happens, Pending
<1>2. \A e : InFeed(e) => InFeed(e)' BY InFeedKept
<1>3. \A e \in events' : e \in events \/ e.at = clock BY DEF Happens, Event
<1>4. UNCHANGED <<clock, cursor, run, holes>> BY DEF Happens
<1>5. \A h \in Happenings : h \in events' => h \in events \/ h.at >= clock
  BY <1>3, HappeningType, EventTypes DEF CoverInv
<1>6. \A e \in events' : e.at < run.began /\ run.began <= clock => e \in events
  BY <1>3, EventTypes DEF CoverInv
<1> QED BY <1>1, <1>2, <1>4, <1>5, <1>6 DEF CoverInv, GitCover

LEMMA TickCovers == ASSUME CoverInv, KeysKept, Tick PROVE GitCover'
<1>1. \A e : Pending(e)' = Pending(e) BY DEF Tick, Pending
<1>2. \A e : InFeed(e) => InFeed(e)' BY InFeedKept
<1>3. UNCHANGED <<events, cursor, run, holes>> /\ clock' = clock + 1 BY DEF Tick
<1>4. clock \in Nat /\ run.began \in Nat BY EventTypes DEF CoverInv
<1>5. \A h \in Happenings : h.at >= clock' => h.at >= clock BY <1>3, <1>4, HappeningType
<1>6. run.began <= clock => run.began <= clock' BY <1>3, <1>4
<1> QED BY <1>1, <1>2, <1>3, <1>5, <1>6 DEF CoverInv, GitCover

\* A step of a run: what was still to come is in the feed now, or left out by
\* a search, or still to come.
LEMMA RunCovers ==
  ASSUME CoverInv, KeysKept, UNCHANGED <<clock, events, cursor, holes>>,
         run.stage # "idle",
         run'.began = run.began, run'.since = run.since, run.left \subseteq run'.left,
         run'.stage = "read" => run'.searches = {},
         \A e \in events : Pending(e) /\ e.at > run.since =>
                             InFeed(e)' \/ Pending(e)' \/ e.item \in run'.left
  PROVE  GitCover'
<1>1. \A e : InFeed(e) => InFeed(e)' BY InFeedKept
<1> QED BY <1>1 DEF CoverInv, GitCover

LEMMA BeginCovers ==
  ASSUME CoverInv, KeysKept, NEW since \in 0..clock, Begin(since) PROVE GitCover'
<1>1. \A e : InFeed(e) => InFeed(e)' BY InFeedKept
<1>2. run' = [NoRun EXCEPT !.stage = "search", !.since = since, !.newest = cursor,
                           !.began = clock, !.searches = Queries]
  BY DEF Begin
<1>3. run'.stage = "search" /\ run'.searches = Queries /\ run'.began = clock
  BY <1>2 DEF NoRun
<1>4. UNCHANGED <<clock, events, cursor, holes>> BY DEF Begin
<1>5. \A e \in events : Pending(e)'
  BY <1>3, <1>4, HappeningType, EventTypes, CapcomAssumption DEF CoverInv, Pending
<1>6. clock \in Nat BY EventTypes DEF CoverInv
<1> QED BY <1>1, <1>3, <1>4, <1>5, <1>6 DEF CoverInv, GitCover

LEMMA SearchCovers == ASSUME CoverInv, KeysKept, NEW q \in Queries, Search(q) PROVE GitCover'
<1>1. PICK S \in SUBSET q :
        run' = [run EXCEPT !.searches = @ \ {q}, !.found = @ \cup S,
                           !.left = @ \cup (Matches(q) \ S),
                           !.stage = IF run.searches = {q} THEN "read" ELSE @]
  BY DEF Search
<1>2. run \in RunLocals /\ run.stage = "search" BY DEF CoverInv, Types, TypeOK, Search
<1> DEFINE L == Matches(q) \ S
           st == IF run.searches = {q} THEN "read" ELSE run.stage
<1>3. run' = [run EXCEPT !.searches = run.searches \ {q}, !.found = run.found \cup S,
                         !.left = run.left \cup L, !.stage = st]
  BY <1>1
<1> HIDE DEF L, st
<1>4. /\ run'.searches = run.searches \ {q} /\ run'.found = run.found \cup S
      /\ run'.left = run.left \cup L /\ run'.stage = st /\ run'.queue = run.queue
      /\ run'.began = run.began /\ run'.since = run.since
  BY <1>2, <1>3 DEF RunLocals
<1>5. run'.stage = "read" => run'.searches = {}
  BY <1>2, <1>4 DEF st
<1>6. \A e \in events : Pending(e) /\ e.at > run.since => Pending(e)' \/ e.item \in run'.left
  <2> TAKE e \in events
  <2> SUFFICES ASSUME Pending(e), e.at > run.since
      PROVE  Pending(e)' \/ e.item \in run'.left
      OBVIOUS
  <2>1. CASE e.item \in q
    <3>1. e.item \in Matches(q)
      <4>1. e.at \in Nat /\ run.since \in Nat BY HappeningType, EventTypes DEF CoverInv
      <4>2. e.at >= run.since BY <4>1
      <4> QED BY <2>1, <4>2 DEF Matches
    <3>2. e.item \in S \/ e.item \in L BY <3>1 DEF L
    <3> QED BY <1>4, <3>2 DEF Pending
  <2>2. CASE e.item \notin q BY <1>4, <2>2 DEF Pending
  <2> QED BY <2>1, <2>2
<1>7. UNCHANGED <<clock, events, cursor, holes>> BY DEF Search
<1> QED BY <1>2, <1>4, <1>5, <1>6, <1>7, RunCovers

LEMMA ReadItemCovers == ASSUME CoverInv, KeysKept, NEW i \in Items, ReadItem(i) PROVE GitCover'
<1>1. run \in RunLocals /\ run.stage = "read" /\ run.queue = {}
  BY DEF CoverInv, Types, TypeOK, ReadItem
<1>2. run' = [run EXCEPT !.found = run.found \ {i}, !.queue = EventsOf(i)] BY DEF ReadItem
<1>3. /\ run'.found = run.found \ {i} /\ run'.queue = EventsOf(i)
      /\ run'.searches = run.searches /\ run'.left = run.left /\ run'.stage = run.stage
      /\ run'.began = run.began /\ run'.since = run.since
  BY <1>1, <1>2 DEF RunLocals
<1>4. \A e \in events : Pending(e) /\ e.at > run.since => Pending(e)'
  BY <1>1, <1>3 DEF Pending, EventsOf
<1>5. run.searches = {} BY <1>1 DEF CoverInv, GitCover
<1>6. UNCHANGED <<clock, events, cursor, holes>> BY DEF ReadItem
<1> QED BY <1>1, <1>3, <1>4, <1>5, <1>6, RunCovers

LEMMA EmitEventCovers == ASSUME CoverInv, KeysKept, EmitEvent PROVE GitCover'
<1>1. PICK e \in run.queue :
        /\ run' = [run EXCEPT !.queue = @ \ {e}, !.newest = IF e.at > @ THEN e.at ELSE @]
        /\ IF InFeed(e) THEN UNCHANGED <<feed, fresh>> ELSE \E r \in MayFind(e) : Save(e, r)
  BY DEF EmitEvent
<1>2. run \in RunLocals BY DEF CoverInv, Types, TypeOK
<1>3. InFeed(e)'
  <2>1. CASE InFeed(e) BY <2>1, InFeedKept
  <2>2. CASE ~InFeed(e)
    <3>1. e \in News /\ Save(e, 0) BY <1>1, <2>2, EmitEventRow DEF CoverInv
    <3>2. Key(e) = e BY <1>1, EventIsNews DEF CoverInv, Types, TypeOK
    <3>3. /\ Len(feed) + 1 \in Rows'
          /\ feed'[Len(feed) + 1] = NewRow(e)
      BY <3>1, SaveRows DEF CoverInv, Types, TypeOK
    <3> QED BY <3>2, <3>3 DEF InFeed, NewRow, Rows
  <2> QED BY <2>1, <2>2
<1> DEFINE t == IF e.at > run.newest THEN e.at ELSE run.newest
<1>4. run' = [run EXCEPT !.queue = run.queue \ {e}, !.newest = t] BY <1>1
<1> HIDE DEF t
<1>5. /\ run'.found = run.found /\ run'.queue = run.queue \ {e}
      /\ run'.searches = run.searches /\ run'.left = run.left /\ run'.stage = run.stage
      /\ run'.began = run.began /\ run'.since = run.since
  BY <1>2, <1>4 DEF RunLocals
<1>6. \A v \in events : Pending(v) => InFeed(v)' \/ Pending(v)'
  BY <1>3, <1>5 DEF Pending
<1>7. UNCHANGED <<clock, events, cursor, holes>> BY DEF EmitEvent
<1>8. run'.stage = "read" => run'.searches = {} BY <1>5 DEF CoverInv, GitCover
<1>9. CASE run.stage # "idle" BY <1>5, <1>6, <1>7, <1>8, <1>9, RunCovers
<1>10. CASE run.stage = "idle"
  <2>1. \A h : InFeed(h) => InFeed(h)' BY InFeedKept
  <2> QED BY <1>5, <1>7, <1>8, <1>10, <2>1 DEF CoverInv, GitCover
<1> QED BY <1>9, <1>10

LEMMA WriteCursorCovers == ASSUME CoverInv, KeysKept, WriteCursor PROVE GitCover'
<1>1. /\ run.stage = "read" /\ run.found = {} /\ run.queue = {} /\ run.searches = {}
      /\ run.began <= clock
  BY DEF WriteCursor, CoverInv, GitCover
<1>2. /\ cursor' = run.newest /\ UNCHANGED <<clock, events>> /\ run'.stage = "idle"
      /\ holes' = holes \cup {e \in Happenings : PassedOver(e)}
  BY DEF WriteCursor, NoRun
<1>3. \A e : InFeed(e) => InFeed(e)' BY InFeedKept
<1>4. ASSUME NEW h \in Happenings, h.at <= cursor', h \in events \/ h.at >= clock
      PROVE  InFeed(h) \/ h \in holes'
  <2>1. /\ h.at \in Nat /\ clock \in Nat /\ cursor \in Nat
        /\ run.began \in Nat /\ run.since \in Nat
    BY HappeningType, EventTypes DEF CoverInv
  <2>2. PassedOver(h) => h \in holes' BY <1>2
  <2>3. CASE h.at >= run.began BY <1>2, <1>4, <2>2, <2>3 DEF PassedOver
  <2>4. CASE h.at <= cursor BY <1>2, <1>4, <2>4 DEF CoverInv, GitCover
  <2>5. CASE h.at < run.began /\ h.at > cursor
    <3>1. h \in events BY <1>1, <1>4, <2>1, <2>5
    <3>2. CASE h.at <= run.since BY <1>2, <1>4, <2>1, <2>2, <2>5, <3>2 DEF PassedOver
    <3>3. CASE h.at > run.since
      <4>1. InFeed(h) \/ Pending(h) \/ h.item \in run.left
        BY <1>1, <2>5, <3>1, <3>3 DEF CoverInv, GitCover
      <4>2. ~Pending(h) BY <1>1 DEF Pending
      <4> QED BY <1>2, <1>4, <2>2, <4>1, <4>2 DEF PassedOver
    <3> QED BY <2>1, <3>2, <3>3
  <2> QED BY <2>1, <2>3, <2>4, <2>5
<1> QED BY <1>2, <1>3, <1>4 DEF GitCover

LEMMA RunFailsCovers == ASSUME CoverInv, KeysKept, RunFails PROVE GitCover'
<1>1. UNCHANGED <<clock, events, cursor, holes>> /\ run'.stage = "idle" BY DEF RunFails, NoRun
<1>2. \A e : InFeed(e) => InFeed(e)' BY InFeedKept
<1> QED BY <1>1, <1>2 DEF CoverInv, GitCover

LEMMA GitCovers == ASSUME CoverInv, [Next]_vars PROVE GitCover'
<1>1. KeysKept BY NextKeys DEF CoverInv
<1>2. GitQuiet => GitCover' BY <1>1, QuietCovers DEF CoverInv
<1>3. CASE UNCHANGED vars BY <1>2, <1>3 DEF vars, GitQuiet
<1>4. ASSUME NEW d \in Drains, Start(d) \/ DrainStep(d) \/ Raises(d) \/ Killed(d) PROVE GitQuiet
  BY <1>4 DEF Start, DrainStep, Fetch, Find, Store, SaveCursor, Raises, Killed, gitVars, GitQuiet
<1>5. Buffer => GitQuiet BY DEF Buffer, gitVars, GitQuiet
<1>6. ASSUME NEW ids, NEW mark \in Marks, Mark(ids, mark) PROVE GitQuiet
  BY <1>6 DEF Mark, gitVars, GitQuiet
<1>7. ASSUME NEW i \in Items, Happens(i) \/ ReadItem(i) PROVE GitCover'
  BY <1>1, <1>7, HappensCovers, ReadItemCovers
<1>8. ASSUME NEW since \in 0..clock, Begin(since) PROVE GitCover' BY <1>1, <1>8, BeginCovers
<1>9. ASSUME NEW q \in Queries, Search(q) PROVE GitCover' BY <1>1, <1>9, SearchCovers
<1>10. Tick \/ EmitEvent \/ WriteCursor \/ RunFails => GitCover'
  BY <1>1, TickCovers, EmitEventCovers, WriteCursorCovers, RunFailsCovers
<1> QED BY <1>2, <1>3, <1>4, <1>5, <1>6, <1>7, <1>8, <1>9, <1>10 DEF Next

LEMMA CoverInit == Init => GitCover /\ DrainCover
<1> SUFFICES ASSUME Init PROVE GitCover /\ DrainCover OBVIOUS
<1>1. run.stage = "idle" BY DEF Init, NoRun
<1>2. \A h \in Happenings : ~(h.at <= cursor) BY DEF Init, Happenings, Event, Seconds
<1>3. \A d \in Drains : drain[d].at = 0 BY DEF Init, Idle, Fresh
<1>4. 1..0 = {} OBVIOUS
<1>5. DrainCover BY <1>3, <1>4 DEF Init, DrainCover
<1> QED BY <1>1, <1>2, <1>5 DEF GitCover

\* No cursor, the drains' or the collector's, covers what the feed has not had,
\* but for the holes the collector is known to leave.
THEOREM CapcomCursorsCover == Spec => []CursorsCover
<1>1. Init => CoverInv BY TypesInit, CoverInit DEF CoverInv
<1>2. CoverInv /\ [Next]_vars => CoverInv'
  BY TypesNext, GitCovers, DrainCovers DEF CoverInv
<1>3. CoverInv => CursorsCover
  BY EventTypes DEF CoverInv, GitCover, DrainCover, CursorsCover
<1> QED BY <1>1, <1>2, <1>3, PTL DEF Spec

-----------------------------------------------------------------------------
(* News that no one has marked is told by an unread row.                    *)

\* A row's key is the one of the notice it shows, and messages that report a
\* paused task share theirs with nothing else.
RowKeys == \A r \in Rows : feed[r].key = Key(feed[r].shows)
UnreadInv == Types /\ RowKeys /\ NewsIsUnread

Told(x, row) == x \in About(row) /\ ~row.read /\ (Hidden(x) \/ ~row.archived)

LEMMA ToldRows == NewsIsUnread <=> \A x \in fresh : \E r \in Rows : Told(x, feed[r])
  BY DEF NewsIsUnread, Told

LEMMA QuietAlone ==
  ASSUME NEW x \in News, NEW y \in News, Key(x) = Key(y), Key(x) # NoKey, Hidden(x)
  PROVE  Hidden(y)
<1>1. x.stream = "swf" /\ x.n \in Quiet /\ Key(x) = KeyOf[x.n] BY DEF Hidden, Key
<1>2. CASE y \in Happenings
  <2>1. Key(y) = y BY <1>2, EventIsNews
  <2>2. x.n \in 0..NumMessages
    <3>1. x.n \in Messages BY <1>1, CapcomAssumption
    <3>2. NumMessages \in Nat BY CapcomAssumption
    <3> QED BY <3>1, <3>2 DEF Messages
  <2> QED BY <1>1, <1>2, <2>1, <2>2, CapcomAssumption
<1>3. CASE y \notin Happenings
  <2>1. PICK n \in 0..NumMessages : y = Message(n) BY <1>3 DEF News
  <2>2. y.stream = "swf" /\ y.n = n BY <2>1 DEF Message
  <2>3. KeyOf[n] = KeyOf[x.n] /\ KeyOf[x.n] # NoKey BY <1>1, <2>2 DEF Key
  <2>4. n = x.n BY <1>1, <2>3, CapcomAssumption
  <2> QED BY <1>1, <2>2, <2>4 DEF Hidden
<1> QED BY <1>2, <1>3

\* A notice saved tells of itself, and a row it is threaded onto goes on
\* telling of what it told of.
LEMMA SaveUnread ==
  ASSUME UnreadInv, NEW x \in News, NEW r \in Rows \cup {0}, Save(x, r),
         r # 0 => feed[r].key = Key(x) /\ feed[r].key # NoKey
  PROVE  RowKeys' /\ NewsIsUnread'
<1>1. feed \in Seq(Row) /\ \A s \in Rows : feed[s] \in Row
  BY DEF UnreadInv, Types, TypeOK, Rows
<1>2. Rows \subseteq Rows' /\ \A s \in Rows : s # r => feed'[s] = feed[s]
  BY <1>1, SaveRows
<1>3. fresh' = fresh \cup {x} BY DEF Save
<1>4. CASE r = 0
  <2> DEFINE k == Len(feed) + 1
  <2>1. Rows' = Rows \cup {k} /\ feed'[k] = NewRow(x) /\ \A s \in Rows : feed'[s] = feed[s]
    <3>1. 0 \notin Rows BY <1>1 DEF Rows
    <3>2. Rows' = Rows \cup {k} /\ feed'[k] = NewRow(x) BY <1>1, <1>4, SaveRows
    <3> QED BY <1>2, <1>4, <3>1, <3>2
  <2>2. NewRow(x).key = Key(x) /\ NewRow(x).shows = x /\ NewRow(x).read = FALSE
        /\ NewRow(x).archived = Hidden(x)
    BY DEF NewRow
  <2>3. Told(x, NewRow(x)) BY <2>2 DEF Told, About
  <2> HIDE DEF k
  <2>4. \A y \in fresh' : \E s \in Rows' : Told(y, feed'[s])
    BY <1>3, <2>1, <2>3, ToldRows DEF UnreadInv
  <2>5. NewsIsUnread' BY <2>4 DEF NewsIsUnread, Told
  <2>6. RowKeys' BY <2>1, <2>2 DEF UnreadInv, RowKeys
  <2> QED BY <2>5, <2>6
<1>5. CASE r # 0
  <2> DEFINE w == Threaded(feed[r], x)
  <2>1. Rows' = Rows /\ feed'[r] = w /\ r \in Rows BY <1>1, <1>5, SaveRows
  <2>2. w.key = Key(x) /\ w.shows = x /\ w.read = FALSE /\ w.archived = Hidden(x)
    BY <1>1, <1>5 DEF Threaded, Row
  <2> HIDE DEF w
  <2>3. Told(x, w) BY <2>2 DEF Told, About
  <2>4. ASSUME NEW y \in News, Told(y, feed[r]) PROVE Told(y, w)
    <3>1. Key(y) = Key(x) /\ Key(x) # NoKey
      <4>1. feed[r].shows = y \/ Key(y) = feed[r].key BY <2>4 DEF Told, About
      <4>2. feed[r].key = Key(feed[r].shows) BY <2>1 DEF UnreadInv, RowKeys
      <4> QED BY <1>5, <4>1, <4>2
    <3>2. Hidden(x) => Hidden(y) BY <3>1, QuietAlone
    <3> QED BY <2>2, <3>1, <3>2 DEF Told, About
  <2>5. fresh \subseteq News BY DEF UnreadInv, Types, TypeOK
  <2>6. \A y \in fresh' : \E s \in Rows' : Told(y, feed'[s])
    <3> TAKE y \in fresh'
    <3>1. CASE y = x BY <2>1, <2>3, <3>1
    <3>2. CASE y # x
      <4>1. PICK s \in Rows : Told(y, feed[s]) BY <1>3, <3>2, ToldRows DEF UnreadInv
      <4>2. CASE s = r BY <1>3, <2>1, <2>4, <2>5, <3>2, <4>1, <4>2
      <4>3. CASE s # r BY <1>2, <4>1, <4>3
      <4> QED BY <4>2, <4>3
    <3> QED BY <3>1, <3>2
  <2>7. NewsIsUnread' BY <2>6 DEF NewsIsUnread, Told
  <2>8. RowKeys' BY <1>2, <2>1, <2>2 DEF UnreadInv, RowKeys
  <2> QED BY <2>7, <2>8
<1> QED BY <1>4, <1>5

LEMMA MarkUnread ==
  ASSUME UnreadInv, NEW ids, NEW mark \in Marks, Mark(ids, mark)
  PROVE  RowKeys' /\ NewsIsUnread'
<1>1. feed \in Seq(Row) /\ \A s \in Rows : feed[s] \in Row
  BY DEF UnreadInv, Types, TypeOK, Rows
<1>2. Rows' = Rows BY <1>1, MarkRows
<1>3. \A s \in Rows : /\ feed'[s].key = feed[s].key /\ feed'[s].shows = feed[s].shows
                      /\ s \notin ids => feed'[s] = feed[s]
                      /\ mark = "unread" => (feed[s].read = FALSE => feed'[s].read = FALSE)
                            /\ feed'[s].archived = feed[s].archived
  BY <1>1, MarkRows
<1>4. RowKeys' BY <1>2, <1>3 DEF UnreadInv, RowKeys
<1>5. fresh' = IF mark = "unread" THEN fresh
               ELSE fresh \ UNION {About(feed[s]) : s \in ids}
  BY DEF Mark
<1>6. \A y \in fresh' : \E s \in Rows' : Told(y, feed'[s])
  <2> TAKE y \in fresh'
  <2>1. PICK s \in Rows : Told(y, feed[s]) BY <1>5, ToldRows DEF UnreadInv
  <2>2. CASE mark = "unread"
    <3>1. feed[s].read = FALSE BY <1>1, <2>1 DEF Told, Row
    <3>2. Told(y, feed'[s]) BY <1>3, <2>1, <2>2, <3>1 DEF Told, About
    <3> QED BY <1>2, <3>2
  <2>3. CASE mark # "unread"
    <3>1. s \notin ids BY <1>5, <2>1, <2>3 DEF Told
    <3> QED BY <1>2, <1>3, <2>1, <3>1
  <2> QED BY <2>2, <2>3
<1>7. NewsIsUnread' BY <1>6 DEF NewsIsUnread, Told
<1> QED BY <1>4, <1>7

LEMMA UnreadKept == ASSUME UnreadInv, UNCHANGED <<feed, fresh>> PROVE RowKeys' /\ NewsIsUnread'
  BY DEF UnreadInv, RowKeys, NewsIsUnread, Rows

LEMMA UnreadNext == ASSUME UnreadInv, [Next]_vars PROVE RowKeys' /\ NewsIsUnread'
<1>1. CASE UNCHANGED <<feed, fresh>> BY <1>1, UnreadKept
<1>2. ASSUME NEW d \in Drains, Store(d) PROVE RowKeys' /\ NewsIsUnread'
  <2>1. /\ Message(drain[d].now) \in News /\ drain[d].row \in Rows \cup {0}
        /\ drain[d].row # 0 => /\ feed[drain[d].row].key = Key(Message(drain[d].now))
                               /\ feed[drain[d].row].key # NoKey
        /\ Save(Message(drain[d].now), drain[d].row)
    BY <1>2, StoreKeys DEF Store, UnreadInv
  <2> QED BY <2>1, SaveUnread
<1>3. ASSUME EmitEvent PROVE RowKeys' /\ NewsIsUnread'
  <2>1. PICK e \in run.queue :
          IF InFeed(e) THEN UNCHANGED <<feed, fresh>> ELSE \E r \in MayFind(e) : Save(e, r)
    BY <1>3 DEF EmitEvent
  <2>2. CASE ~InFeed(e)
    <3>1. e \in News /\ Save(e, 0) BY <2>1, <2>2, EmitEventRow DEF UnreadInv
    <3> QED BY <3>1, SaveUnread
  <2> QED BY <2>1, <2>2, UnreadKept
<1>4. ASSUME NEW ids, NEW mark \in Marks, Mark(ids, mark) PROVE RowKeys' /\ NewsIsUnread'
  BY <1>4, MarkUnread
<1>5. Next => UNCHANGED <<feed, fresh>> \/ EmitEvent \/ (\E d \in Drains : Store(d))
              \/ \E ids \in Selections, mark \in Marks : Mark(ids, mark)
  BY DEF Next, Buffer, Start, DrainStep, Fetch, Find, SaveCursor, Raises, Killed, Happens, Tick,
         Begin, Search, ReadItem, WriteCursor, RunFails
<1> QED BY <1>1, <1>2, <1>3, <1>4, <1>5 DEF vars

\* News that no one has marked since it was emitted is told by an unread row,
\* for any number of messages, keys and items, and whatever the emitters and the
\* user do between each other's steps.
THEOREM CapcomNewsIsUnread == Spec => []NewsIsUnread
<1>1. Init => UnreadInv
  <2>1. Init => RowKeys /\ NewsIsUnread BY DEF Init, RowKeys, Rows, NewsIsUnread
  <2> QED BY <2>1, TypesInit DEF UnreadInv
<1>2. UnreadInv /\ [Next]_vars => UnreadInv' BY TypesNext, UnreadNext DEF UnreadInv
<1>3. UnreadInv => NewsIsUnread BY DEF UnreadInv
<1> QED BY <1>1, <1>2, <1>3, PTL DEF Spec

-----------------------------------------------------------------------------
(* No GitHub event twice, and no SWF notice without a cut page or an overlap. *)

NoneAfter(c, t) == \A n \in Messages : n > c => t[n] = 0

SwfOnce == ~unsettled =>
    /\ \A d \in Drains : \A e \in Drains \ {d} : drain[d].stage # "idle" => drain[e].stage = "idle"
    /\ \A d \in Drains : /\ Reading(drain[d]) => NoneAfter(drain[d].at, times)
                         /\ drain[d].stage = "fetch" => drain[d].at = swfCursor
    /\ (\A d \in Drains : ~Reading(drain[d])) => NoneAfter(swfCursor, times)
    /\ \A n \in Messages : times[n] <= 1

EventOnce == \A r \in Rows : feed[r].key \in Happenings =>
    ~feed[r].repeated /\ \A s \in Rows : feed[s].key = feed[r].key => s = r

OnceInv == Types /\ SwfOnce /\ EventOnce

\* One drain steps while the others are idle.
LEMMA OneSteps ==
  ASSUME Types, NEW d \in Drains, NEW l, drain' = [drain EXCEPT ![d] = l],
         \A e \in Drains \ {d} : drain[e].stage = "idle",
         IF Reading(l) THEN NoneAfter(l.at, times') ELSE NoneAfter(swfCursor', times'),
         l.stage = "fetch" => l.at = swfCursor',
         \A n \in Messages : times'[n] <= 1
  PROVE  SwfOnce'
<1>1. drain'[d] = l /\ \A e \in Drains \ {d} : drain'[e].stage = "idle" BY DEF Types, TypeOK
<1>2. \A e \in Drains \ {d} : ~Reading(drain'[e]) BY <1>1 DEF Reading
<1>3. \A e, f \in Drains : e # f => drain'[e].stage = "idle" \/ drain'[f].stage = "idle" BY <1>1
<1>4. \A e \in Drains : /\ Reading(drain'[e]) => NoneAfter(drain'[e].at, times')
                        /\ drain'[e].stage = "fetch" => drain'[e].at = swfCursor'
  <2> TAKE e \in Drains
  <2>1. CASE e = d BY <1>1, <2>1
  <2>2. CASE e # d BY <1>1, <1>2, <2>2
  <2> QED BY <2>1, <2>2
<1>5. (\A e \in Drains : ~Reading(drain'[e])) => NoneAfter(swfCursor', times') BY <1>1
<1> QED BY <1>3, <1>4, <1>5 DEF SwfOnce, Reading

LEMMA OthersIdle ==
  ASSUME SwfOnce, ~unsettled, NEW d \in Drains, drain[d].stage # "idle"
  PROVE  \A e \in Drains \ {d} : drain[e].stage = "idle"
  BY DEF SwfOnce

LEMMA StartOnce == ASSUME OnceInv, NEW d \in Drains, Start(d) PROVE SwfOnce'
<1> SUFFICES ASSUME ~unsettled' PROVE SwfOnce' BY DEF SwfOnce
<1> USE DEF OnceInv
<1> DEFINE l == Fresh("fetch", swfCursor)
<1>1. /\ ~unsettled /\ \A e \in Drains : drain[e].stage = "idle"
      /\ drain' = [drain EXCEPT ![d] = l] /\ UNCHANGED <<swfCursor, times>>
  BY DEF Start
<1>2. l.stage = "fetch" /\ l.at = swfCursor BY DEF Fresh
<1> HIDE DEF l
<1>3. NoneAfter(swfCursor, times) /\ \A n \in Messages : times[n] <= 1
  BY <1>1 DEF SwfOnce, Reading
<1>4. NoneAfter(l.at, times') BY <1>1, <1>2, <1>3 DEF NoneAfter
<1>5. Reading(l) BY <1>2 DEF Reading
<1> QED BY <1>1, <1>2, <1>3, <1>4, <1>5, OneSteps

LEMMA FetchOnce == ASSUME OnceInv, NEW d \in Drains, Fetch(d) PROVE SwfOnce'
<1> SUFFICES ASSUME ~unsettled' PROVE SwfOnce' BY DEF SwfOnce
<1> USE DEF OnceInv
<1> DEFINE u == PageEnd(drain[d].at)
           n == [drain[d] EXCEPT !.stage = "emit", !.upto = u, !.more = u < sent, !.pages = @ + 1]
           l == IF u <= drain[d].at THEN Idle ELSE n
<1>1. ~unsettled /\ drain[d].stage = "fetch" /\ UNCHANGED <<swfCursor, times>>
      /\ drain' = [drain EXCEPT ![d] = l]
  BY DEF Fetch
<1>2. drain[d] \in Locals BY DEF Types, TypeOK
<1>3. Idle.stage = "idle" /\ n.stage = "emit" /\ n.at = drain[d].at BY <1>2 DEF Idle, Fresh, Locals
<1>4. l = Idle \/ l = n OBVIOUS
<1> HIDE DEF l, n
<1>5. NoneAfter(swfCursor, times) /\ drain[d].at = swfCursor /\ \A m \in Messages : times[m] <= 1
  BY <1>1 DEF SwfOnce, Reading
<1>6. l.stage # "fetch" /\ (Reading(l) => l.at = swfCursor) BY <1>3, <1>4, <1>5 DEF Reading
<1>7. NoneAfter(swfCursor', times') /\ (Reading(l) => NoneAfter(l.at, times'))
  BY <1>1, <1>5, <1>6 DEF NoneAfter
<1>8. \A e \in Drains \ {d} : drain[e].stage = "idle" BY <1>1, OthersIdle
<1> QED BY <1>1, <1>5, <1>6, <1>7, <1>8, OneSteps

LEMMA FindOnce == ASSUME OnceInv, NEW d \in Drains, Find(d) PROVE SwfOnce'
<1> SUFFICES ASSUME ~unsettled' PROVE SwfOnce' BY DEF SwfOnce
<1> USE DEF OnceInv
<1> DEFINE k == IF drain[d].stage = "report" THEN 0 ELSE drain[d].at + 1
<1>1. PICK r : drain' = [drain EXCEPT ![d] = [drain[d] EXCEPT !.stage = "store", !.now = k, !.row = r]]
  BY DEF Find
<1>2. /\ drain[d].stage \in {"emit", "report"} /\ ~unsettled /\ UNCHANGED <<swfCursor, times>>
  BY DEF Find
<1>3. drain[d] \in Locals BY DEF Types, TypeOK
<1> DEFINE l == [drain[d] EXCEPT !.stage = "store", !.now = k, !.row = r]
<1>4. drain[d].at \in Nat /\ k = (IF drain[d].stage = "report" THEN 0 ELSE drain[d].at + 1)
  BY <1>3 DEF Locals
<1> HIDE DEF k
<1>5. l.stage = "store" /\ l.now = k /\ l.at = drain[d].at BY <1>3 DEF Locals
<1>6. drain' = [drain EXCEPT ![d] = l] BY <1>1
<1> HIDE DEF l
<1>7. Reading(l) <=> drain[d].stage = "emit" BY <1>2, <1>4, <1>5 DEF Reading
<1>8. \A e \in Drains \ {d} : drain[e].stage = "idle" BY <1>2, OthersIdle
<1>9. \A m \in Messages : times[m] <= 1 BY <1>2 DEF SwfOnce
<1>10. CASE drain[d].stage = "emit"
  <2>1. NoneAfter(drain[d].at, times) BY <1>2, <1>10 DEF SwfOnce, Reading
  <2>2. NoneAfter(l.at, times') BY <1>2, <1>5, <2>1 DEF NoneAfter
  <2> QED BY <1>2, <1>5, <1>6, <1>7, <1>8, <1>9, <1>10, <2>2, OneSteps
<1>11. CASE drain[d].stage = "report"
  <2>1. \A e \in Drains : ~Reading(drain[e]) BY <1>8, <1>11 DEF Reading
  <2>2. NoneAfter(swfCursor', times') BY <1>2, <2>1 DEF SwfOnce, NoneAfter
  <2> QED BY <1>2, <1>5, <1>6, <1>7, <1>8, <1>9, <1>11, <2>2, OneSteps
<1> QED BY <1>2, <1>10, <1>11

LEMMA StoreOnce == ASSUME OnceInv, NEW d \in Drains, Store(d) PROVE SwfOnce'
<1> SUFFICES ASSUME ~unsettled' PROVE SwfOnce' BY DEF SwfOnce
<1> USE DEF OnceInv
<1> DEFINE k == drain[d].now
           n == [drain[d] EXCEPT !.stage = IF k = drain[d].upto THEN "save" ELSE "emit",
                                 !.at = k, !.now = 0, !.row = 0]
           l == IF k = 0 THEN Idle ELSE n
<1>1. /\ drain[d].stage = "store" /\ ~unsettled /\ UNCHANGED swfCursor
      /\ drain' = [drain EXCEPT ![d] = l]
      /\ IF k = 0 THEN UNCHANGED times ELSE times' = [times EXCEPT ![k] = @ + 1]
  BY DEF Store
<1>2. drain[d] \in Locals /\ k \in 0..NumMessages /\ (k # 0 => k = drain[d].at + 1)
  BY <1>1, StoreKeys
<1>3. Idle.stage = "idle" /\ n.stage \in {"save", "emit"} /\ n.at = k
  BY <1>2 DEF Idle, Fresh, Locals
<1>4. l = IF k = 0 THEN Idle ELSE n OBVIOUS
<1>5. \A e \in Drains \ {d} : drain[e].stage = "idle" BY <1>1, OthersIdle
<1>6. \A m \in Messages : times[m] <= 1 BY <1>1 DEF SwfOnce
<1> HIDE DEF k, n, l
<1>7. CASE k = 0
  <2>1. ~Reading(l) /\ l.stage # "fetch" BY <1>3, <1>4, <1>7 DEF Reading
  <2>2. \A e \in Drains : ~Reading(drain[e]) BY <1>1, <1>5, <1>7 DEF Reading, k
  <2>3. NoneAfter(swfCursor', times') BY <1>1, <1>7, <2>2 DEF SwfOnce, NoneAfter
  <2> QED BY <1>1, <1>5, <1>6, <1>7, <2>1, <2>3, OneSteps
<1>8. CASE k # 0
  <2>1. Reading(l) /\ l.stage # "fetch" /\ l.at = k BY <1>3, <1>4, <1>8 DEF Reading
  <2>2. NoneAfter(drain[d].at, times) BY <1>1, <1>8 DEF SwfOnce, Reading, k
  <2>3. times \in [Messages -> Nat] /\ drain[d].at \in Nat /\ Messages \subseteq Nat
    BY <1>2 DEF Types, TypeOK, Locals, Messages
  <2>4. \A m \in Messages : m > k => times'[m] = 0
    BY <1>1, <1>2, <1>8, <2>2, <2>3 DEF NoneAfter
  <2>5. NoneAfter(l.at, times') BY <2>1, <2>4 DEF NoneAfter
  <2>6. k \in Messages BY <1>2, <1>8, CapcomAssumption DEF Messages
  <2>7. times[k] = 0 BY <1>2, <1>8, <2>2, <2>3, <2>6 DEF NoneAfter
  <2>8. \A m \in Messages : times'[m] <= 1 BY <1>1, <1>6, <1>8, <2>3, <2>7
  <2> QED BY <1>1, <1>5, <2>1, <2>5, <2>8, OneSteps
<1> QED BY <1>7, <1>8

LEMMA SaveCursorOnce == ASSUME OnceInv, NEW d \in Drains, SaveCursor(d) PROVE SwfOnce'
<1> SUFFICES ASSUME ~unsettled' PROVE SwfOnce' BY DEF SwfOnce
<1> USE DEF OnceInv
<1> DEFINE n == [drain[d] EXCEPT !.stage = "fetch"]
           l == IF drain[d].more /\ drain[d].pages < PageLimit THEN n ELSE Idle
<1>1. /\ drain[d].stage = "save" /\ ~unsettled /\ UNCHANGED times
      /\ swfCursor' = drain[d].at /\ drain' = [drain EXCEPT ![d] = l]
  BY DEF SaveCursor, Consumed
<1>2. drain[d] \in Locals BY DEF Types, TypeOK
<1>3. Idle.stage = "idle" /\ n.stage = "fetch" /\ n.at = drain[d].at
  BY <1>2 DEF Idle, Fresh, Locals
<1>4. l = n \/ l = Idle OBVIOUS
<1> HIDE DEF n, l
<1>5. NoneAfter(drain[d].at, times) /\ \A m \in Messages : times[m] <= 1
  BY <1>1 DEF SwfOnce, Reading
<1>6. NoneAfter(swfCursor', times') BY <1>1, <1>5 DEF NoneAfter
<1>7. Reading(l) => l.at = swfCursor' BY <1>1, <1>3, <1>4 DEF Reading
<1>8. Reading(l) => NoneAfter(l.at, times') BY <1>6, <1>7 DEF NoneAfter
<1>9. l.stage = "fetch" => l.at = swfCursor' BY <1>1, <1>3, <1>4
<1>10. \A e \in Drains \ {d} : drain[e].stage = "idle" BY <1>1, OthersIdle
<1> QED BY <1>1, <1>5, <1>6, <1>8, <1>9, <1>10, OneSteps

LEMMA RaisesOnce == ASSUME OnceInv, NEW d \in Drains, Raises(d) \/ Killed(d) PROVE SwfOnce'
<1> SUFFICES ASSUME ~unsettled' PROVE SwfOnce' BY DEF SwfOnce
<1> USE DEF OnceInv
<1> DEFINE l == Fresh("report", 0)
<1>1. /\ drain[d].stage = "fetch" /\ ~unsettled /\ UNCHANGED <<swfCursor, times>>
      /\ drain' = [drain EXCEPT ![d] = l]
  BY DEF Raises, Killed
<1>2. l.stage = "report" BY DEF Fresh
<1> HIDE DEF l
<1>3. NoneAfter(swfCursor, times) /\ \A m \in Messages : times[m] <= 1
  BY <1>1 DEF SwfOnce, Reading
<1>4. NoneAfter(swfCursor', times') /\ ~Reading(l) BY <1>1, <1>2, <1>3 DEF NoneAfter, Reading
<1>5. \A e \in Drains \ {d} : drain[e].stage = "idle" BY <1>1, OthersIdle
<1> QED BY <1>1, <1>2, <1>3, <1>4, <1>5, OneSteps

LEMMA SwfOnceNext == ASSUME OnceInv, [Next]_vars PROVE SwfOnce'
<1>1. CASE UNCHANGED swfVars
  <2>1. UNCHANGED <<sent, swfCursor, drain, times, unsettled>> BY <1>1 DEF swfVars
  <2> QED BY <2>1 DEF OnceInv, SwfOnce, NoneAfter
<1>2. CASE Buffer
  <2>1. UNCHANGED <<swfCursor, drain, times, unsettled>> BY <1>2 DEF Buffer
  <2> QED BY <2>1 DEF OnceInv, SwfOnce, NoneAfter
<1>3. ASSUME NEW d \in Drains, Start(d) \/ DrainStep(d) \/ Raises(d) \/ Killed(d) PROVE SwfOnce'
  BY <1>3, StartOnce, FetchOnce, FindOnce, StoreOnce, SaveCursorOnce, RaisesOnce DEF DrainStep
<1>4. Next => UNCHANGED swfVars \/ Buffer
              \/ \E d \in Drains : Start(d) \/ DrainStep(d) \/ Raises(d) \/ Killed(d)
  BY DEF Next, Happens, Tick, Begin, Search, ReadItem, EmitEvent, WriteCursor, RunFails, Mark
<1> QED BY <1>1, <1>2, <1>3, <1>4 DEF vars, swfVars

\* Rows of events are left alone by a notice of something else.
LEMMA EventOnceNext == ASSUME OnceInv, [Next]_vars PROVE EventOnce'
<1> USE DEF OnceInv
<1>0. feed \in Seq(Row) BY DEF Types, TypeOK
<1>1. CASE UNCHANGED feed BY <1>1 DEF EventOnce, Rows
<1>2. ASSUME NEW d \in Drains, Store(d) PROVE EventOnce'
  <2> DEFINE x == Message(drain[d].now)  r == drain[d].row
  <2>1. /\ x \in News /\ r \in Rows \cup {0} /\ Save(x, r) /\ drain[d].now \in 0..NumMessages
        /\ r # 0 => feed[r].key = Key(x)
    BY <1>2, StoreKeys DEF Store
  <2>2. Key(x) \notin Happenings BY <2>1, CapcomAssumption DEF Key, Message
  <2> HIDE DEF x, r
  <2>3. /\ Rows \subseteq Rows'
        /\ \A s \in Rows : feed'[s].key = feed[s].key /\ (s # r => feed'[s] = feed[s])
        /\ r # 0 => Rows' = Rows
        /\ r = 0 => Rows' = Rows \cup {Len(feed) + 1} /\ feed'[Len(feed) + 1] = NewRow(x)
    BY <1>0, <2>1, SaveRows
  <2>4. \A s \in Rows' : feed'[s].key \in Happenings => s \in Rows /\ feed'[s] = feed[s]
    <3>1. NewRow(x).key = Key(x) BY DEF NewRow
    <3> TAKE s \in Rows'
    <3> HAVE feed'[s].key \in Happenings
    <3>2. s # r \/ r = 0
      <4>1. r # 0 => feed'[r].key = feed[r].key BY <2>1, <2>3
      <4> QED BY <2>1, <2>2, <4>1
    <3>3. s \in Rows
      <4>1. CASE r = 0 BY <2>2, <2>3, <3>1, <4>1
      <4>2. CASE r # 0 BY <2>3, <4>2
      <4> QED BY <4>1, <4>2
    <3>4. s # 0 BY <1>0, <3>3 DEF Rows
    <3> QED BY <2>3, <3>2, <3>3, <3>4
  <2> QED BY <2>3, <2>4 DEF EventOnce
<1>3. ASSUME EmitEvent PROVE EventOnce'
  <2>1. PICK e \in run.queue :
          IF InFeed(e) THEN UNCHANGED <<feed, fresh>> ELSE \E r \in MayFind(e) : Save(e, r)
    BY <1>3 DEF EmitEvent
  <2>2. CASE ~InFeed(e)
    <3>1. e \in News /\ Save(e, 0) BY <2>1, <2>2, EmitEventRow
    <3>2. Key(e) = e BY <2>1, EventIsNews DEF Types, TypeOK
    <3> DEFINE k == Len(feed) + 1
    <3>3. 0 \notin Rows BY <1>0 DEF Rows
    <3>4. Rows' = Rows \cup {k} /\ feed'[k] = NewRow(e) /\ k \notin Rows
          /\ \A s \in Rows : feed'[s] = feed[s]
      BY <1>0, <3>1, <3>3, SaveRows
    <3>5. NewRow(e).key = e /\ ~NewRow(e).repeated BY <3>2 DEF NewRow
    <3> HIDE DEF k
    <3>6. \A s \in Rows : feed'[s].key # e BY <2>2, <3>4 DEF InFeed
    <3> QED BY <3>4, <3>5, <3>6 DEF EventOnce
  <2> QED BY <1>1, <2>1, <2>2
<1>4. ASSUME NEW ids, NEW mark \in Marks, Mark(ids, mark) PROVE EventOnce'
  <2>1. Rows' = Rows /\ \A s \in Rows : feed'[s].key = feed[s].key /\ feed'[s].repeated = feed[s].repeated
    BY <1>0, <1>4, MarkRows
  <2> QED BY <2>1 DEF EventOnce
<1>5. Next => UNCHANGED feed \/ EmitEvent \/ (\E d \in Drains : Store(d))
              \/ \E ids \in Selections, mark \in Marks : Mark(ids, mark)
  BY DEF Next, Buffer, Start, DrainStep, Fetch, Find, SaveCursor, Raises, Killed, Happens, Tick,
         Begin, Search, ReadItem, WriteCursor, RunFails
<1> QED BY <1>1, <1>2, <1>3, <1>4, <1>5 DEF vars

\* A GitHub event has at most one row, counted once, and an SWF notice is
\* emitted twice only after a page was cut short or two drains overlapped.
THEOREM CapcomNothingTwice == Spec => []NothingTwice
<1>1. Init => OnceInv
  <2> SUFFICES ASSUME Init PROVE OnceInv OBVIOUS
  <2>1. \A d \in Drains : drain[d].stage = "idle" BY DEF Init, Idle, Fresh
  <2>2. \A n \in Messages : times[n] = 0 BY DEF Init
  <2>3. SwfOnce BY <2>1, <2>2 DEF SwfOnce, Reading, NoneAfter
  <2>4. EventOnce BY DEF Init, EventOnce, Rows
  <2> QED BY <2>3, <2>4, TypesInit DEF OnceInv
<1>2. OnceInv /\ [Next]_vars => OnceInv'
  BY TypesNext, SwfOnceNext, EventOnceNext DEF OnceInv
<1>3. OnceInv => NothingTwice BY DEF OnceInv, SwfOnce, EventOnce, NothingTwice
<1> QED BY <1>1, <1>2, <1>3, PTL DEF Spec
=============================================================================
