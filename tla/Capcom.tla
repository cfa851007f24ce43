------------------------------- MODULE Capcom -------------------------------
(***************************************************************************)
(* The Capcom feed (tjai_app/capcom.py, docs/capcom.md) and its two         *)
(* cursor-driven feeders:                                                   *)
(*                                                                          *)
(*  - the dispatcher's drain of the notices buffered by swf-monitor         *)
(*    (scripts/capcom_dispatcher.py).  A drain reads the stored cursor,     *)
(*    then pages through the buffer and stores the cursor after each page.  *)
(*    The ten-minute action and the page's Update button start one each,    *)
(*    under different keys of the wrangler, so two can be at work at once.  *)
(*                                                                          *)
(*  - the hourly GitHub collector (scripts/capcom_github_prs.py).  It       *)
(*    searches for the items updated since its cursor, reads the events of  *)
(*    one item after the other, and stores the newest event time it has     *)
(*    met at the very end.                                                  *)
(*                                                                          *)
(* Both write through emit_notice, which looks for an unarchived row with   *)
(* the notice's key and then saves that row or inserts one, with no lock    *)
(* between the two, while the user marks rows.  Any of the scripts may be   *)
(* killed (its wrangler timeout, a restart) or meet a failing request.      *)
(*                                                                          *)
(* Left out: tiles and the source registry, the purge of old notices (off   *)
(* by default), timestamps of rows, and what a notice says.                 *)
(***************************************************************************)
EXTENDS Naturals, FiniteSets, Sequences

CONSTANTS
    NumMessages,    \* bound: notices swf-monitor ever buffers
    KeyOf,          \* the dedup key of a message, or NoKey; 0 is the drain's failure notice
    NoKey,
    Quiet,          \* messages that report a task paused or resumed
    PageSize,       \* notices swf-monitor returns at once
    PageLimit,      \* SWF_NOTICES_PAGE_LIMIT
    Items,          \* issues and pull requests
    Queries,        \* what each of the two searches can find
    SearchLimit,    \* items a search returns at most: SEARCH_PAGES of 100
    MaxSecond,      \* bound: GitHub's clock
    Loads           \* bound: how many messages, seconds of GitHub activity, faults
                    \* (kills and failed requests) and marks there may be

Messages == 1..NumMessages
Seconds == 1..MaxSecond
Drains == {"tick", "hand"}

Message(n) == [stream |-> "swf", n |-> n]
Event(i, t) == [stream |-> "github", item |-> i, at |-> t]
Happenings == {Event(i, t) : i \in Items, t \in Seconds}
News == {Message(n) : n \in 0..NumMessages} \cup Happenings

\* Every item the account follows is found by a search.  What reports a paused
\* task shares its key with nothing else.
ASSUME CapcomAssumption ==
    /\ NumMessages \in Nat /\ MaxSecond \in Nat
    /\ PageSize \in Nat \ {0} /\ PageLimit \in Nat \ {0} /\ SearchLimit \in Nat \ {0}
    /\ Queries \subseteq SUBSET Items /\ UNION Queries = Items
    /\ Quiet \subseteq Messages
    /\ \A k \in 0..NumMessages : KeyOf[k] \notin Happenings
    /\ NoKey \notin Happenings
    /\ \A n \in Quiet, k \in 0..NumMessages :
         k # n /\ KeyOf[k] = KeyOf[n] => KeyOf[n] = NoKey
    /\ Loads \subseteq [messages : 0..NumMessages, seconds : 0..MaxSecond, faults : Nat, marks : Nat]

VARIABLES
    load,           \* what this behaviour's environment may produce
    sent,           \* messages swf-monitor has buffered so far
    swfCursor,      \* capcom_swf_notices_cursor: the last message consumed
    drain,          \* each drain's locals
    feed,           \* capcom_notices, in order of insertion
    clock,          \* GitHub's clock, in seconds
    events,         \* human events on GitHub
    cursor,         \* capcom_github_prs_cursor
    run,            \* the collector's locals
    faults, marks,
    times,          \* history: how often each message was emitted
    unsettled,      \* history: a page was cut short, or two drains overlapped
    fresh,          \* history: news emitted that no one has marked since
    holes           \* history: where the GitHub cursor may have passed something over

vars == <<load, sent, swfCursor, drain, feed, clock, events, cursor, run, faults,
          marks, times, unsettled, fresh, holes>>
swfVars == <<sent, swfCursor, drain, times, unsettled>>
gitVars == <<clock, events, cursor, run, holes>>

------------------------------------------------------------------------------
(* Notices.                                                                 *)

\* A GitHub notice's key names the event.
Key(x) == IF x.stream = "swf" THEN KeyOf[x.n] ELSE x
Hidden(x) == x.stream = "swf" /\ x.n \in Quiet

\* A row's count is kept as whether it is more than one: a save writes the count
\* it has read plus one.
Rows == DOMAIN feed
NewRow(x) == [key |-> Key(x), shows |-> x, repeated |-> FALSE, read |-> FALSE,
              archived |-> Hidden(x)]
\* Mutant: a notice threaded onto a row does not make it unread.
ThreadedQuietly(row, x) == [row EXCEPT !.shows = x, !.repeated = TRUE, !.archived = Hidden(x)]
Threaded(row, x) ==
    [row EXCEPT !.shows = x, !.repeated = TRUE, !.read = FALSE, !.archived = Hidden(x)]

\* The rows emit_notice may thread a notice onto: the unarchived ones with its
\* key.  It takes the one last updated; here any, since timestamps are left out.
Threads(x) == {r \in Rows : Key(x) # NoKey /\ feed[r].key = Key(x) /\ ~feed[r].archived}
MayFind(x) == IF Threads(x) = {} THEN {0} ELSE Threads(x)

\* The second half of emit_notice, on the row the first half found (0: none).
Save(x, r) ==
    /\ feed' = IF r = 0 THEN Append(feed, NewRow(x)) ELSE [feed EXCEPT ![r] = Threaded(@, x)]
    /\ fresh' = fresh \cup {x}

\* What a row tells about.
About(row) == {x \in News : row.shows = x \/ (row.key # NoKey /\ Key(x) = row.key)}

------------------------------------------------------------------------------
(* The drain of the SWF buffer.                                             *)

Stages == {"idle", "fetch", "emit", "store", "save", "report"}
Fresh(st, c) ==
    [stage |-> st, at |-> c, upto |-> 0, more |-> FALSE, pages |-> 0, now |-> 0, row |-> 0]
Idle == Fresh("idle", 0)

\* swf-monitor buffers another notice.
Buffer ==
    /\ sent < load.messages
    /\ sent' = sent + 1
    /\ UNCHANGED <<load, marks, swfCursor, drain, feed, faults, times, unsettled, fresh>>
    /\ UNCHANGED gitVars

Start(d) ==
    /\ load.messages > 0
    /\ drain[d].stage = "idle"
    /\ drain' = [drain EXCEPT ![d] = Fresh("fetch", swfCursor)]
    /\ unsettled' = (unsettled \/ \E o \in Drains \ {d} : drain[o].stage # "idle")
    /\ UNCHANGED <<load, marks, sent, swfCursor, feed, faults, times, fresh>>
    /\ UNCHANGED gitVars

\* One page: what the buffer holds after the drain's cursor, oldest first.
PageEnd(at) == IF at + PageSize < sent THEN at + PageSize ELSE sent

Fetch(d) ==
    LET l == drain[d]  end == PageEnd(l.at) IN
    /\ l.stage = "fetch"
    /\ drain' = [drain EXCEPT ![d] =
         IF end <= l.at THEN Idle
         ELSE [l EXCEPT !.stage = "emit", !.upto = end, !.more = end < sent, !.pages = @ + 1]]
    /\ UNCHANGED <<load, marks, sent, swfCursor, feed, faults, times, unsettled, fresh>>
    /\ UNCHANGED gitVars

\* emit_notice for the next message of the page, or for the failure of the
\* collector, looks for a row to thread onto ...
Find(d) ==
    LET l == drain[d]  n == IF l.stage = "report" THEN 0 ELSE l.at + 1 IN
    /\ l.stage \in {"emit", "report"}
    /\ \E r \in MayFind(Message(n)) :
         drain' = [drain EXCEPT ![d] = [l EXCEPT !.stage = "store", !.now = n, !.row = r]]
    /\ UNCHANGED <<load, marks, sent, swfCursor, feed, faults, times, unsettled, fresh>>
    /\ UNCHANGED gitVars

\* ... and saves it.
Store(d) ==
    LET l == drain[d] IN
    /\ l.stage = "store"
    /\ Save(Message(l.now), l.row)
    /\ IF l.now = 0
       THEN /\ drain' = [drain EXCEPT ![d] = Idle]
            /\ UNCHANGED times
       ELSE /\ drain' = [drain EXCEPT ![d] =
                 [l EXCEPT !.stage = IF l.now = l.upto THEN "save" ELSE "emit",
                           !.at = l.now, !.now = 0, !.row = 0]]
            /\ times' = [times EXCEPT ![l.now] = @ + 1]
    /\ UNCHANGED <<load, marks, sent, swfCursor, faults, unsettled>>
    /\ UNCHANGED gitVars

\* Mutant: the cursor is moved to the newest notice of the buffer.
ConsumedAll(l) == sent
\* Mutant: the cursor is stored once the buffer is drained.
ConsumedAtEnd(l) == IF l.more THEN swfCursor ELSE l.at

\* The cursor after a page.
Consumed(l) == l.at

SaveCursor(d) ==
    LET l == drain[d] IN
    /\ l.stage = "save"
    /\ swfCursor' = Consumed(l)
    /\ drain' = [drain EXCEPT ![d] =
         IF l.more /\ l.pages < PageLimit THEN [l EXCEPT !.stage = "fetch"] ELSE Idle]
    /\ UNCHANGED <<load, marks, sent, feed, faults, times, unsettled, fresh>>
    /\ UNCHANGED gitVars

\* At work on the buffer, not on the notice of its own failure.
Reading(l) == l.stage \in {"fetch", "emit", "save"} \/ (l.stage = "store" /\ l.now # 0)

\* A request fails, or a write: the collector raises, and the dispatcher emits a
\* notice of it.  The messages of a page cut short come again.
Raises(d) ==
    /\ Reading(drain[d]) /\ faults < load.faults
    /\ faults' = faults + 1
    /\ drain' = [drain EXCEPT ![d] = Fresh("report", 0)]
    /\ unsettled' = (unsettled \/ drain[d].stage # "fetch")
    /\ UNCHANGED <<load, marks, sent, swfCursor, feed, times, fresh>>
    /\ UNCHANGED gitVars

\* The dispatcher is killed.
Killed(d) ==
    /\ drain[d].stage # "idle" /\ faults < load.faults
    /\ faults' = faults + 1
    /\ drain' = [drain EXCEPT ![d] = Idle]
    /\ unsettled' = TRUE
    /\ UNCHANGED <<load, marks, sent, swfCursor, feed, times, fresh>>
    /\ UNCHANGED gitVars

DrainStep(d) == Fetch(d) \/ Find(d) \/ Store(d) \/ SaveCursor(d)

------------------------------------------------------------------------------
(* The GitHub collector.                                                    *)

NoRun == [stage |-> "idle", since |-> 0, newest |-> 0, began |-> 0, searches |-> {},
          found |-> {}, left |-> {}, queue |-> {}]

\* Someone comments on, reviews, closes ... an item; two such events of one kind
\* in one second have one key, and are one event here.
Happens(i) ==
    /\ clock >= 1
    /\ Event(i, clock) \notin events
    /\ events' = events \cup {Event(i, clock)}
    /\ UNCHANGED <<load, feed, faults, marks, fresh, clock, cursor, run, holes>>
    /\ UNCHANGED swfVars

Tick ==
    /\ clock < load.seconds
    /\ clock' = clock + 1
    /\ UNCHANGED <<load, feed, faults, marks, fresh, events, cursor, run, holes>>
    /\ UNCHANGED swfVars

\* The hourly run starts at the stored cursor, a re-seed (--lookback) anywhere.
Begin(since) ==
    /\ clock >= 1
    /\ run.stage = "idle"
    /\ run' = [NoRun EXCEPT !.stage = "search", !.since = since, !.newest = cursor,
                            !.began = clock, !.searches = Queries]
    /\ UNCHANGED <<load, feed, faults, marks, fresh, clock, events, cursor, holes>>
    /\ UNCHANGED swfVars

\* Items updated at or after the run's start.  An item was updated when its last
\* event happened.
Matches(q) == {i \in q : \E e \in events : e.item = i /\ e.at >= run.since}
UpdatedBefore(i, j) ==
    \A e \in events : e.item = i => \E v \in events : v.item = j /\ e.at <= v.at

\* The first SearchLimit matches in order of their last update.
IsResult(S, q) ==
    /\ S \subseteq Matches(q)
    /\ \/ S = Matches(q) /\ Cardinality(S) <= SearchLimit
       \/ Cardinality(S) = SearchLimit
    /\ \A i \in S, j \in Matches(q) \ S : UpdatedBefore(i, j)

Search(q) ==
    /\ run.stage = "search" /\ q \in run.searches
    /\ \E S \in SUBSET q :
         /\ IsResult(S, q)
         /\ run' = [run EXCEPT !.searches = @ \ {q}, !.found = @ \cup S,
                               !.left = @ \cup (Matches(q) \ S),
                               !.stage = IF run.searches = {q} THEN "read" ELSE @]
    /\ UNCHANGED <<load, feed, faults, marks, fresh, clock, events, cursor, holes>>
    /\ UNCHANGED swfVars

\* item_events: the events of an item strictly after the run's start.
EventsOf(i) == {e \in events : e.item = i /\ e.at > run.since}

ReadItem(i) ==
    /\ run.stage = "read" /\ run.queue = {} /\ i \in run.found
    /\ run' = [run EXCEPT !.found = @ \ {i},
                          !.queue = EventsOf(i)]
    /\ UNCHANGED <<load, feed, faults, marks, fresh, clock, events, cursor, holes>>
    /\ UNCHANGED swfVars

\* Mutant: only the rows the feed shows count.
InFeedShown(e) == \E r \in Rows : feed[r].key = e /\ ~feed[r].archived
\* An event that has a row, archived or not, is skipped.
InFeed(e) == \E r \in Rows : feed[r].key = e

\* The item's events, oldest first.
EmitEvent == \E e \in run.queue :
    /\ \A v \in run.queue : e.at <= v.at
    /\ run' = [run EXCEPT !.queue = @ \ {e}, !.newest = IF e.at > @ THEN e.at ELSE @]
    /\ IF InFeed(e)
       THEN UNCHANGED <<feed, fresh>>
       ELSE \E r \in MayFind(e) : Save(e, r)
    /\ UNCHANGED <<load, faults, marks, clock, events, cursor, holes>>
    /\ UNCHANGED swfVars

\* Where a run that stores its cursor may leave an event behind it for good:
\* in the seconds since it began, before the start of a re-seed that begins
\* after the stored cursor, and on items the search limit cut off.
PassedOver(e) ==
    /\ e.at <= run.newest
    /\ \/ e.at >= run.began
       \/ cursor < e.at /\ e.at <= run.since
       \/ e.item \in run.left

WriteCursor ==
    /\ run.stage = "read" /\ run.found = {} /\ run.queue = {}
    /\ cursor' = run.newest
    /\ holes' = holes \cup {e \in Happenings : PassedOver(e)}
    /\ run' = NoRun
    /\ UNCHANGED <<load, feed, faults, marks, fresh, clock, events>>
    /\ UNCHANGED swfVars

\* Mutant: a failing run stores its cursor on the way out.
RunFailsForward ==
    /\ run.stage # "idle" /\ faults < load.faults
    /\ faults' = faults + 1
    /\ cursor' = run.newest
    /\ run' = NoRun
    /\ UNCHANGED <<load, feed, marks, fresh, clock, events, holes>>
    /\ UNCHANGED swfVars

\* A request fails, or the script is killed: the cursor stays where it was.
RunFails ==
    /\ run.stage # "idle" /\ faults < load.faults
    /\ faults' = faults + 1
    /\ run' = NoRun
    /\ UNCHANGED <<load, feed, marks, fresh, clock, events, cursor, holes>>
    /\ UNCHANGED swfVars

------------------------------------------------------------------------------
(* The user.                                                                *)

Marks == {"read", "unread", "archive"}
Marked(row, mark) ==
    CASE mark = "read" -> [row EXCEPT !.read = TRUE]
      [] mark = "unread" -> [row EXCEPT !.read = FALSE]
      [] mark = "archive" -> [row EXCEPT !.read = TRUE, !.archived = TRUE]

\* One row, or "all": the unread rows of the feed.
Selections == {{r} : r \in Rows} \cup {{r \in Rows : ~feed[r].read /\ ~feed[r].archived}}

Mark(ids, mark) ==
    /\ ids # {} /\ marks < load.marks
    /\ marks' = marks + 1
    /\ feed' = [r \in Rows |-> IF r \in ids THEN Marked(feed[r], mark) ELSE feed[r]]
    /\ fresh' = IF mark = "unread" THEN fresh
                ELSE fresh \ UNION {About(feed[r]) : r \in ids}
    /\ UNCHANGED <<load, faults>>
    /\ UNCHANGED swfVars
    /\ UNCHANGED gitVars

------------------------------------------------------------------------------
Init ==
    /\ load \in Loads
    /\ sent = 0 /\ swfCursor = 0
    /\ drain = [d \in Drains |-> Idle]
    /\ feed = <<>>
    /\ clock = 0 /\ events = {} /\ cursor = 0
    /\ run = NoRun
    /\ faults = 0 /\ marks = 0
    /\ times = [n \in Messages |-> 0]
    /\ unsettled = FALSE
    /\ fresh = {} /\ holes = {}

Next ==
    \/ Buffer
    \/ \E d \in Drains : Start(d) \/ DrainStep(d) \/ Raises(d) \/ Killed(d)
    \/ \E i \in Items : Happens(i) \/ ReadItem(i)
    \/ Tick
    \/ \E since \in 0..clock : Begin(since)
    \/ \E q \in Queries : Search(q)
    \/ EmitEvent \/ WriteCursor \/ RunFails
    \/ \E ids \in Selections, mark \in Marks : Mark(ids, mark)

\* The ten-minute action starts a dispatcher again and again, and a dispatcher
\* that is not killed gets on.
Fairness ==
    /\ WF_vars(Start("tick"))
    /\ \A d \in Drains : WF_vars(DrainStep(d))

Spec == Init /\ [][Next]_vars
FairSpec == Spec /\ Fairness

------------------------------------------------------------------------------
(* Properties.                                                              *)

Keys == {Key(x) : x \in News}
Row == [key : Keys, shows : News, repeated : BOOLEAN, read : BOOLEAN, archived : BOOLEAN]

Locals == [stage : Stages, at : 0..NumMessages, upto : 0..NumMessages, more : BOOLEAN,
           pages : 0..PageLimit, now : 0..NumMessages, row : Nat]
RunLocals == [stage : {"idle", "search", "read"}, since : 0..MaxSecond, newest : 0..MaxSecond,
              began : 0..MaxSecond, searches : SUBSET Queries, found : SUBSET Items,
              left : SUBSET Items, queue : SUBSET Happenings]

TypeOK ==
    /\ load \in Loads
    /\ sent \in 0..NumMessages /\ swfCursor \in 0..NumMessages
    /\ drain \in [Drains -> Locals]
    /\ feed \in Seq(Row)
    /\ clock \in 0..MaxSecond /\ cursor \in 0..MaxSecond
    /\ events \subseteq Happenings /\ fresh \subseteq News /\ holes \subseteq Happenings
    /\ run \in RunLocals /\ run.queue \subseteq events
    /\ times \in [Messages -> Nat] /\ unsettled \in BOOLEAN
    /\ faults \in Nat /\ marks \in Nat

\* No cursor covers what the feed has not had.  Every notice of the SWF buffer up
\* to the stored cursor was emitted, although two drains page through the
\* buffer at once, each may be killed anywhere, and the later of them may store
\* the older cursor.  And a GitHub event at or before the stored cursor was
\* emitted, or it lies in one of the holes the collector is known to leave.
CursorsCover ==
    /\ \A n \in 1..swfCursor : times[n] >= 1
    /\ \A e \in events : e.at <= cursor => InFeed(e) \/ e \in holes

\* "An event already in the feed is never emitted again, so a re-run or a re-seed
\* adds only what is new": a GitHub event has at most one row, counted once,
\* whatever runs were cut and wherever re-seeds began.  An SWF notice is
\* emitted twice only after a page was cut short or two drains overlapped, so
\* neither the page limit nor a failing request repeats one.
NothingTwice ==
    /\ \A r \in Rows : feed[r].key \in Happenings =>
         ~feed[r].repeated /\ \A s \in Rows : feed[s].key = feed[r].key => s = r
    /\ ~unsettled => \A n \in Messages : times[n] <= 1

\* Nothing scrolls away unseen: news that no one has marked since it was
\* emitted is told by an unread row of the feed (by an unread archived one, for
\* the pause and resume notices the feed leaves out), also when two emitters
\* work on one row and the user marks it between the read and the save.
NewsIsUnread ==
    \A x \in fresh : \E r \in Rows :
        /\ x \in About(feed[r]) /\ ~feed[r].read
        /\ Hidden(x) \/ ~feed[r].archived

\* Every notice in the SWF buffer reaches the feed, in spite of the page limit,
\* failed requests, kills and an overlapping drain that stores an older cursor.
MessagesArrive == \A n \in Messages : sent >= n ~> times[n] >= 1
=============================================================================
