------------------------------- MODULE Inflight -------------------------------
(***************************************************************************)
(* An inflight activity edited from several places (tjai_app/inflight.py): *)
(* browser editors that save by themselves (entry_detail.html), item       *)
(* actions (services.inflight_item), and the save that merges what the     *)
(* editor has, what it loaded and what is stored (views.api_entry_save).   *)
(*                                                                         *)
(* A content is the sequence of the lines of its Live section; the title,  *)
(* description and references around them stand still.                     *)
(***************************************************************************)
EXTENDS Merge, SequencesExt

CONSTANTS
    Editors,    \* browser tabs, each opened once: a new one is another tab
    Items,      \* item lines
    Raised,     \* partial function: an item to its line marked !!!
    Grows,      \* pairs: a line half typed, and finished
    Initial,    \* content at first
    MaxEvents,  \* bound on typing, item actions and lost answers
    NoReply

Lines == Items \cup Range(Raised)
Contents == Seq(Lines \cup {Yours, Equals, Theirs})
Replies == [base : Contents, behind : BOOLEAN]

ASSUME InflightAssumption ==
    /\ DOMAIN Raised \subseteq Items
    /\ Initial \in Seq(Items)
    /\ Grows \subseteq Items \X Items
    /\ MaxEvents \in Nat
    /\ Lines \cap {Yours, Equals, Theirs} = {}
    /\ NoReply \notin Replies

VARIABLES
    content,    \* Entry.content
    versions,   \* contents that have an EntryVersion
    retired,    \* the activity was closed as done, and so deleted
    editor,     \* the tabs
    events,     \* how often something was typed, done to an item, or lost
    unshown     \* history: tabs whose text lacks what a merge added to it

vars == <<content, versions, retired, editor, events, unshown>>

Closed == [at |-> "closed", base |-> <<>>, text |-> <<>>, saved |-> <<>>,
           first |-> TRUE, behind |-> FALSE, reply |-> NoReply,
           seen |-> {}, alone |-> TRUE]

Left == [Closed EXCEPT !.at = "left"]
Showing(e) == editor[e].at \in {"open", "awaiting"}

TypeOK ==
    /\ content \in Contents
    /\ versions \subseteq Contents
    /\ retired \in BOOLEAN
    /\ \A e \in Editors :
        /\ editor[e].at \in {"closed", "open", "awaiting", "left"}
        /\ editor[e].text \in Contents /\ editor[e].base \in Contents
        /\ editor[e].reply \in Replies \cup {NoReply}
        /\ editor[e].reply # NoReply <=> editor[e].at = "awaiting"
    /\ events \in 0..MaxEvents
    /\ unshown \subseteq Editors

Init ==
    /\ content = Initial
    /\ versions = {}
    /\ retired = FALSE
    /\ editor = [e \in Editors |-> Closed]
    /\ events = 0
    /\ unshown = {}

(* The lines of a text that are in S. *)
Only(text, S) ==
    LET only[i \in 0..Len(text)] ==
            IF i = 0 THEN <<>>
            ELSE IF text[i] \in S THEN Append(only[i - 1], text[i]) ELSE only[i - 1]
    IN  only[Len(text)]
Without(text, l) == Only(text, Range(text) \ {l})

Counted == events < MaxEvents /\ events' = events + 1

(* ------------------------------- saving --------------------------------- *)

(* Other entries, and an activity whose base was never snapshotted: the     *)
(* stored lines that are neither in the text nor half of a line in it.      *)
UnionDrops(ours, theirs) == ours           \* mutant: the stored lines are lost
UnionOf(ours, theirs) ==
    ours \o Only(theirs, {l \in Range(theirs) \ Range(ours) :
                             \A m \in Range(ours) : <<l, m>> \notin Grows})

(* What api_entry_save stores for the text of e. *)
CanMerge(e) == editor[e].base # content /\ editor[e].base \in versions
ToStore(e) ==
    LET ed == editor[e]
    IN  IF ed.base = content THEN ed.text
        ELSE IF ed.base \in versions THEN Merge3(ed.base, ed.text, content).text
        ELSE IF ed.behind THEN UnionOf(ed.text, content)
        ELSE ed.text

(* The save of a row: a version of what it replaces, unless an autosave     *)
(* other than a tab's first does it (signals.py).                           *)
Written(text, snapshots) ==
    /\ content' = text
    /\ versions' = IF text # content /\ snapshots THEN versions \cup {content}
                   ELSE versions

(* Every save by one moves timestamp_modified past what the others know. *)
Overtaken(f, text) ==
    [editor[f] EXCEPT !.behind = TRUE, !.alone = @ /\ text = content,
        !.reply = IF @ = NoReply THEN NoReply ELSE [@ EXCEPT !.behind = TRUE]]
StoredBy(e, mine, text) ==
    editor' = [f \in Editors |-> IF f = e THEN mine ELSE Overtaken(f, text)]

(* -------------------------------- a tab --------------------------------- *)

Open(e) ==
    /\ editor[e].at = "closed" /\ ~retired
    /\ editor' = [editor EXCEPT ![e] = [Closed EXCEPT !.at = "open",
            !.base = content, !.text = content, !.saved = content,
            !.seen = Range(content)]]
    /\ UNCHANGED <<content, versions, retired, events, unshown>>

(* One line put in, taken out, or changed. *)
Edited(text) ==
    LET fresh == Items \ Range(text)
    IN  {InsertAt(text, i, l) : i \in 1..(Len(text) + 1), l \in fresh}
        \cup {RemoveAt(text, i) : i \in 1..Len(text)}
        \cup {ReplaceAt(text, i, l) : i \in 1..Len(text), l \in fresh}

Type(e) ==
    /\ Showing(e)
    /\ Counted
    /\ \E text \in Edited(editor[e].text) :
        editor' = [editor EXCEPT ![e].text = text, ![e].seen = @ \cup Range(text)]
    /\ UNCHANGED <<content, versions, retired, unshown>>

(* _doAutosave: the text is sent and stored; the answer is still to come. *)
Autosave(e) ==
    LET ed == editor[e]
        text == ToStore(e)
        merged == text # ed.text
    IN  /\ ed.at = "open" /\ ed.text # ed.saved /\ ~retired
        /\ Written(text, ed.first)
        /\ StoredBy(e, [ed EXCEPT !.at = "awaiting", !.behind = TRUE,
                               !.reply = [base |-> text, behind |-> FALSE]], text)
        /\ unshown' = IF merged THEN unshown \cup {e} ELSE unshown
        /\ UNCHANGED <<retired, events>>

(* Its answer: the tab takes the stored content for its base, and its text  *)
(* stays what was typed.                                                    *)
Answer(e) ==
    LET reply == editor[e].reply
    IN  /\ editor[e].at = "awaiting"
        /\ editor' = [editor EXCEPT ![e] = [@ EXCEPT !.at = "open",
                !.base = reply.base, !.saved = reply.base, !.behind = reply.behind,
                !.first = FALSE, !.reply = NoReply]]
        /\ UNCHANGED <<content, versions, retired, events, unshown>>

(* No answer, though the save may have been stored: the tab tries again.    *)
AfterFailureStale(ed) == [ed EXCEPT !.at = "open"]   \* mutant: it still waits
AfterFailure(ed) == [ed EXCEPT !.at = "open", !.reply = NoReply, !.alone = FALSE]

AnswerLost(e) ==
    /\ editor[e].at = "awaiting"
    /\ Counted
    /\ editor' = [editor EXCEPT ![e] = AfterFailure(@)]
    /\ UNCHANGED <<content, versions, retired, unshown>>

(* doSave waits for an autosave under way; the page is left when the answer *)
(* comes, and goes on editing if none does.                                 *)
MaySaveAtOnce(e) == Showing(e)  \* mutant: an autosave is under way
MaySave(e) == editor[e].at = "open"

DoSave(e) ==
    LET text == ToStore(e)
    IN  /\ MaySave(e) /\ ~retired
        /\ Written(text, TRUE)
        /\ \/ /\ StoredBy(e, Left, text)
              /\ unshown' = unshown \ {e}
              /\ UNCHANGED events
           \/ /\ Counted
              /\ StoredBy(e, [AfterFailure(editor[e]) EXCEPT !.first = TRUE,
                                                          !.behind = TRUE], text)
              /\ UNCHANGED unshown
        /\ UNCHANGED retired

(* beforeunload sends what is unsaved and waits for nothing.  Cancel sends  *)
(* nothing.                                                                 *)
Leave(e) ==
    LET ed == editor[e]
        text == ToStore(e)
    IN  /\ Showing(e)
        /\ \/ /\ ed.text # ed.saved /\ ~retired
              /\ Written(text, FALSE)
              /\ StoredBy(e, Left, text)
           \/ /\ editor' = [editor EXCEPT ![e] = Left]
              /\ UNCHANGED <<content, versions>>
        /\ unshown' = unshown \ {e}
        /\ UNCHANGED <<retired, events>>

(* ---------------------------- item actions ------------------------------ *)

IsRaised(l) == l \in Range(Raised)
IsItem(l) == l \in Lines

(* services.inflight_item, on the current content under the row lock. *)
ItemAction(text, closes) ==
    /\ ~retired
    /\ Counted
    /\ Written(text, TRUE)
    /\ editor' = [f \in Editors |-> Overtaken(f, text)]
    /\ retired' = closes
    /\ UNCHANGED unshown

(* mark_done takes the item out; with the last one the activity is closed,  *)
(* which retires it.                                                        *)
Done(l) ==
    LET text == Without(content, l)
    IN  /\ l \in Range(content) /\ IsItem(l)
        /\ ItemAction(text, ~\E m \in Range(text) : IsItem(m))

Add(l) ==
    /\ l \in Items \ Range(content)
    /\ ItemAction(Append(content, l), FALSE)

(* toggle_priority: a raised item goes to the top, a lowered one below      *)
(* those that stay raised.                                                  *)
Toggle(l) ==
    LET rest == Without(content, l)
        marked == {i \in DOMAIN rest : IsRaised(rest[i])}
        lowered == CHOOSE m \in DOMAIN Raised : Raised[m] = l
    IN  /\ l \in Range(content)
        /\ \/ l \in DOMAIN Raised /\ ItemAction(<<Raised[l]>> \o rest, FALSE)
           \/ /\ IsRaised(l)
              /\ ItemAction(InsertAt(rest, IF marked = {} THEN 1 ELSE Max(marked) + 1,
                                     lowered), FALSE)

Next ==
    \/ \E e \in Editors :
        \/ Open(e)
        \/ Type(e)
        \/ Autosave(e)
        \/ Answer(e)
        \/ AnswerLost(e)
        \/ DoSave(e)
        \/ Leave(e)
    \/ \E l \in Lines :
        \/ Done(l)
        \/ Add(l)
        \/ Toggle(l)

Spec == Init /\ [][Next]_vars

(* ------------------------------ properties ------------------------------- *)

(* What a merge would store now loses nothing: without a conflict as with   *)
(* one, the result has every line either side wrote and every line both     *)
(* kept (of two equal ones each side may take out another); an unchanged    *)
(* side gives the other, equal sides give themselves.                       *)
MergeLosesNothing ==
    \A e \in Editors :
        LET base == editor[e].base
            ours == editor[e].text
            m == Merge3(base, ours, content)
        IN  Showing(e) /\ CanMerge(e) =>
                /\ Range(ours) \ Range(base) \subseteq Range(m.text)
                /\ Range(content) \ Range(base) \subseteq Range(m.text)
                /\ IsInjective(base) =>
                       Range(ours) \cap Range(content) \subseteq Range(m.text)
                /\ ours = base => m = [text |-> content, conflict |-> FALSE]
                /\ ours = content => m = [text |-> ours, conflict |-> FALSE]

(* Whoever saves, lines another wrote meanwhile stay: a tab takes out only  *)
(* lines it has shown, the beginning of a line it has, or what an autosave  *)
(* of its own merged in without showing it.                                 *)
Saves(e) == Autosave(e) \/ DoSave(e) \/ Leave(e)
TakenOut == Range(content) \ (Range(content') \cup {Yours, Equals, Theirs})
Known(e) ==
    editor[e].seen \cup {l \in Lines : \E m \in Range(editor[e].text) : <<l, m>> \in Grows}
UnseenKept ==
    [][TakenOut # {} => \A e \in Editors \ unshown :
           Saves(e) => TakenOut \subseteq Known(e)]_vars

(* A tab that nobody interferes with gets what it shows: its own autosaves  *)
(* are no other version to merge with.                                      *)
OwnSaveStands ==
    [][\A e \in Editors :
         editor[e].alone /\ DoSave(e) => content' = editor[e].text]_vars

(* inflight.py: "Regions changed on one side only take that side": a line   *)
(* taken out on one side is not back after a merge without conflict.        *)
DeletionsHold ==
    \A e \in Editors :
        LET m == Merge3(editor[e].base, editor[e].text, content)
        IN  Showing(e) /\ CanMerge(e) /\ ~m.conflict =>
                Range(m.text) \cap Range(editor[e].base)
                    \subseteq Range(editor[e].text) \cap Range(content)
=============================================================================
