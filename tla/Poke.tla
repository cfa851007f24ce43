---------------------------------- MODULE Poke ----------------------------------
(***************************************************************************)
(* One poke (tjai_app/poke.py): a short request kept as an entry and       *)
(* changed by browser pages and LLM sessions, each of which gives the      *)
(* revision it was shown.  The operator's approval is for a text; editors  *)
(* that know nothing of pokes can change that text too.                    *)
(*                                                                         *)
(* A text stands for title, explanation and references.  Owner, answer and *)
(* the dates shown are left out; a poke that is due is grouped when read.  *)
(***************************************************************************)
EXTENDS Integers, Sequences

CONSTANTS
    Writers,    \* browser pages and LLM sessions
    Humans,     \* those of them that are pages of the operator
    Texts,
    MaxWrites,  \* bound on the writes to the poke
    None

VARIABLES
    row,        \* the live entry of the poke, None if there is none
    rows,       \* how many live entries have its identifier
    looking,    \* sessions that hold the advisory lock and found no poke
    copy,       \* what each writer was shown last
    writes,     \* time: the timestamp_modified of the last write
    approved,   \* history: the text the operator approved last
    edited,     \* history: that text was changed by another editor
    silent      \* history: the text was changed and the time kept

pokeVars == <<row, rows, looking, copy, writes, approved, edited, silent>>

LIVE == {"open", "approved", "deferred"}
STATES == LIVE \cup {"picked_up", "done", "dismissed"}
Categories == {"attention", "keep"}

Rows == [state : STATES, category : Categories, text : Texts,
         flow : Seq({"in", "out"}), rev : 0..MaxWrites]

ASSUME PokeAssumption == MaxWrites \in Nat /\ None \notin Rows

PokeTypeOK ==
    /\ row \in Rows \cup {None}
    /\ rows \in Nat /\ (rows = 0 <=> row = None)
    /\ looking \subseteq Writers
    /\ copy \in [Writers -> Rows \cup {None}]
    /\ writes \in 0..MaxWrites
    /\ approved \in Texts \cup {None}
    /\ edited \in BOOLEAN /\ silent \in BOOLEAN

PokeInit ==
    /\ row = None
    /\ rows = 0
    /\ looking = {}
    /\ copy = [w \in Writers |-> None]
    /\ writes = 0
    /\ approved = None
    /\ edited = FALSE
    /\ silent = FALSE

Stamped == writes < MaxWrites /\ writes' = writes + 1

(* get_pokes, the page, or the answer to a refused change, which shows the  *)
(* poke as it is.                                                           *)
Read(w) ==
    /\ copy' = [copy EXCEPT ![w] = row]
    /\ UNCHANGED <<row, rows, looking, writes, approved, edited, silent>>

(* ------------------------------- save_poke ------------------------------- *)

(* The identifier has no unique index: the look for it and the insert are   *)
(* under an advisory lock.                                                   *)
FreeAlways == TRUE                         \* mutant: no lock
Free == looking = {}

Look(w) ==
    /\ Free
    /\ row = None
    /\ looking' = looking \cup {w}
    /\ UNCHANGED <<row, rows, copy, writes, approved, edited, silent>>

Create(w, text, category) ==
    LET new == [state |-> "open", category |-> category, text |-> text,
                flow |-> IF category = "keep" THEN <<"in">> ELSE <<>>,
                rev |-> writes + 1]
    IN  /\ w \in looking
        /\ Stamped
        /\ row' = new
        /\ rows' = rows + 1
        /\ looking' = looking \ {w}
        /\ copy' = [copy EXCEPT ![w] = new]
        /\ silent' = FALSE
        /\ UNCHANGED <<approved, edited>>

(* _keep_transition: an event for a change of group, and events of a week   *)
(* ago are dropped with it.                                                 *)
TransitionAlways(info, category, kept) ==  \* mutant: an event for every write
    [info EXCEPT !.category = category,
                 !.flow = Append(SubSeq(@, kept, Len(@)), IF category = "keep" THEN "in" ELSE "out")]
Transition(info, category, kept) ==
    IF info.category = category THEN info
    ELSE [info EXCEPT !.category = category,
                      !.flow = Append(SubSeq(@, kept, Len(@)),
                                      IF category = "keep" THEN "in" ELSE "out")]
Week == 1..(IF row = None THEN 1 ELSE Len(row.flow) + 1)

(* Every change is refused to a writer that was not shown this revision.    *)
ShownAny(w) == row # None                  \* mutant: no revision
Shown(w) == row # None /\ copy[w] # None /\ copy[w].rev = row.rev

Write(w, info) ==
    /\ Shown(w)
    /\ Stamped
    /\ row' = [info EXCEPT !.rev = writes + 1]
    /\ copy' = [copy EXCEPT ![w] = row']
    /\ silent' = FALSE
    /\ UNCHANGED <<rows, looking>>

(* A changed text takes an approval back. *)
SavedKeeping(info, text) == [info EXCEPT !.text = text]   \* mutant: it stays
Saved(info, text) ==
    [info EXCEPT !.text = text,
                 !.state = IF @ = "approved" /\ text # info.text THEN "open" ELSE @]

Save(w, text, category) ==
    /\ Free
    /\ row # None /\ row.state \in LIVE
    /\ row.state # "open" => category = row.category
    /\ \E kept \in Week : Write(w, Transition(Saved(row, text), category, kept))
    /\ UNCHANGED <<approved, edited>>

(* ------------------------------ poke_action ------------------------------ *)

Act(w, state, category) ==
    /\ row # None
    /\ \E kept \in Week :
        Write(w, Transition([row EXCEPT !.state = state], category, kept))

(* On a page, or by a session that cites the operator's own words. *)
Approve(w) ==
    /\ row # None /\ row.state \in LIVE
    /\ Act(w, "approved", "attention")
    /\ approved' = row.text
    /\ edited' = FALSE

Pickup(w) ==
    /\ row # None /\ row.state = "approved"
    /\ Act(w, "picked_up", row.category)
    /\ UNCHANGED <<approved, edited>>

Defer(w) ==
    /\ row # None /\ row.state \in LIVE
    /\ Act(w, "deferred", "attention")
    /\ UNCHANGED <<approved, edited>>

Put(w, category) ==
    /\ row # None /\ row.state \in LIVE
    /\ row.state = "approved" => w \in Humans
    /\ Act(w, "open", category)
    /\ UNCHANGED <<approved, edited>>

Reopen(w) ==
    /\ row # None
    /\ row.state = "approved" => w \in Humans
    /\ Act(w, "open", "attention")
    /\ UNCHANGED <<approved, edited>>

Close(w) ==
    /\ row # None /\ row.state \in LIVE
    /\ \E state \in {"done", "dismissed"} : Act(w, state, "attention")
    /\ UNCHANGED <<approved, edited>>

(* ----------------------------- other editors ----------------------------- *)

(* The entry editor and the MCP edit tools change the text, on demand with  *)
(* the modification time kept.                                              *)
Edit(text, keepTime) ==
    /\ row # None /\ text # row.text
    /\ IF keepTime THEN row' = [row EXCEPT !.text = text] /\ UNCHANGED writes
       ELSE Stamped /\ row' = [row EXCEPT !.text = text, !.rev = writes + 1]
    /\ silent' = (silent \/ keepTime)
    /\ edited' = (edited \/ row.state \in {"approved", "picked_up"})
    /\ UNCHANGED <<rows, looking, copy, approved>>

Delete ==
    /\ row # None
    /\ row' = None
    /\ rows' = 0
    /\ UNCHANGED <<looking, copy, writes, approved, edited, silent>>

PokeNext ==
    \/ \E w \in Writers :
        \/ Read(w)
        \/ Look(w)
        \/ \E text \in Texts, category \in Categories :
            \/ Create(w, text, category)
            \/ Save(w, text, category)
        \/ Approve(w)
        \/ Pickup(w)
        \/ Defer(w)
        \/ \E category \in Categories : Put(w, category)
        \/ Reopen(w)
        \/ Close(w)
    \/ \E text \in Texts, keepTime \in BOOLEAN : Edit(text, keepTime)
    \/ Delete

PokeSpec == PokeInit /\ [][PokeNext]_pokeVars

(* ------------------------------ properties ------------------------------- *)

(* docs/poke.md: "One issue has one record", whoever creates it at once.    *)
OneRecord == rows <= 1

(* "Keep ... shows ... entries and exits over the last seven days": what    *)
(* went in and out alternates, ends with where the poke is, and only an     *)
(* open poke is kept, whatever was saved, deferred, approved or closed.     *)
KeepFlow ==
    row # None =>
        /\ row.category = "keep" => row.state = "open" /\ row.flow # <<>>
        /\ row.flow # <<>> =>
               (row.flow[Len(row.flow)] = "in" <=> row.category = "keep")
        /\ \A i \in 2..Len(row.flow) : row.flow[i] # row.flow[i - 1]

(* A poke that is approved, or picked up for work, has the text the         *)
(* operator approved, but for what an editor did that knows no pokes.       *)
ApprovalHolds ==
    row # None /\ row.state \in {"approved", "picked_up"} =>
        row.text = approved \/ edited

(* "Concurrent sessions cannot overwrite another decision": a writer only   *)
(* replaces the poke it was shown, unless the time was kept by an edit.     *)
ChangesSeen ==
    [][\A w \in Writers :
         row # None /\ row' # row /\ copy'[w] # copy[w] /\ copy'[w] = row' =>
             copy[w] = row \/ silent]_pokeVars
=================================================================================
