-------------------------------- MODULE Comms --------------------------------
(***************************************************************************)
(* Mail between LLM sessions (tjai_app/comms.py): sessions register under  *)
(* a name that is numbered among live peers, messages become one delivery  *)
(* row per recipient, the bridge of a session (scripts/llm_comms/bridge.py) *)
(* claims each row before it hands the message to its client, and mail a   *)
(* dead session never received moves to the session that bears its name.   *)
(*                                                                         *)
(* All sessions here ask for one name on one host, which is where they     *)
(* meet.  A session is fresh for FRESH_SECONDS after its last heartbeat;   *)
(* FORWARD_WINDOW, a day, is longer than what the model looks at.          *)
(***************************************************************************)
EXTENDS Integers, FiniteSets, FiniteSetsExt

CONSTANTS
    Sessions,   \* registration ids
    Bridges,    \* receiver processes; the lock file is per machine, so two of
                \* them can serve one session
    Renaming,   \* sessions that pass a name with the heartbeat, as bridge.py
                \* does; the MCP tool leaves it optional
    Messages,
    MaxFaults,  \* bound on crashes, stops, lost responses, hangs, retries
    None

ASSUME CommsAssumption ==
    /\ IsFiniteSet(Sessions)
    /\ Renaming \subseteq Sessions
    /\ MaxFaults \in Nat
    /\ None \notin Sessions \cup Messages

VARIABLES
    session,   \* LLMSession rows
    row,       \* LLMDelivery.state of a message for a session
    late,      \* rows created more than FRESH_SECONDS after last_seen
    letter,    \* the sender's call of send_message; copies: first recipients
    bridge,    \* receivers
    handed,    \* how often a session's client was given a message
    mishaps,   \* how many faults have happened
    clash      \* history: sessions that took a number without seeing its bearer

vars == <<session, row, late, letter, bridge, handed, mishaps, clash>>

(* The base name is 0, <base>-n is n. *)
Names == 0..Cardinality(Sessions)
Unregistered == [name |-> 0, known |-> FALSE, off |-> TRUE, fresh |-> FALSE]

RowStates == {"none", "pending", "uncertain", "accepted", "acknowledged"}
OffBridge == [at |-> "off", for |-> None, name |-> 0, taken |-> {}, todo |-> {}, x |-> None,
              report |-> "uncertain"]
(* A failed round begins again; only the registration outlives it. *)
RestartForgets(s) == [OffBridge EXCEPT !.at = "beating"]       \* mutant
Restarted(s) == [OffBridge EXCEPT !.at = "beating", !.for = s]
Unsent == [at |-> "unsent", target |-> None, to |-> None, copies |-> 0]
Group == "group"

TypeOK ==
    /\ session \in [Sessions -> [name : Names, known : BOOLEAN, off : BOOLEAN,
                                 fresh : BOOLEAN]]
    /\ row \in [Messages -> [Sessions -> RowStates]]
    /\ late \subseteq Messages \X Sessions
    /\ \A x \in Messages :
        /\ letter[x].at \in {"unsent", "resolved", "sent"}
        /\ letter[x].to \in Sessions \cup {None, Group}
        /\ letter[x].copies \in 0..Cardinality(Sessions)
    /\ \A b \in Bridges :
        /\ bridge[b].at \in {"off", "naming", "writing", "registered", "beating",
                             "beaten", "waiting", "claiming", "sending", "recording"}
        /\ bridge[b].for \in IF bridge[b].at = "off" THEN {None} ELSE Sessions
        /\ bridge[b].todo \subseteq Messages
    /\ handed \in [Messages -> [Sessions -> 0..(MaxFaults + 2)]]
    /\ mishaps \in 0..MaxFaults

Online(s) == session[s].known /\ ~session[s].off /\ session[s].fresh
Gone(s) == session[s].known /\ ~Online(s)
Mishap == mishaps < MaxFaults /\ mishaps' = mishaps + 1
Stored(x) == \E s \in Sessions : row[x][s] # "none"

Init ==
    /\ session = [s \in Sessions |-> Unregistered]
    /\ row = [x \in Messages |-> [s \in Sessions |-> "none"]]
    /\ late = {}
    /\ letter = [x \in Messages |-> Unsent]
    /\ bridge = [b \in Bridges |-> OffBridge]
    /\ handed = [x \in Messages |-> [s \in Sessions |-> 0]]
    /\ mishaps = 0
    /\ clash = {}

(* ---------------------------- registration ------------------------------ *)

Step(b, at) == bridge' = [bridge EXCEPT ![b].at = at]

(* startup.start launches the receiver of a session. *)
Launch(b, s) ==
    /\ bridge[b].at = "off"
    /\ bridge' = [bridge EXCEPT ![b].at = "naming", ![b].for = s]
    /\ UNCHANGED <<session, row, late, letter, handed, mishaps, clash>>

(* _numbered_instance: a numbered name is kept, without a look at the peers, *)
(* else the lowest number that no live peer uses.  It is read here and       *)
(* written in the next step.                                                 *)
Taken(s) == {session[t].name : t \in {u \in Sessions \ {s} : Online(u)}}
LowestBlind(s) == 1                        \* mutant: live peers are not seen
Lowest(s) == Min({n \in Names \ {0} : n \notin Taken(s)})
Numbered(s) == session[s].known /\ session[s].name > 0

ReadNumber(b) ==
    LET s == bridge[b].for
    IN  /\ bridge[b].at = "naming"
        /\ \/ /\ Numbered(s)
              /\ bridge' = [bridge EXCEPT ![b] =
                      [@ EXCEPT !.at = "writing", !.name = session[s].name]]
           \/ /\ ~Numbered(s)
              /\ bridge' = [bridge EXCEPT ![b] =
                      [@ EXCEPT !.at = "writing", !.name = Lowest(s), !.taken = Taken(s)]]
        /\ UNCHANGED <<session, row, late, letter, handed, mishaps, clash>>

(* Mail is late by the last_seen of its recipient, whenever that is set. *)
Seen(s, changed) ==
    /\ session' = [session EXCEPT ![s] = changed]
    /\ late' = {r \in late : r[2] # s}

(* register_session: update_or_create; it forwards in a transaction of its  *)
(* own.                                                                     *)
Register(b) ==
    LET s == bridge[b].for
        n == bridge[b].name
        bearers == {t \in Sessions \ {s} : Online(t) /\ session[t].name = n}
        unaware == n \notin bridge[b].taken
    IN  /\ bridge[b].at = "writing"
        /\ Seen(s, [name |-> n, known |-> TRUE, off |-> FALSE, fresh |-> TRUE])
        /\ clash' = IF bearers # {} /\ unaware
                    THEN clash \cup {s} ELSE clash
        /\ bridge' = [bridge EXCEPT ![b] = [OffBridge EXCEPT !.at = "registered", !.for = s]]
        /\ UNCHANGED <<row, letter, handed, mishaps>>

(* heartbeat_session: state and last_seen, and the name if one is passed.   *)
(* A bridge passes the name it was started with, or the client's own.       *)
Named(s) == IF s \in Renaming THEN 0 ELSE session[s].name

Heartbeat(b) ==
    LET s == bridge[b].for
        bearers == {t \in Sessions \ {s} :
                       Online(t) /\ session[t].name = session[s].name}
    IN  /\ bridge[b].at = "beating"
        /\ Seen(s, [session[s] EXCEPT !.name = Named(s), !.off = FALSE,
                                      !.fresh = TRUE])
        /\ clash' = IF ~Online(s) /\ bearers # {} THEN clash \cup {s} ELSE clash
        /\ Step(b, "beaten")
        /\ UNCHANGED <<row, letter, handed, mishaps>>

(* _forward_stranded: a pending row of a dead session of this name, sent    *)
(* while that session was alive, unless this one has a row of the message.  *)
PredecessorsOff(s) ==                       \* mutant: only a session that said so
    {t \in Sessions \ {s} :
        session[t].known /\ session[t].off /\ session[t].name = session[s].name}
Predecessors(s) ==
    {t \in Sessions \ {s} : Gone(t) /\ session[t].name = session[s].name}
StrandedAny(s, x) ==                       \* mutant: handed-over mail too
    {t \in Predecessors(s) : row[x][t] \notin {"none", "acknowledged"}}
StrandedFrom(s, x) ==
    {t \in Predecessors(s) : row[x][t] = "pending" /\ <<x, t>> \notin late}
Moved(s) == {x \in Messages : StrandedFrom(s, x) # {} /\ row[x][s] = "none"}

Adopt(b) ==
    LET s == bridge[b].for
    IN  /\ bridge[b].at \in {"registered", "beaten"}
        /\ IF session[s].off THEN UNCHANGED row
           ELSE \E from \in [Moved(s) -> Predecessors(s)] :
                /\ \A x \in Moved(s) : from[x] \in StrandedFrom(s, x)
                /\ row' = [x \in Messages |->
                        IF x \in Moved(s)
                        THEN [row[x] EXCEPT ![s] = "pending", ![from[x]] = "none"]
                        ELSE row[x]]
        /\ Step(b, IF bridge[b].at = "beaten" THEN "waiting" ELSE "beating")
        /\ UNCHANGED <<session, late, letter, handed, mishaps, clash>>

(* ------------------------------- sending -------------------------------- *)

(* _current_recipient: an offline id stands for a live bearer of its name.  *)
Successors(s) ==
    {t \in Sessions \ {s} : Online(t) /\ session[t].name = session[s].name}
Current(s) == IF Online(s) \/ Successors(s) = {} THEN {s} ELSE Successors(s)

(* send_message to a session or to a resource group, or again after a lost  *)
(* answer.                                                                  *)
Resolve(x) ==
    /\ \/ /\ letter[x].at = "unsent"
          /\ \/ \E s \in {t \in Sessions : session[t].known} : \E to \in Current(s) :
                   letter' = [letter EXCEPT ![x] =
                       [@ EXCEPT !.at = "resolved", !.target = s, !.to = to]]
             \/ letter' = [letter EXCEPT ![x] =
                       [@ EXCEPT !.at = "resolved", !.target = Group, !.to = Group]]
          /\ UNCHANGED mishaps
       \/ /\ letter[x].at = "sent"
          /\ Mishap
          /\ \E to \in IF letter[x].target = Group THEN {Group}
                       ELSE Current(letter[x].target) :
                letter' = [letter EXCEPT ![x].at = "resolved", ![x].to = to]
    /\ UNCHANGED <<session, row, late, bridge, handed, clash>>

(* Under the advisory lock of the message id: a known message is answered   *)
(* with its receipt, or refused for another recipient.  A group is who is   *)
(* online now; an empty one is refused.                                     *)
StoresAlways(x) == TRUE                    \* mutant: no look for the id
StoresNew(x) == ~Stored(x)

Store(x) ==
    LET to == letter[x].to
        recipients == IF to = Group THEN {s \in Sessions : Online(s)} ELSE {to}
    IN  /\ letter[x].at = "resolved"
        /\ IF StoresNew(x) /\ recipients # {}
           THEN /\ row' = [row EXCEPT ![x] = [s \in Sessions |->
                                IF s \in recipients THEN "pending" ELSE @[s]]]
                /\ late' = late \cup
                        {<<x, s>> : s \in {r \in recipients : ~session[r].fresh}}
                /\ letter' = [letter EXCEPT ![x].at = "sent",
                                            ![x].copies = IF @ = 0 THEN Cardinality(recipients) ELSE @]
           ELSE /\ letter' = [letter EXCEPT ![x].at = "sent"]
                /\ UNCHANGED <<row, late>>
        /\ UNCHANGED <<session, bridge, handed, mishaps, clash>>

(* The model acknowledges or replies to a message of its inbox, which it    *)
(* may have read there before any bridge handed it over.                    *)
Acknowledge(s, x) ==
    /\ row[x][s] \notin {"none", "acknowledged"}
    /\ row' = [row EXCEPT ![x][s] = "acknowledged"]
    /\ UNCHANGED <<session, late, letter, bridge, handed, mishaps, clash>>

(* ------------------------------- delivery ------------------------------- *)

(* wait_messages returns the pending rows, or none after its time. *)
Wait(b) ==
    LET pending == {x \in Messages : row[x][bridge[b].for] = "pending"}
    IN  /\ bridge[b].at = "waiting"
        /\ bridge' = [bridge EXCEPT ![b].todo = pending,
                ![b].at = IF pending = {} THEN "beating" ELSE "claiming"]
        /\ UNCHANGED <<session, row, late, letter, handed, mishaps, clash>>

(* A call raised, or the bridge ends: it says offline, and that call may be  *)
(* lost as well.                                                            *)
Offline(s) == Seen(s, [session[s] EXCEPT !.off = TRUE, !.fresh = TRUE])
SaysOffline(s) == Offline(s) \/ UNCHANGED <<session, late>>

NextAfter(todo) == IF todo = {} THEN "beating" ELSE "claiming"

(* record_delivery with claim: only a pending row, under its lock.  A row   *)
(* that was forwarded is not found: the bridge starts its round again.      *)
ClaimableTwice(s, x) == row[x][s] # "none"   \* mutant: state not looked at
Claimable(s, x) == row[x][s] = "pending"

Reserve(b, x) ==
    LET s == bridge[b].for
        left == bridge[b].todo \ {x}
    IN  /\ bridge[b].at = "claiming"
        /\ x \in bridge[b].todo
        /\ \/ /\ Claimable(s, x)
              /\ row' = [row EXCEPT ![x][s] = "uncertain"]
              /\ bridge' = [bridge EXCEPT ![b] = [@ EXCEPT !.at = "sending", !.x = x,
                                                           !.todo = left]]
              /\ UNCHANGED <<session, late, mishaps>>
           \/ /\ Claimable(s, x)            \* ... and the answer is lost
              /\ Mishap
              /\ SaysOffline(s)
              /\ row' = [row EXCEPT ![x][s] = "uncertain"]
              /\ bridge' = [bridge EXCEPT ![b] = Restarted(s)]
           \/ /\ row[x][s] = "none"
              /\ Offline(s)
              /\ bridge' = [bridge EXCEPT ![b] = Restarted(s)]
              /\ UNCHANGED <<row, mishaps>>
           \/ /\ row[x][s] # "none" /\ ~Claimable(s, x)
              /\ bridge' = [bridge EXCEPT ![b].at = NextAfter(left), ![b].todo = left]
              /\ UNCHANGED <<session, row, late, mishaps>>
        /\ UNCHANGED <<letter, handed, clash>>

(* The client takes the message; or the connection fails before or after it *)
(* has, which the bridge cannot tell apart.                                 *)
Hand(b) ==
    LET s == bridge[b].for
        x == bridge[b].x
    IN  /\ bridge[b].at = "sending"
        /\ \/ /\ handed' = [handed EXCEPT ![x][s] = @ + 1]
              /\ bridge' = [bridge EXCEPT ![b] = [@ EXCEPT !.at = "recording",
                                                           !.report = "accepted"]]
              /\ UNCHANGED mishaps
           \/ /\ Mishap
              /\ \E n \in {0, 1} : handed' = [handed EXCEPT ![x][s] = @ + n]
              /\ bridge' = [bridge EXCEPT ![b] = [@ EXCEPT !.at = "recording",
                                                           !.report = "uncertain"]]
        /\ UNCHANGED <<session, row, late, letter, clash>>

(* record_delivery: a report does not undo an acknowledgment. *)
Recorded(old, report) == IF old = "acknowledged" THEN old ELSE report

Record(b) ==
    LET s == bridge[b].for
        x == bridge[b].x
    IN  /\ bridge[b].at = "recording"
        /\ row' = [row EXCEPT ![x][s] =
                      IF @ = "none" THEN @ ELSE Recorded(@, bridge[b].report)]
        /\ bridge' = [bridge EXCEPT ![b] = [@ EXCEPT !.at = NextAfter(bridge[b].todo),
                                     !.x = None, !.report = "uncertain"]]
        /\ UNCHANGED <<session, late, letter, handed, mishaps, clash>>

(* -------------------------------- faults -------------------------------- *)

InLoop == {"registered", "beating", "beaten", "waiting", "claiming", "sending", "recording"}

(* A call raises before it has done anything: the round begins again.       *)
CallFails(b) ==
    LET s == bridge[b].for
    IN  /\ bridge[b].at \in InLoop
        /\ Mishap
        /\ SaysOffline(s)
        /\ bridge' = [bridge EXCEPT ![b] = Restarted(s)]
        /\ UNCHANGED <<row, letter, handed, clash>>

(* The client is gone: the bridge ends with an offline heartbeat; killed,   *)
(* without one.                                                             *)
Stop(b) ==
    LET s == bridge[b].for
    IN  /\ bridge[b].at \in InLoop
        /\ Mishap
        /\ SaysOffline(s)
        /\ bridge' = [bridge EXCEPT ![b] = OffBridge]
        /\ UNCHANGED <<row, letter, handed, clash>>

(* FRESH_SECONDS without a heartbeat: a bridge that runs beats every 25 s,  *)
(* so one that hangs is a fault.                                            *)
Expire(s) ==
    /\ session[s].fresh
    /\ session' = [session EXCEPT ![s].fresh = FALSE]
    /\ IF \E b \in Bridges : bridge[b].for = s /\ bridge[b].at \in InLoop
       THEN Mishap ELSE UNCHANGED mishaps
    /\ UNCHANGED <<row, late, letter, bridge, handed, clash>>

Next ==
    \/ \E b \in Bridges :
        \/ \E s \in Sessions : Launch(b, s)
        \/ ReadNumber(b)
        \/ Register(b)
        \/ Heartbeat(b)
        \/ Adopt(b)
        \/ Wait(b)
        \/ \E x \in Messages : Reserve(b, x)
        \/ Hand(b)
        \/ Record(b)
        \/ CallFails(b)
        \/ Stop(b)
    \/ \E s \in Sessions : Expire(s) \/ \E x \in Messages : Acknowledge(s, x)
    \/ \E x \in Messages : Resolve(x) \/ Store(x)

Spec == Init /\ [][Next]_vars

(* A bridge that runs goes on, and time passes. *)
Receives(b) ==
    \/ ReadNumber(b)
    \/ Register(b)
    \/ Heartbeat(b)
    \/ Adopt(b)
    \/ Wait(b)
    \/ \E x \in Messages : Reserve(b, x)
    \/ Hand(b)
    \/ Record(b)
FairSpec ==
    /\ Spec
    /\ \A b \in Bridges : WF_vars(Receives(b))
    /\ \A s \in Sessions : WF_vars(Expire(s))

(* ------------------------------ properties ------------------------------- *)

(* A message has the copies it was first stored with, each in one mailbox,   *)
(* and a copy is handed to a client at most once ("No blind retry") and to   *)
(* none but that of the session which has it, whatever is claimed by two     *)
(* bridges, forwarded, sent again or lost: a retry that resolves to another  *)
(* session creates nothing, and forwarding moves.                            *)
Holders(x) == {s \in Sessions : row[x][s] # "none"}
CopiesKept ==
    \A x \in Messages :
        /\ Cardinality(Holders(x)) = letter[x].copies
        /\ \A s \in Sessions : handed[x][s] <= IF s \in Holders(x) THEN 1 ELSE 0

(* Two live sessions do not answer to one numbered name, unless they asked  *)
(* at the same time (the number is read before it is written, without a     *)
(* lock) or one came back after its number was given away.                  *)
NumbersDistinct ==
    \A s, t \in Sessions :
        /\ s # t /\ Online(s) /\ Online(t)
        /\ session[s].name = session[t].name
        /\ session[s].name > 0
        => {s, t} \cap clash # {}

(* Mail sent to a living session arrives: a copy does not stay pending      *)
(* while its session has a bridge, or while one works under that session's  *)
(* name for a session without a copy of its own.                            *)
Heir(x, s) ==
    \E b \in Bridges :
        /\ bridge[b].at \in InLoop
        /\ \/ bridge[b].for = s
           \/ /\ session[bridge[b].for].name = session[s].name
              /\ row[x][bridge[b].for] = "none"
Waits(x, s) == row[x][s] = "pending" /\ <<x, s>> \notin late /\ Heir(x, s)
MailArrives == \A x \in Messages, s \in Sessions : []<>~Waits(x, s)
=============================================================================
